--------------------------- MODULE FileStoreProofs ---------------------------
(***************************************************************************)
(* What the file backend keeps through failures and deaths, for every      *)
(* number of processes, ids and scopes: what it has acknowledged, one tree *)
(* for each id, nothing of an import that did not finish.                  *)
(***************************************************************************)
EXTENDS FileStore, TLAPS

Calls  == Simple \cup {"store", "update"}
Claims == {"idle", "got", "lock", "steal"}
Early  == {"lock", "steal", "look"}
Quiet  == Claims \cup {"look", "rollback"}
Writes == {"snap", "write", "drop", "release"}
Owners == Procs \cup {"none", "dead"}

\* A call knows its id, and a step of a call belongs to it.
JobOK(p) ==
    /\ job[p].op \in Calls \cup {"none", "recover", "importBatch"}
    /\ job[p].op \in Calls => "id" \in DOMAIN job[p] /\ job[p].id \in Ids
    /\ job[p].op = "store" => job[p].scope \in Scopes
    /\ job[p].op = "update" => /\ job[p].place \in Places /\ job[p].scope \in Scopes
                               /\ job[p].copy \in Files /\ job[p].edits \in BOOLEAN
    /\ job[p].op \notin Calls => "id" \notin DOMAIN job[p]
    /\ pc[p] \in Writes => job[p].op \in Calls
    /\ pc[p] \in {"import", "undo"} => /\ job[p].op = "importBatch"
                                   /\ "ids" \in DOMAIN job[p] /\ job[p].ids \subseteq Batch
    /\ pc[p] = "got" => job[p].op = "update"
    /\ pc[p] \in Early => job[p].op # "none"

Plans == [snap : BOOLEAN, at : Places, file : Files \cup {NoFile}, drop : BOOLEAN, from : Places]

DiskOK ==
    /\ disk \in [Ids -> [Places -> Files \cup {NoFile}]]
    /\ history \in [Ids -> Seq(Texts)] /\ \A id \in Ids : Len(history[id]) <= HistoryLimit
    /\ lock \in Owners
    /\ journal \subseteq Batch
    /\ now \in 0 .. MaxNow

CallsOK ==
    /\ pc \in [Procs -> Claims \cup Critical]
    /\ plan \in [Procs -> Plans]
    /\ DOMAIN job = Procs /\ \A p \in Procs : JobOK(p)
    /\ recovered \in [Procs -> BOOLEAN]

TruthOK ==
    /\ DOMAIN kept = Ids
    /\ brought \subseteq Batch
    /\ breached \in BOOLEAN
    /\ wound \in [Ids -> {"none", "twin", "lost"}]

StoreTypeOK == DiskOK /\ CallsOK /\ TruthOK

\* Whoever is past the lock has it.
LockIsHeld == \A p \in Procs : pc[p] \in Critical => lock = p
-----------------------------------------------------------------------------
(* What the files of an id are like, given as f.                           *)

Among(f)  == {pl \in Places : f[pl] # NoFile}
Single(f) == \A a, b \in Among(f) : a = b
Paired(f) == \A a, b \in Among(f) : a.arch = b.arch => a = b
Past(h, t) == Len(h) = HistoryLimit \/ \E i \in DOMAIN h : h[i] = t

\* The content is kept, and recovery will not choose a copy without it.
Held(f, h, t) ==
    \/ Past(h, t)
    \/ \E a \in Among(f) :
          /\ f[a].text = t
          /\ \A z \in Among(f) : f[z].text = t \/ (~a.arch /\ f[a].stamp > f[z].stamp)

\* What recovery can put together: one copy, or one in each tree.
Sound(f, id) ==
    /\ wound[id] = "none" => Single(f)
    /\ wound[id] = "twin" => Paired(f) /\ id \notin Tenanted
    /\ wound[id] # "lost" => \A t \in kept[id] : Held(f, history[id], t)

\* The files of the id of p once it has dropped the old place.
After(p) == [disk[job[p].id] EXCEPT ![plan[p].from] = NoFile]

\* An id that nobody moves is at rest.
AtRest == \A id \in Ids : (\E p \in Procs : Moving(p) /\ job[p].id = id) \/ Sound(disk[id], id)

\* A move has written the new place and will leave the id at rest; should it be
\* cut short, the two copies are what recovery is for.
MoveOK(p) ==
    LET id == job[p].id
        at == plan[p].at
        from == plan[p].from
        text == plan[p].file.text
    IN /\ at # from /\ disk[id][at] = plan[p].file
       /\ Sound(After(p), id)
       /\ wound[id] # "lost" => Held(After(p), history[id], text)
       /\ wound[id] = "none" =>
             /\ Among(disk[id]) \subseteq {at, from}
             /\ \A t \in kept[id] : Past(history[id], t) \/ (t = text /\ disk[id][from].text = t)

MovesAreSafe == \A p \in Procs : /\ Moving(p) => MoveOK(p)
                                 /\ pc[p] = "drop" => (Moving(p) <=> job[p].op # "forget")

\* What a call has decided under the lock fits what it found.
PlanOK(p) ==
    LET id == job[p].id
        op == job[p].op
        at == plan[p].at
        from == plan[p].from
        file == plan[p].file
        old == disk[id][from]
    IN /\ file # NoFile /\ op # "forget"
       /\ op = "store" => Among(disk[id]) = {} /\ ~plan[p].drop /\ ~at.arch
       /\ op = "touch" => disk[id][at] = file /\ ~plan[p].drop
       /\ op \in {"archive", "revive"} =>
             /\ from \in Found(id) /\ plan[p].drop /\ file.text = old.text
             /\ from.arch <=> op = "revive"
             /\ at.arch <=> op = "archive"
             /\ at.scope = from.scope
       /\ op = "update" =>
             /\ from \in Among(disk[id]) /\ (plan[p].drop <=> from # at)
             /\ plan[p].drop => at \notin Among(disk[id]) /\ from \in Found(id)
             /\ pc[p] = "snap" \/ file.text = old.text \/ Past(history[id], old.text)

PlansFit == \A p \in Procs : pc[p] \in {"snap", "write"} => PlanOK(p)

\* What a call is about to acknowledge is there.
AnswerOK(p) ==
    job[p].op \notin {"forget", "touch"} /\ wound[job[p].id] # "lost" =>
        Held(disk[job[p].id], history[job[p].id], plan[p].file.text)

AnswersAreTrue == \A p \in Procs : pc[p] = "release" => AnswerOK(p)

\* Until it is written a new id has no file, and the calls that name it find none.
NewIsNew ==
    \A p \in Procs : job[p].op = "store" /\ pc[p] \in Early \cup {"snap", "write"} =>
        /\ job[p].id \notin Batch /\ Among(disk[job[p].id]) = {}
        /\ \A q \in Procs \ {p} : "id" \in DOMAIN job[q] /\ job[q].id = job[p].id =>
                job[q].op \in Simple /\ pc[q] \in Early

\* An import writes ids that had no file, and its journal names them; what it
\* has yet to undo is among them.
ImportOK(p) ==
    /\ brought \subseteq job[p].ids /\ job[p].ids \subseteq journal
    /\ \A id \in journal :
          /\ Among(disk[id]) \subseteq {Home}
          /\ id \in brought => disk[id][Home].text = <<"import", 1>>
          /\ wound[id] # "lost" => \A t \in kept[id] : Past(history[id], t)

ImportsAreClean == \A p \in Procs : Importing(p) => ImportOK(p)

\* What an import has brought is in its journal until it has finished or been
\* undone; the ids of a journal that nobody works on are beyond the promise.
JournalIsTrue ==
    /\ brought \subseteq journal
    /\ \A id \in brought : disk[id][Home] # NoFile
    /\ \A id \in journal : wound[id] = "lost" \/ \E p \in Procs : Importing(p)
    /\ \A p \in Procs : pc[p] = "reconcile" => journal = {}

\* Nothing is dated later than it is.
NoLaterStamp == /\ \A id \in Ids, pl \in Places : disk[id][pl].stamp <= now
                /\ \A p \in Procs : plan[p].file.stamp <= now

FilesAreSafe ==
    /\ AtRest
    /\ MovesAreSafe
    /\ PlansFit
    /\ AnswersAreTrue
    /\ ImportsAreClean
    /\ JournalIsTrue

\* A lock that is taken from a process at work ends all of this.
StoreInv ==
    /\ StoreTypeOK
    /\ NoLaterStamp
    /\ ~breached => LockIsHeld /\ NewIsNew /\ FilesAreSafe
-----------------------------------------------------------------------------
(* Types.  Every step changes the call of one process.                     *)

LEMMA Constants ==
    /\ Home \in Places /\ NoFile \notin Files /\ NoFile.stamp = 0 /\ NoFile.ver = 0
    /\ NoPlan \in Plans /\ NoPlan.file = NoFile
    /\ NoLock \in Owners
    /\ \A f \in Files : f.stamp \in 0 .. MaxNow /\ f.text \in Texts /\ f.ver \in 1 .. MaxVer /\ f # NoFile
<1> USE FileStoreAssumption
<1>1. Home \in Places
  BY DEF Home, Places
<1>2. NoFile \notin Files /\ NoFile.stamp = 0 /\ NoFile.ver = 0
  BY DEF NoFile, Files
<1>3. NoPlan \in Plans /\ NoPlan.file = NoFile
  BY <1>1 DEF NoPlan, Plans
<1>4. NoLock \in Owners
  BY DEF NoLock, Owners
<1>5. \A f \in Files : f.stamp \in 0 .. MaxNow /\ f.text \in Texts /\ f.ver \in 1 .. MaxVer
  BY DEF Files
<1>6. \A f \in Files : f # NoFile
  BY <1>2
<1> QED BY <1>1, <1>2, <1>3, <1>4, <1>5, <1>6

LEMMA TypeStart == Init => StoreTypeOK /\ NoLaterStamp
<1> SUFFICES ASSUME Init PROVE StoreTypeOK /\ NoLaterStamp
  OBVIOUS
<1> USE FileStoreAssumption, Constants DEF Init
<1>1. DiskOK
  <2>1. history \in [Ids -> Seq(Texts)] /\ \A id \in Ids : Len(history[id]) <= HistoryLimit
    OBVIOUS
  <2>2. disk \in [Ids -> [Places -> Files \cup {NoFile}]]
    OBVIOUS
  <2>3. lock \in Owners /\ journal \subseteq Batch /\ now \in 0 .. MaxNow
    OBVIOUS
  <2> HIDE DEF Init
  <2> QED BY <2>1, <2>2, <2>3 DEF DiskOK
<1>2. CallsOK
  <2>1. \A p \in Procs : JobOK(p)
    BY DEF JobOK, NoJob, Early, Calls, Simple, Writes
  <2>2. pc \in [Procs -> Claims \cup Critical] /\ plan \in [Procs -> Plans]
    BY DEF Claims
  <2>3. DOMAIN job = Procs /\ recovered \in [Procs -> BOOLEAN]
    OBVIOUS
  <2> HIDE DEF Init
  <2> QED BY <2>1, <2>2, <2>3 DEF CallsOK
<1>3. TruthOK
  BY DEF TruthOK
<1>4. NoLaterStamp
  BY DEF NoLaterStamp
<1> QED BY <1>1, <1>2, <1>3, <1>4 DEF StoreTypeOK

\* A call that ends.
LEMMA LeavesOK ==
    ASSUME CallsOK, NEW p \in Procs, Leave(p), recovered' \in [Procs -> BOOLEAN]
    PROVE  /\ CallsOK'
           /\ \A q \in Procs : plan'[q].file \in {plan[q].file, NoFile}
<1> USE DEF Leave, Goto
<1>1. \A q \in Procs : /\ q # p => pc'[q] = pc[q] /\ job'[q] = job[q] /\ plan'[q] = plan[q]
                       /\ q = p => pc'[q] = "idle" /\ job'[q] = NoJob /\ plan'[q] = NoPlan
  BY DEF CallsOK
<1>2. pc' \in [Procs -> Claims \cup Critical] /\ plan' \in [Procs -> Plans] /\ DOMAIN job' = Procs
  BY Constants DEF CallsOK, Claims
<1>3. JobOK(p)'
  BY <1>1 DEF JobOK, NoJob, Early, Calls, Simple, Writes
<1>4. ASSUME NEW q \in Procs, q # p
      PROVE  JobOK(q)'
  <2>1. JobOK(q)
    BY DEF CallsOK
  <2>2. pc'[q] = pc[q] /\ job'[q] = job[q]
    BY <1>1, <1>4
  <2> HIDE DEF Leave
  <2> QED BY <2>1, <2>2 DEF JobOK
<1> QED BY <1>1, <1>2, <1>3, <1>4, Constants DEF CallsOK

\* A call that goes on to another label, with the job it has.
LEMMA GoesOnOK ==
    ASSUME CallsOK, NEW p \in Procs, NEW l \in Claims \cup Critical, pc' = [pc EXCEPT ![p] = l],
           UNCHANGED <<job, plan, recovered>>,
           l \in Writes => job[p].op \in Calls,
           l \in {"import", "undo"} => /\ job[p].op = "importBatch"
                                     /\ "ids" \in DOMAIN job[p] /\ job[p].ids \subseteq Batch,
           l = "got" => job[p].op = "update",
           l \in Early => job[p].op # "none"
    PROVE  CallsOK'
<1>1. \A q \in Procs : pc'[q] = IF q = p THEN l ELSE pc[q]
  BY DEF CallsOK
<1>2. ASSUME NEW q \in Procs
      PROVE  JobOK(q)'
  <2>1. JobOK(q) /\ job' = job
    BY DEF CallsOK
  <2> QED BY <1>1, <2>1 DEF JobOK
<1> QED BY <1>2 DEF CallsOK

\* A file that is written or unlinked.
LEMMA OneFile ==
    ASSUME DiskOK, NEW id \in Ids, NEW pl \in Places, NEW f \in Files \cup {NoFile},
           disk' = [disk EXCEPT ![id][pl] = f]
    PROVE  /\ disk' \in [Ids -> [Places -> Files \cup {NoFile}]]
           /\ disk'[id] = [disk[id] EXCEPT ![pl] = f]
           /\ disk'[id][pl] = f
           /\ \A q \in Places \ {pl} : disk'[id][q] = disk[id][q]
           /\ \A i \in Ids \ {id} : disk'[i] = disk[i]
           /\ \A i \in Ids, q \in Places : disk'[i][q] \in {disk[i][q], f}
<1>1. disk[id] \in [Places -> Files \cup {NoFile}]
  BY DEF DiskOK
<1>2. disk' = [disk EXCEPT ![id] = [disk[id] EXCEPT ![pl] = f]]
  BY DEF DiskOK
<1>3. [disk[id] EXCEPT ![pl] = f] \in [Places -> Files \cup {NoFile}]
  BY <1>1
<1>4. /\ disk'[id] = [disk[id] EXCEPT ![pl] = f] /\ disk'[id][pl] = f
      /\ \A q \in Places \ {pl} : disk'[id][q] = disk[id][q]
      /\ \A i \in Ids \ {id} : disk'[i] = disk[i]
  BY <1>1, <1>2 DEF DiskOK
<1>5. \A i \in Ids, q \in Places : disk'[i][q] \in {disk[i][q], f}
  BY <1>4
<1> QED BY <1>2, <1>3, <1>4, <1>5 DEF DiskOK

\* Somebody has the lock file, or nobody, when it has been released.
LEMMA LocksOK ==
    ASSUME DiskOK, NEW p \in Procs
    PROVE  ReleaseFileLock(p) \in Owners
BY Constants DEF ReleaseFileLock, DiskOK

\* What is left of a call that is cut short.
LEMMA WoundsOK ==
    ASSUME TruthOK, NEW p \in Procs
    PROVE  \A id \in Ids : Wounds(p, id) \in {"none", "twin", "lost"}
BY DEF Wounds, TruthOK

\* The history of an id is as long as it may be, and forgets nothing before.
LEMMA KeepsText ==
    ASSUME NEW h \in Seq(Texts), Len(h) <= HistoryLimit, NEW text \in Texts
    PROVE  /\ KeepText(h, text) \in Seq(Texts) /\ Len(KeepText(h, text)) <= HistoryLimit
           /\ Past(KeepText(h, text), text)
           /\ \A t : Past(h, t) => Past(KeepText(h, text), t)
<1> USE FileStoreAssumption
<1> DEFINE all == Append(h, text)
<1>1. /\ all \in Seq(Texts) /\ Len(all) = Len(h) + 1 /\ all[Len(h) + 1] = text
      /\ \A i \in 1 .. Len(h) : all[i] = h[i]
  OBVIOUS
<1>2. CASE Len(all) > HistoryLimit
  <2>1. Tail(all) \in Seq(Texts) /\ Len(Tail(all)) = HistoryLimit
    BY <1>1, <1>2
  <2>2. KeepText(h, text) = Tail(all)
    BY <1>2 DEF KeepText
  <2> QED BY <2>1, <2>2 DEF Past
<1>3. CASE ~(Len(all) > HistoryLimit)
  <2>1. KeepText(h, text) = all
    BY <1>3 DEF KeepText
  <2>2. Len(h) # HistoryLimit /\ Len(all) <= HistoryLimit
    BY <1>1, <1>3
  <2>3. Past(all, text)
    BY <1>1 DEF Past
  <2>4. \A t : Past(h, t) => Past(all, t)
    BY <1>1, <2>2 DEF Past
  <2> QED BY <1>1, <2>1, <2>2, <2>3, <2>4
<1> QED BY <1>2, <1>3

\* Files and plans that stay as they are, or go, are not dated later.
LEMMA Undated ==
    ASSUME DiskOK, NoLaterStamp, now' = now,
           \A id \in Ids, pl \in Places : disk'[id][pl] \in {disk[id][pl], NoFile},
           \A p \in Procs : plan'[p].file \in {plan[p].file, NoFile}
    PROVE  NoLaterStamp'
<1>1. now \in Nat /\ 0 <= now
  BY FileStoreAssumption DEF DiskOK
<1>2. \A id \in Ids, pl \in Places : disk'[id][pl].stamp <= now
  BY <1>1, Constants DEF NoLaterStamp
<1>3. \A p \in Procs : plan'[p].file.stamp <= now
  BY <1>1, Constants DEF NoLaterStamp
<1> QED BY <1>2, <1>3 DEF NoLaterStamp

\* What a call decides: a plan of its kind, for what it finds.
LEMMA Decided ==
    ASSUME StoreTypeOK, NoLaterStamp, NEW p \in Procs, pc[p] = "look",
           job[p].op \in Calls, NEW d \in Decisions(p)
    PROVE  LET id == job[p].id
               op == job[p].op
               old == disk[id][d.from]
           IN /\ d \in Plans /\ d.file.stamp <= now
              /\ op = "forget" <=> d.file = NoFile
              /\ op = "forget" => ~d.snap
              /\ op \notin {"forget", "touch"} => d.file.stamp = now
              /\ op = "store" => ~d.snap /\ ~d.drop /\ ~d.at.arch
              /\ op = "touch" => ~d.snap /\ ~d.drop /\ disk[id][d.at] = d.file
              /\ op \in {"archive", "revive"} =>
                    /\ ~d.snap /\ d.drop /\ d.from \in Found(id) /\ d.file.text = old.text
                    /\ d.from.arch <=> op = "revive"
                    /\ d.at.arch <=> op = "archive"
                    /\ d.at.scope = d.from.scope
              /\ op = "update" =>
                    /\ d.from \in Among(disk[id]) /\ (d.drop <=> d.from # d.at)
                    /\ d.drop => d.at \notin Among(disk[id]) /\ d.from \in Found(id)
                    /\ d.snap \/ d.file.text = old.text
<1> USE FileStoreAssumption, Constants
<1> DEFINE id == job[p].id
<1>1. /\ JobOK(p) /\ id \in Ids /\ disk[id] \in [Places -> Files \cup {NoFile}]
      /\ now \in 0 .. MaxNow
  BY DEF StoreTypeOK, CallsOK, DiskOK, JobOK
<1>2. \A pl \in Found(id) : pl \in Places /\ disk[id][pl] \in Files /\ pl \in Among(disk[id])
  BY <1>1 DEF Found, Homes, Among
<1>3. \A f \in Files : [f EXCEPT !.stamp = now] \in Files
  BY <1>1 DEF Files
<1>4. CASE job[p].op = "store"
  <2>1. d = New(p, job[p].scope) /\ job[p].scope \in Scopes
    BY <1>1, <1>4 DEF Decisions, JobOK
  <2>2. [ver |-> 1, text |-> <<p, 1>>, stamp |-> now] \in Files
    BY <1>1 DEF Files, Texts
  <2>3. /\ d.file = [ver |-> 1, text |-> <<p, 1>>, stamp |-> now] /\ d.at = [arch |-> FALSE, scope |-> job[p].scope]
        /\ ~d.snap /\ ~d.drop /\ d \in Plans
    <3>1. [arch |-> FALSE, scope |-> job[p].scope] \in Places
      BY <2>1 DEF Places
    <3> QED BY <2>1, <2>2, <3>1 DEF New, Plans, NoPlan
  <2> QED BY <1>1, <1>4, <2>2, <2>3
<1>5. CASE job[p].op = "forget"
  <2>1. PICK pl \in Found(id) : d = [NoPlan EXCEPT !.drop = TRUE, !.from = pl]
    BY <1>5 DEF Decisions
  <2>2. d \in Plans /\ d.file = NoFile /\ ~d.snap
    BY <1>2, <2>1 DEF Plans, NoPlan
  <2> QED BY <1>1, <1>5, <2>2
<1>6. ASSUME NEW arch \in BOOLEAN, NEW pl \in Found(id), d = MoveTo(id, pl, arch), pl.arch # arch
      PROVE  /\ d \in Plans /\ d.file \in Files /\ d.file.stamp = now
             /\ ~d.snap /\ d.drop /\ d.from = pl /\ d.file.text = disk[id][pl].text
             /\ (d.at.arch <=> arch) /\ d.at.scope = pl.scope
  <2>1. [pl EXCEPT !.arch = arch] \in Places
    BY <1>2 DEF Places
  <2>2. /\ d.file = [disk[id][pl] EXCEPT !.stamp = now] /\ d.at = [pl EXCEPT !.arch = arch]
        /\ ~d.snap /\ d.drop /\ d.from = pl
    BY <1>6 DEF MoveTo, NoPlan
  <2>3. d.file \in Files /\ d.file.stamp = now /\ d.file.text = disk[id][pl].text
    BY <1>2, <1>3, <2>2 DEF Files
  <2>4. (d.at.arch <=> arch) /\ d.at.scope = pl.scope
    BY <1>2, <2>2 DEF Places
  <2>5. d \in Plans
    BY <1>2, <1>3, <1>6, <2>1 DEF MoveTo, NoPlan, Plans
  <2> QED BY <2>2, <2>3, <2>4, <2>5
<1>7. CASE job[p].op = "archive"
  <2>1. PICK pl \in Found(id) : ~pl.arch /\ d = MoveTo(id, pl, TRUE)
    BY <1>7 DEF Decisions
  <2>2. pl.arch \in BOOLEAN
    BY <1>2 DEF Places
  <2>3. /\ d \in Plans /\ d.file \in Files /\ d.file.stamp = now
        /\ ~d.snap /\ d.drop /\ d.from = pl /\ d.file.text = disk[id][pl].text
        /\ d.at.arch /\ d.at.scope = pl.scope
    BY <1>6, <2>1, <2>2
  <2> HIDE DEF id
  <2>4. d.file # NoFile /\ d.file.stamp <= now
    <3>1. d.file # NoFile
      BY <2>3
    <3>2. now \in Nat
      BY <1>1
    <3> QED BY <2>3, <3>1, <3>2
  <2> USE DEF id
  <2> QED BY <1>7, <2>1, <2>3, <2>4
<1>8. CASE job[p].op = "revive"
  <2>1. PICK pl \in Found(id) : pl.arch /\ d = MoveTo(id, pl, FALSE)
    BY <1>8 DEF Decisions
  <2>2. pl.arch \in BOOLEAN
    BY <1>2 DEF Places
  <2>3. /\ d \in Plans /\ d.file \in Files /\ d.file.stamp = now
        /\ ~d.snap /\ d.drop /\ d.from = pl /\ d.file.text = disk[id][pl].text
        /\ ~d.at.arch /\ d.at.scope = pl.scope
    BY <1>6, <2>1, <2>2
  <2> HIDE DEF id
  <2>4. d.file # NoFile /\ d.file.stamp <= now
    <3>1. d.file # NoFile
      BY <2>3
    <3>2. now \in Nat
      BY <1>1
    <3> QED BY <2>3, <3>1, <3>2
  <2> USE DEF id
  <2> QED BY <1>8, <2>1, <2>3, <2>4
<1>9. CASE job[p].op = "touch"
  <2>1. PICK pl \in Found(id) : d = [NoPlan EXCEPT !.at = pl, !.file = disk[id][pl]]
    BY <1>9 DEF Decisions
  <2>2. d \in Plans /\ d.file = disk[id][pl] /\ d.at = pl /\ ~d.snap /\ ~d.drop
    BY <1>2, <2>1 DEF Plans, NoPlan
  <2>3. d.file.stamp <= now /\ d.file # NoFile
    BY <1>1, <1>2, <2>2 DEF NoLaterStamp
  <2> QED BY <1>1, <1>9, <2>2, <2>3
<1>10. CASE job[p].op = "update"
  <2>1. PICK pl \in Existing(job[p]) : disk[id][pl].ver < MaxVer /\ d = Rewrite(p, job[p], pl)
    BY <1>10 DEF Decisions
  <2>2. /\ job[p].place \in Places /\ job[p].scope \in Scopes /\ job[p].copy \in Files /\ job[p].edits \in BOOLEAN
    BY <1>1, <1>10 DEF JobOK
  <2>3. Target(job[p]) \in Places
    BY <2>2 DEF Target, Places
  <2>4. pl \in Places /\ disk[id][pl] \in Files /\ pl \in Among(disk[id])
    BY <1>1, <1>2, <2>1, <2>3 DEF Existing, Among
  <2>5. pl = Target(job[p]) \/ (Target(job[p]) \notin Among(disk[id]) /\ pl \in Found(id))
    BY <2>1 DEF Existing, Among
  <2>6. PICK text \in Texts : /\ d.file = [ver |-> disk[id][pl].ver + 1, text |-> text, stamp |-> now]
                              /\ d = [snap |-> disk[id][pl].text # text, at |-> Target(job[p]), file |-> d.file,
                                      drop |-> pl # Target(job[p]), from |-> pl]
    <3>1. disk[id][pl].ver + 1 \in 1 .. MaxVer /\ job[p].copy.text \in Texts
      BY <2>1, <2>2, <2>4
    <3>2. <<p, disk[id][pl].ver + 1>> \in Texts
      BY <3>1 DEF Texts
    <3> QED BY <2>1, <3>1, <3>2 DEF Rewrite
  <2>7. d.file \in Files /\ d.file.stamp = now /\ d.file.text = text
    BY <1>1, <2>1, <2>4, <2>6 DEF Files
  <2>10. PICK snap \in BOOLEAN, drop \in BOOLEAN :
             /\ d = [snap |-> snap, at |-> Target(job[p]), file |-> d.file, drop |-> drop, from |-> pl]
             /\ drop <=> pl # Target(job[p])
             /\ snap <=> disk[id][pl].text # text
    <3> DEFINE a == (disk[id][pl].text # text)
               b == (pl # Target(job[p]))
    <3>1. d = [snap |-> a, at |-> Target(job[p]), file |-> d.file, drop |-> b, from |-> pl]
      BY <2>6
    <3>2. a \in BOOLEAN /\ b \in BOOLEAN
      OBVIOUS
    <3> HIDE DEF a, b
    <3>3. \E snap \in BOOLEAN, drop \in BOOLEAN :
             /\ d = [snap |-> snap, at |-> Target(job[p]), file |-> d.file, drop |-> drop, from |-> pl]
             /\ drop = b /\ snap = a
      BY <3>1, <3>2
    <3> QED BY <3>3 DEF a, b
  <2>8. /\ d.from = pl /\ d.at = Target(job[p]) /\ (d.drop <=> pl # Target(job[p]))
        /\ (d.snap <=> disk[id][pl].text # text)
    BY <2>10
  <2>9. d \in Plans
    BY <2>3, <2>4, <2>7, <2>10 DEF Plans
  <2> QED BY <1>1, <1>10, <2>4, <2>5, <2>7, <2>8, <2>9
<1> QED BY <1>4, <1>5, <1>7, <1>8, <1>9, <1>10 DEF Calls, Simple

\* Recovery leaves the copies of an id as they are, or drops some.
LEMMA ReconcilesFiles ==
    ASSUME DiskOK, NEW id \in Ids, NEW f \in Reconciled(id)
    PROVE  /\ f \in [Places -> Files \cup {NoFile}]
           /\ \A pl \in Places : f[pl] \in {disk[id][pl], NoFile}
<1>1. disk[id] \in [Places -> Files \cup {NoFile}]
  BY DEF DiskOK
<1>2. \/ f = disk[id]
      \/ \E S \in SUBSET Places : f = [pl \in Places |-> IF pl \in S THEN NoFile ELSE disk[id][pl]]
  <2> DEFINE active   == {pl \in Homes(id) : ~pl.arch}
             archived == {pl \in Homes(id) : pl.arch}
             Newer(a, z) == ~KeepArchived(disk[id][a], disk[id][z])
             Gone(z) == {pl \in Places : \/ pl \in active /\ ~Newer(pl, z)
                                            /\ \A a \in active : Before(a, pl) => ~Newer(a, z)
                                         \/ pl = z /\ \E a \in active : Newer(a, z)}
  <2>1. f = disk[id] \/ \E z \in archived : f = [pl \in Places |-> IF pl \in Gone(z) THEN NoFile ELSE disk[id][pl]]
    BY DEF Reconciled
  <2> QED BY <2>1
<1> QED BY <1>1, <1>2

\* Every step of every process keeps the types.
LEMMA TypeStep == StoreTypeOK /\ NoLaterStamp /\ [Next]_vars => StoreTypeOK' /\ NoLaterStamp'
<1> SUFFICES ASSUME StoreTypeOK, NoLaterStamp, [Next]_vars
             PROVE  StoreTypeOK' /\ NoLaterStamp'
  OBVIOUS
<1> USE FileStoreAssumption, Constants DEF StoreTypeOK, Goto, truth
<1>1. ASSUME NEW p \in Procs, NEW id \in Ids, NEW s \in Scopes, Store(p, id, s)
      PROVE  StoreTypeOK' /\ NoLaterStamp'
  <2> USE <1>1 DEF Store, Ask
  <2>1. DiskOK'
    BY DEF DiskOK
  <2>2. CallsOK'
    BY DEF CallsOK, JobOK, Claims, Early, Critical, Writes, Calls, Simple
  <2>3. TruthOK'
    BY DEF TruthOK
  <2>4. NoLaterStamp'
    BY DEF NoLaterStamp, DiskOK, CallsOK
  <2> QED BY <2>1, <2>2, <2>3, <2>4
<1>2. ASSUME NEW p \in Procs, NEW id \in Ids, NEW op \in Simple, Call(p, op, id)
      PROVE  StoreTypeOK' /\ NoLaterStamp'
  <2> USE <1>2 DEF Call, Ask
  <2>1. DiskOK'
    BY DEF DiskOK
  <2>2. CallsOK'
    BY DEF CallsOK, JobOK, Claims, Early, Critical, Writes, Calls, Simple
  <2>3. TruthOK'
    BY DEF TruthOK
  <2>4. NoLaterStamp'
    BY DEF NoLaterStamp, DiskOK, CallsOK
  <2> QED BY <2>1, <2>2, <2>3, <2>4
<1>3. ASSUME NEW p \in Procs, NEW id \in Ids, Get(p, id)
      PROVE  StoreTypeOK' /\ NoLaterStamp'
  <2> USE <1>3 DEF Get
  <2>5. PICK pl \in Found(id), s \in Scopes, edits \in BOOLEAN, guarded \in BOOLEAN :
            job' = [job EXCEPT ![p] = [op |-> "update", id |-> id, place |-> pl,
                        copy |-> disk[id][pl], scope |-> s, edits |-> edits, guarded |-> guarded]]
    OBVIOUS
  <2>6. pl \in Places /\ disk[id][pl] \in Files
    BY DEF Found, Homes, DiskOK
  <2>7. pc' = [pc EXCEPT ![p] = "got"] /\ UNCHANGED <<plan, recovered>>
    OBVIOUS
  <2>1. DiskOK'
    BY DEF DiskOK
  <2>2. CallsOK'
    <3> HIDE <1>3 DEF Get
    <3>1. JobOK(p)'
      BY <2>5, <2>6, <2>7 DEF CallsOK, JobOK, Claims, Early, Writes, Calls
    <3>2. ASSUME NEW q \in Procs, q # p
          PROVE  JobOK(q)'
      BY <2>5, <2>7, <3>2 DEF CallsOK, JobOK
    <3> QED BY <2>5, <2>7, <3>1, <3>2 DEF CallsOK, Claims
  <2>3. TruthOK'
    BY DEF TruthOK
  <2>4. NoLaterStamp'
    BY DEF NoLaterStamp, DiskOK, CallsOK
  <2> QED BY <2>1, <2>2, <2>3, <2>4
<1>4. ASSUME NEW p \in Procs, EnsureRecovered(p)
      PROVE  StoreTypeOK' /\ NoLaterStamp'
  <2> USE <1>4 DEF EnsureRecovered
  <2>1. DiskOK'
    BY DEF DiskOK
  <2>2. CallsOK'
    BY DEF CallsOK, JobOK, Claims, Early, Critical, Writes, Calls, Simple
  <2>3. TruthOK'
    BY DEF TruthOK
  <2>4. NoLaterStamp'
    BY DEF NoLaterStamp, DiskOK, CallsOK
  <2> QED BY <2>1, <2>2, <2>3, <2>4
<1>5. ASSUME NEW p \in Procs, ImportBatch(p)
      PROVE  StoreTypeOK' /\ NoLaterStamp'
  <2> USE <1>5 DEF ImportBatch, Ask
  <2>1. DiskOK'
    BY DEF DiskOK
  <2>2. CallsOK'
    BY DEF CallsOK, JobOK, Claims, Early, Critical, Writes, Calls, Simple
  <2>3. TruthOK'
    BY DEF TruthOK
  <2>4. NoLaterStamp'
    BY DEF NoLaterStamp, DiskOK, CallsOK
  <2> QED BY <2>1, <2>2, <2>3, <2>4
<1>6. ASSUME NEW p \in Procs, Update(p)
      PROVE  StoreTypeOK' /\ NoLaterStamp'
  <2> USE <1>6 DEF Update
  <2>1. DiskOK'
    BY DEF DiskOK
  <2>2. CallsOK'
    BY DEF CallsOK, JobOK, Claims, Early, Critical, Writes, Calls, Simple
  <2>3. TruthOK'
    BY DEF TruthOK
  <2>4. NoLaterStamp'
    BY DEF NoLaterStamp, DiskOK, CallsOK
  <2> QED BY <2>1, <2>2, <2>3, <2>4
<1>7. ASSUME NEW p \in Procs, Acquire(p)
      PROVE  StoreTypeOK' /\ NoLaterStamp'
  <2> USE <1>7 DEF Acquire
  <2>1. DiskOK'
    BY DEF DiskOK, Owners
  <2>2. CallsOK'
    BY DEF CallsOK, JobOK, Claims, Early, Critical, Writes, Calls, Simple
  <2>3. TruthOK'
    BY DEF TruthOK
  <2>4. NoLaterStamp'
    BY DEF NoLaterStamp, DiskOK, CallsOK
  <2> QED BY <2>1, <2>2, <2>3, <2>4
<1>8. ASSUME NEW p \in Procs, SeeStale(p)
      PROVE  StoreTypeOK' /\ NoLaterStamp'
  <2> USE <1>8 DEF SeeStale
  <2>1. DiskOK'
    BY DEF DiskOK
  <2>2. CallsOK'
    BY DEF CallsOK, JobOK, Claims, Early, Critical, Writes, Calls, Simple
  <2>3. TruthOK'
    BY DEF TruthOK
  <2>4. NoLaterStamp'
    BY DEF NoLaterStamp, DiskOK, CallsOK
  <2> QED BY <2>1, <2>2, <2>3, <2>4
<1>9. ASSUME NEW p \in Procs, Steal(p)
      PROVE  StoreTypeOK' /\ NoLaterStamp'
  <2> USE <1>9 DEF Steal
  <2>1. DiskOK'
    BY DEF DiskOK
  <2>2. CallsOK'
    BY DEF CallsOK, JobOK, Claims, Early, Critical, Writes, Calls, Simple
  <2>3. TruthOK'
    BY DEF TruthOK
  <2>4. NoLaterStamp'
    BY DEF NoLaterStamp, DiskOK, CallsOK
  <2> QED BY <2>1, <2>2, <2>3, <2>4
<1>10. ASSUME NEW p \in Procs, LockTimeout(p)
      PROVE  StoreTypeOK' /\ NoLaterStamp'
  <2> USE <1>10 DEF LockTimeout
  <2>1. DiskOK'
    BY LocksOK DEF DiskOK
  <2>2. CallsOK'
    BY LeavesOK DEF CallsOK
  <2>3. TruthOK'
    BY DEF TruthOK
  <2>4. NoLaterStamp'
    <3>1. \A q \in Procs : plan'[q].file \in {plan[q].file, NoFile}
      BY LeavesOK DEF CallsOK
    <3> QED BY <3>1, Undated
  <2> QED BY <2>1, <2>2, <2>3, <2>4
<1>11. ASSUME NEW p \in Procs, Look(p)
      PROVE  StoreTypeOK' /\ NoLaterStamp'
  <2>1. JobOK(p) /\ job[p].op \in Calls
    BY <1>11 DEF Look, CallsOK, JobOK, Early
  <2>2. CASE Decisions(p) = {}
    <3>1. Leave(p) /\ lock' = ReleaseFileLock(p) /\ UNCHANGED <<disk, history, journal, now, recovered, truth>>
      BY <1>11, <2>2 DEF Look
    <3>2. CallsOK' /\ \A q \in Procs : plan'[q].file \in {plan[q].file, NoFile}
      BY <3>1, LeavesOK DEF CallsOK
    <3>3. DiskOK'
      BY <3>1, LocksOK DEF DiskOK
    <3>4. NoLaterStamp'
      BY <3>1, <3>2, Undated
    <3> QED BY <3>1, <3>2, <3>3, <3>4 DEF TruthOK
  <2>3. CASE Decisions(p) # {}
    <3>1. PICK d \in Decisions(p) :
              /\ plan' = [plan EXCEPT ![p] = d]
              /\ pc' = [pc EXCEPT ![p] = IF d.snap THEN "snap" ELSE IF d.file # NoFile THEN "write" ELSE "drop"]
              /\ UNCHANGED <<disk, history, lock, journal, now, job, recovered, truth>>
      BY <1>11, <2>3 DEF Look
    <3>2. d \in Plans /\ d.file.stamp <= now
      BY <1>11, <2>1, Decided DEF Look
    <3>3. PICK l \in Writes : pc' = [pc EXCEPT ![p] = l]
      BY <3>1 DEF Writes
    <3>4. \A q \in Procs : JobOK(q)'
      BY <2>1, <3>1, <3>3 DEF CallsOK, JobOK, Early, Writes
    <3>5. CallsOK'
      BY <3>1, <3>2, <3>3, <3>4 DEF CallsOK, Writes, Critical
    <3>6. \A q \in Procs : plan'[q].file.stamp <= now
      BY <3>1, <3>2 DEF CallsOK, NoLaterStamp
    <3> QED BY <3>1, <3>5, <3>6 DEF DiskOK, TruthOK, NoLaterStamp
  <2> QED BY <2>2, <2>3
<1>12. ASSUME NEW p \in Procs, SnapshotHistory(p)
      PROVE  StoreTypeOK' /\ NoLaterStamp'
  <2> USE <1>12 DEF SnapshotHistory
  <2>5. /\ job[p].id \in Ids /\ plan[p].from \in Places
        /\ disk[job[p].id][plan[p].from] \in Files
    BY DEF CallsOK, JobOK, DiskOK, Plans, Writes
  <2>6. /\ KeepText(history[job[p].id], disk[job[p].id][plan[p].from].text) \in Seq(Texts)
        /\ Len(KeepText(history[job[p].id], disk[job[p].id][plan[p].from].text)) <= HistoryLimit
    <3> DEFINE h == history[job[p].id]
               text == disk[job[p].id][plan[p].from].text
    <3>1. h \in Seq(Texts) /\ Len(h) <= HistoryLimit /\ text \in Texts
      BY <2>5 DEF DiskOK
    <3> HIDE DEF h, text
    <3>2. KeepText(h, text) \in Seq(Texts) /\ Len(KeepText(h, text)) <= HistoryLimit
      BY <3>1, KeepsText
    <3> QED BY <3>2 DEF h, text
  <2>1. DiskOK'
    BY <2>5, <2>6 DEF DiskOK
  <2>2. CallsOK'
    BY DEF CallsOK, JobOK, Claims, Early, Critical, Writes, Calls, Simple
  <2>3. TruthOK'
    BY DEF TruthOK
  <2>4. NoLaterStamp'
    BY DEF NoLaterStamp, DiskOK, CallsOK
  <2> QED BY <2>1, <2>2, <2>3, <2>4
<1>13. ASSUME NEW p \in Procs, WriteCached(p)
      PROVE  StoreTypeOK' /\ NoLaterStamp'
  <2> USE <1>13 DEF WriteCached
  <2>5. job[p].id \in Ids /\ plan[p] \in Plans
    BY DEF CallsOK, JobOK, Writes
  <2>6. plan[p].at \in Places /\ plan[p].from \in Places /\ plan[p].file \in Files \cup {NoFile}
    BY <2>5 DEF Plans
  <2>7. /\ disk' \in [Ids -> [Places -> Files \cup {NoFile}]]
        /\ \A i \in Ids, pl \in Places : disk'[i][pl] \in {disk[i][pl], plan[p].file}
    <3>1. disk' = [disk EXCEPT ![job[p].id][plan[p].at] = plan[p].file]
      OBVIOUS
    <3>2. DiskOK
      OBVIOUS
    <3> DEFINE id == job[p].id
               pl == plan[p].at
               file == plan[p].file
    <3>3. id \in Ids /\ pl \in Places /\ file \in Files \cup {NoFile} /\ disk' = [disk EXCEPT ![id][pl] = file]
      BY <2>5, <2>6, <3>1
    <3>4. /\ disk' \in [Ids -> [Places -> Files \cup {NoFile}]]
          /\ \A i \in Ids, q \in Places : disk'[i][q] \in {disk[i][q], file}
      <4> HIDE <1>13 DEF WriteCached, id, pl, file
      <4> QED BY <3>2, <3>3, OneFile
    <3> QED BY <3>4
  <2>1. DiskOK'
    BY <2>7 DEF DiskOK
  <2>2. CallsOK'
    BY DEF CallsOK, JobOK, Claims, Early, Critical, Writes, Calls, Simple
  <2>3. TruthOK'
    BY DEF TruthOK
  <2>4. NoLaterStamp'
    <3>1. plan' = plan /\ now' = now
      OBVIOUS
    <3> HIDE <1>13 DEF WriteCached
    <3> QED BY <2>7, <3>1 DEF NoLaterStamp
  <2> QED BY <2>1, <2>2, <2>3, <2>4
<1>14. ASSUME NEW p \in Procs, Unlink(p)
      PROVE  StoreTypeOK' /\ NoLaterStamp'
  <2> USE <1>14 DEF Unlink
  <2>5. job[p].id \in Ids /\ plan[p] \in Plans
    BY DEF CallsOK, JobOK, Writes
  <2>6. plan[p].at \in Places /\ plan[p].from \in Places /\ plan[p].file \in Files \cup {NoFile}
    BY <2>5 DEF Plans
  <2>7. /\ disk' \in [Ids -> [Places -> Files \cup {NoFile}]]
        /\ \A i \in Ids, pl \in Places : disk'[i][pl] \in {disk[i][pl], NoFile}
    <3>1. disk' = [disk EXCEPT ![job[p].id][plan[p].from] = NoFile]
      OBVIOUS
    <3>2. DiskOK
      OBVIOUS
    <3> HIDE <1>14 DEF Unlink
    <3> QED BY <2>5, <2>6, <3>1, <3>2, OneFile
  <2>1. DiskOK'
    BY <2>7 DEF DiskOK
  <2>2. CallsOK'
    BY DEF CallsOK, JobOK, Claims, Early, Critical, Writes, Calls, Simple
  <2>3. TruthOK'
    BY DEF TruthOK
  <2>4. NoLaterStamp'
    BY <2>7, Undated
  <2> QED BY <2>1, <2>2, <2>3, <2>4
<1>15. ASSUME NEW p \in Procs, Return(p)
      PROVE  StoreTypeOK' /\ NoLaterStamp'
  <2> USE <1>15 DEF Return
  <2>1. DiskOK'
    BY LocksOK DEF DiskOK
  <2>2. CallsOK'
    BY LeavesOK DEF CallsOK
  <2>3. TruthOK'
    BY DEF TruthOK
  <2>4. NoLaterStamp'
    <3>1. \A q \in Procs : plan'[q].file \in {plan[q].file, NoFile}
      BY LeavesOK DEF CallsOK
    <3> QED BY <3>1, Undated
  <2> QED BY <2>1, <2>2, <2>3, <2>4
<1>16. ASSUME NEW p \in Procs, Fail(p)
      PROVE  StoreTypeOK' /\ NoLaterStamp'
  <2> USE <1>16 DEF Fail
  <2>1. DiskOK'
    BY LocksOK DEF DiskOK
  <2>2. CallsOK'
    BY LeavesOK DEF CallsOK
  <2>3. TruthOK'
    BY WoundsOK DEF TruthOK
  <2>4. NoLaterStamp'
    <3>1. \A q \in Procs : plan'[q].file \in {plan[q].file, NoFile}
      BY LeavesOK DEF CallsOK
    <3> QED BY <3>1, Undated
  <2> QED BY <2>1, <2>2, <2>3, <2>4
<1>28. ASSUME NEW p \in Procs, LeaveOld(p)
      PROVE  StoreTypeOK' /\ NoLaterStamp'
  <2> USE <1>28 DEF LeaveOld
  <2>1. DiskOK'
    BY DEF DiskOK
  <2>2. CallsOK'
    BY DEF CallsOK, JobOK, Claims, Early, Critical, Writes, Calls, Simple
  <2>3. TruthOK'
    BY DEF TruthOK
  <2>4. NoLaterStamp'
    BY DEF NoLaterStamp, DiskOK, CallsOK
  <2> QED BY <2>1, <2>2, <2>3, <2>4
<1>17. ASSUME NEW p \in Procs, PlanImport(p)
      PROVE  StoreTypeOK' /\ NoLaterStamp'
  <2>1. CASE Absent = {}
    <3>1. Leave(p) /\ lock' = ReleaseFileLock(p) /\ UNCHANGED <<disk, history, journal, now, recovered, truth>>
      BY <1>17, <2>1 DEF PlanImport
    <3>2. CallsOK' /\ \A q \in Procs : plan'[q].file \in {plan[q].file, NoFile}
      BY <3>1, LeavesOK DEF CallsOK
    <3>3. DiskOK'
      BY <3>1, LocksOK DEF DiskOK
    <3>4. NoLaterStamp'
      BY <3>1, <3>2, Undated
    <3> QED BY <3>1, <3>2, <3>3, <3>4 DEF TruthOK
  <2>2. CASE Absent # {}
    <3>1. /\ journal' = Absent /\ brought' = {}
          /\ job' = [job EXCEPT ![p] = [op |-> "importBatch", ids |-> Absent]]
          /\ pc' = [pc EXCEPT ![p] = "import"]
          /\ UNCHANGED <<disk, history, now, recovered, kept, breached, wound, lock, plan>>
      BY <1>17, <2>2 DEF PlanImport
    <3>2. Absent \subseteq Batch
      BY DEF Absent
    <3>3. JobOK(p)'
      BY <3>1, <3>2 DEF CallsOK, JobOK, Writes, Early, Calls, Simple
    <3>4. ASSUME NEW q \in Procs, q # p
          PROVE  JobOK(q)'
      BY <3>1, <3>4 DEF CallsOK, JobOK
    <3> QED BY <3>1, <3>2, <3>3, <3>4 DEF CallsOK, DiskOK, TruthOK, NoLaterStamp, Critical
  <2> QED BY <2>1, <2>2
<1>18. ASSUME NEW p \in Procs, ImportOne(p)
      PROVE  StoreTypeOK' /\ NoLaterStamp'
  <2>1. JobOK(p) /\ job[p].op = "importBatch" /\ "ids" \in DOMAIN job[p] /\ job[p].ids \subseteq Batch
    BY <1>18 DEF ImportOne, CallsOK, JobOK
  <2>2. CASE pc' = [pc EXCEPT ![p] = "undo"] /\ UNCHANGED <<disk, brought>>
    <3>1. UNCHANGED <<history, lock, journal, now, job, plan, recovered, kept, breached, wound>>
      BY <1>18 DEF ImportOne
    <3>2. CallsOK'
      BY <2>1, <2>2, <3>1, GoesOnOK DEF Critical, Early, Writes
    <3> QED BY <2>2, <3>1, <3>2 DEF DiskOK, CallsOK, TruthOK, NoLaterStamp
  <2>3. ASSUME NEW id \in job[p].ids, pc' = pc, brought' = brought \cup {id},
               disk' = [disk EXCEPT ![id][Home] = [ver |-> 1, text |-> <<"import", 1>>, stamp |-> 0]]
        PROVE  StoreTypeOK' /\ NoLaterStamp'
    <3>1. UNCHANGED <<history, lock, journal, now, job, plan, recovered, kept, breached, wound>>
      BY <1>18 DEF ImportOne
    <3>2. [ver |-> 1, text |-> <<"import", 1>>, stamp |-> 0] \in Files
      BY DEF Files, Texts
    <3>3. /\ disk' \in [Ids -> [Places -> Files \cup {NoFile}]]
          /\ \A i \in Ids, pl \in Places : disk'[i][pl] = disk[i][pl] \/ disk'[i][pl].stamp = 0
      <4> DEFINE f == [ver |-> 1, text |-> <<"import", 1>>, stamp |-> 0]
      <4>1. f \in Files \cup {NoFile} /\ f.stamp = 0 /\ disk' = [disk EXCEPT ![id][Home] = f] /\ id \in Ids
        BY <2>1, <2>3, <3>2
      <4> HIDE DEF f
      <4>2. /\ disk' \in [Ids -> [Places -> Files \cup {NoFile}]]
            /\ \A i \in Ids, pl \in Places : disk'[i][pl] \in {disk[i][pl], f}
        BY <4>1, OneFile
      <4> QED BY <4>1, <4>2
    <3>4. DiskOK' /\ TruthOK'
      BY <2>1, <2>3, <3>1, <3>3 DEF DiskOK, TruthOK
    <3>5. CallsOK'
      BY <2>3, <3>1 DEF CallsOK, JobOK
    <3>6. now \in Nat /\ 0 <= now
      BY DEF DiskOK
    <3>7. \A i \in Ids, pl \in Places : disk'[i][pl].stamp <= now
      BY <3>3, <3>6 DEF NoLaterStamp
    <3>8. NoLaterStamp'
      BY <3>1, <3>7 DEF NoLaterStamp
    <3> QED BY <3>4, <3>5, <3>8
  <2> QED BY <1>18, <2>2, <2>3 DEF ImportOne
<1>19. ASSUME NEW p \in Procs, ImportFails(p)
      PROVE  StoreTypeOK' /\ NoLaterStamp'
  <2> USE <1>19 DEF ImportFails
  <2>1. DiskOK'
    BY DEF DiskOK
  <2>2. CallsOK'
    BY DEF CallsOK, JobOK, Claims, Early, Critical, Writes, Calls, Simple
  <2>3. TruthOK'
    BY DEF TruthOK
  <2>4. NoLaterStamp'
    BY DEF NoLaterStamp, DiskOK, CallsOK
  <2> QED BY <2>1, <2>2, <2>3, <2>4
<1>20. ASSUME NEW p \in Procs, ImportDone(p)
      PROVE  StoreTypeOK' /\ NoLaterStamp'
  <2> USE <1>20 DEF ImportDone
  <2>1. DiskOK'
    BY LocksOK DEF DiskOK
  <2>2. CallsOK'
    BY LeavesOK DEF CallsOK
  <2>3. TruthOK'
    BY DEF TruthOK
  <2>4. NoLaterStamp'
    <3>1. \A q \in Procs : plan'[q].file \in {plan[q].file, NoFile}
      BY LeavesOK DEF CallsOK
    <3> QED BY <3>1, Undated
  <2> QED BY <2>1, <2>2, <2>3, <2>4
<1>21. ASSUME NEW p \in Procs, Undo(p)
      PROVE  StoreTypeOK' /\ NoLaterStamp'
  <2>1. ASSUME NEW id \in job[p].ids, pc[p] = "undo", job' = [job EXCEPT ![p].ids = @ \ {id}],
               disk' \in {disk, [disk EXCEPT ![id][Home] = NoFile]}, brought' = brought \ {id},
               UNCHANGED <<history, lock, journal, now, pc, plan, recovered, kept, breached, wound>>
        PROVE  StoreTypeOK' /\ NoLaterStamp'
    <3>1. JobOK(p) /\ job[p].op = "importBatch" /\ "ids" \in DOMAIN job[p] /\ job[p].ids \subseteq Batch
      BY <2>1 DEF CallsOK, JobOK
    <3>2. id \in Ids /\ brought' \subseteq brought
      BY <2>1, <3>1
    <3>3. /\ disk' \in [Ids -> [Places -> Files \cup {NoFile}]]
          /\ \A i \in Ids, pl \in Places : disk'[i][pl] \in {disk[i][pl], NoFile}
      <4>1. CASE disk' = disk
        BY <4>1 DEF DiskOK
      <4>2. CASE disk' = [disk EXCEPT ![id][Home] = NoFile]
        BY <3>2, <4>2, OneFile
      <4> QED BY <2>1, <4>1, <4>2
    <3>4. DiskOK' /\ TruthOK'
      BY <2>1, <3>2, <3>3 DEF DiskOK, TruthOK
    <3>5. /\ DOMAIN job' = Procs /\ \A q \in Procs \ {p} : job'[q] = job[q]
          /\ job'[p] = [job[p] EXCEPT !.ids = @ \ {id}]
      BY <2>1 DEF CallsOK
    <3>6. JobOK(p)'
      <4>1. /\ DOMAIN job'[p] = DOMAIN job[p] /\ job'[p].op = "importBatch" /\ job'[p].ids \subseteq Batch
            /\ pc' = pc
        BY <2>1, <3>1, <3>5
      <4> QED BY <2>1, <3>1, <4>1 DEF JobOK, Calls, Simple, Writes, Early
    <3>7. CallsOK'
      BY <2>1, <3>5, <3>6 DEF CallsOK, JobOK
    <3>8. NoLaterStamp'
      BY <2>1, <3>3, Undated
    <3> QED BY <3>4, <3>7, <3>8
  <2>2. CASE /\ journal' \in {{}, journal} /\ wound' \in {wound, [id \in Ids |-> Wounds(p, id)]}
             /\ lock' = ReleaseFileLock(p) /\ Leave(p)
             /\ UNCHANGED <<disk, history, now, recovered, kept, brought, breached>>
    <3>1. CallsOK' /\ \A q \in Procs : plan'[q].file \in {plan[q].file, NoFile}
      BY <2>2, LeavesOK DEF CallsOK
    <3>2. DiskOK'
      BY <2>2, LocksOK DEF DiskOK
    <3>3. NoLaterStamp'
      BY <2>2, <3>1, Undated
    <3>4. TruthOK'
      BY <2>2, WoundsOK DEF TruthOK
    <3> QED BY <3>1, <3>2, <3>3, <3>4
  <2>3. CASE UndoDone(p)
    BY <1>21, <2>1, <2>2, <2>3 DEF Undo
  <2> QED BY <1>21, <2>1, <2>3 DEF Undo
<1>22. ASSUME NEW p \in Procs, Recover(p)
      PROVE  StoreTypeOK' /\ NoLaterStamp'
  <2> USE <1>22 DEF Recover
  <2>1. DiskOK'
    BY DEF DiskOK
  <2>2. CallsOK'
    BY DEF CallsOK, JobOK, Claims, Early, Critical, Writes, Calls, Simple
  <2>3. TruthOK'
    BY DEF TruthOK
  <2>4. NoLaterStamp'
    BY DEF NoLaterStamp, DiskOK, CallsOK
  <2> QED BY <2>1, <2>2, <2>3, <2>4
<1>23. ASSUME NEW p \in Procs, ReconcileSnapshotImport(p)
      PROVE  StoreTypeOK' /\ NoLaterStamp'
  <2>1. ASSUME NEW id \in journal, disk' = [disk EXCEPT ![id][Home] = NoFile], brought' = brought \ {id},
               UNCHANGED <<history, lock, journal, now, pc, job, plan, recovered, kept, breached, wound>>
        PROVE  StoreTypeOK' /\ NoLaterStamp'
    <3>1. id \in Ids /\ disk' = [disk EXCEPT ![id][Home] = NoFile] /\ brought' \subseteq brought
          /\ UNCHANGED <<history, lock, journal, now, pc, job, plan, recovered, kept, breached, wound>>
      BY <2>1 DEF DiskOK
    <3>2. /\ disk' \in [Ids -> [Places -> Files \cup {NoFile}]]
          /\ \A i \in Ids, pl \in Places : disk'[i][pl] \in {disk[i][pl], NoFile}
      BY <3>1, OneFile
    <3>3. DiskOK' /\ TruthOK'
      BY <3>1, <3>2 DEF DiskOK, TruthOK
    <3>4. CallsOK'
      BY <3>1 DEF CallsOK, JobOK
    <3>5. NoLaterStamp'
      BY <3>1, <3>2, Undated
    <3> QED BY <3>3, <3>4, <3>5
  <2>2. CASE /\ journal' = {} /\ pc' = [pc EXCEPT ![p] = "reconcile"]
             /\ UNCHANGED <<disk, brought, history, lock, now, job, plan, recovered, kept, breached, wound>>
    <3>1. CallsOK'
      BY <2>2, GoesOnOK DEF Critical, Early, Writes
    <3> QED BY <2>2, <3>1 DEF DiskOK, CallsOK, TruthOK, NoLaterStamp
  <2> QED BY <1>23, <2>1, <2>2 DEF ReconcileSnapshotImport
<1>24. ASSUME NEW p \in Procs, Reconcile(p)
      PROVE  StoreTypeOK' /\ NoLaterStamp'
  <2>1. PICK d \in [Ids -> UNION {Reconciled(id) \cup {disk[id]} : id \in Ids}] :
            (\A id \in Ids : d[id] \in Reconciled(id) \cup {disk[id]}) /\ disk' = d
    BY <1>24 DEF Reconcile
  <2>2. /\ lock' = ReleaseFileLock(p) /\ Leave(p) /\ recovered' \in [Procs -> BOOLEAN]
        /\ wound' \in [Ids -> {"none", "twin", "lost"}]
        /\ UNCHANGED <<history, journal, now, kept, brought, breached>>
    BY <1>24 DEF Reconcile, CallsOK, TruthOK
  <2>3. CallsOK' /\ \A q \in Procs : plan'[q].file \in {plan[q].file, NoFile}
    BY <2>2, LeavesOK
  <2>4. \A id \in Ids : /\ disk'[id] \in [Places -> Files \cup {NoFile}]
                        /\ \A pl \in Places : disk'[id][pl] \in {disk[id][pl], NoFile}
    BY <2>1, ReconcilesFiles DEF DiskOK
  <2>5. disk' \in [Ids -> [Places -> Files \cup {NoFile}]]
    BY <2>1, <2>4
  <2>6. DiskOK' /\ TruthOK'
    BY <2>2, <2>5, LocksOK DEF DiskOK, TruthOK
  <2>7. NoLaterStamp'
    BY <2>2, <2>3, <2>4, Undated
  <2> QED BY <2>3, <2>6, <2>7
<1>25. ASSUME NEW p \in Procs, Crash(p)
      PROVE  StoreTypeOK' /\ NoLaterStamp'
  <2>1. PICK left \in Owners : Die(p, left)
    BY <1>25 DEF Crash, DiskOK, Owners
  <2>2. /\ Leave(p) /\ recovered' \in [Procs -> BOOLEAN] /\ lock' = left
        /\ wound' = [id \in Ids |-> Wounds(p, id)]
        /\ UNCHANGED <<disk, history, journal, now, kept, brought, breached>>
    BY <2>1 DEF Die, CallsOK
  <2>3. CallsOK' /\ \A q \in Procs : plan'[q].file \in {plan[q].file, NoFile}
    BY <2>2, LeavesOK
  <2>4. DiskOK' /\ TruthOK'
    BY <2>2, WoundsOK DEF DiskOK, TruthOK
  <2>5. NoLaterStamp'
    BY <2>2, <2>3, Undated
  <2> QED BY <2>3, <2>4, <2>5
<1>26. ASSUME Tick
      PROVE  StoreTypeOK' /\ NoLaterStamp'
  <2> USE <1>26 DEF Tick
  <2>1. DiskOK'
    BY DEF DiskOK
  <2>2. CallsOK'
    BY DEF CallsOK, JobOK, Claims, Early, Critical, Writes, Calls, Simple
  <2>3. TruthOK'
    BY DEF TruthOK
  <2>4. NoLaterStamp'
    <3>1. \A id \in Ids, pl \in Places : disk[id][pl].stamp \in Nat
      BY DEF DiskOK
    <3>2. \A q \in Procs : plan[q].file.stamp \in Nat
      BY DEF CallsOK, Plans
    <3> QED BY <3>1, <3>2 DEF NoLaterStamp, DiskOK
  <2> QED BY <2>1, <2>2, <2>3, <2>4
<1>27. ASSUME UNCHANGED vars
      PROVE  StoreTypeOK' /\ NoLaterStamp'
  BY <1>27 DEF vars, DiskOK, CallsOK, JobOK, TruthOK, NoLaterStamp
<1> QED
  BY <1>1, <1>2, <1>3, <1>4, <1>5, <1>6, <1>7, <1>8, <1>9, <1>10, <1>11, <1>12, <1>13, <1>14, <1>15, <1>16, <1>17, <1>18, <1>19, <1>20, <1>21, <1>22, <1>23, <1>24, <1>25, <1>26, <1>27, <1>28 DEF Next, Step
-----------------------------------------------------------------------------
(* Who does what, as long as no lock is taken from a process at work.      *)

\* Whoever is past the lock is there alone, and the ids it does not move are
\* at rest.
LEMMA Alone ==
    ASSUME StoreTypeOK, LockIsHeld, NEW p \in Procs, pc[p] \in Critical
    PROVE  \A q \in Procs \ {p} : /\ pc[q] \in Claims /\ pc[q] \notin Critical
                                  /\ ~Moving(q) /\ ~Importing(q)
<1>1. \A q \in Procs \ {p} : pc[q] \notin Critical /\ pc[q] \in Claims \cup Critical
  BY DEF StoreTypeOK, CallsOK, LockIsHeld
<1> QED BY <1>1 DEF Moving, Importing, Critical

\* Nobody gets past the lock while another process is.
LEMMA LockStep ==
    ASSUME StoreTypeOK, LockIsHeld, Step, ~breached'
    PROVE  LockIsHeld'
<1> USE FileStoreAssumption DEF LockIsHeld, StoreTypeOK, CallsOK, Claims, Critical, Goto
<1>1. ASSUME NEW p \in Procs, NEW l \in Claims \cup Critical, pc' = [pc EXCEPT ![p] = l],
             lock' = lock, l \in Critical => pc[p] \in Critical
      PROVE  LockIsHeld'
  BY <1>1
<1>2. ASSUME NEW p \in Procs, Leave(p), lock' \in {lock, ReleaseFileLock(p)}
      PROVE  LockIsHeld'
  <2>1. \A q \in Procs : pc'[q] = IF q = p THEN "idle" ELSE pc[q]
    BY <1>2 DEF Leave
  <2> QED BY <1>2, <2>1 DEF ReleaseFileLock
<1>3. ASSUME NEW p \in Procs, Acquire(p)
      PROVE  LockIsHeld'
  BY <1>3 DEF Acquire, NoLock
<1>4. ASSUME NEW p \in Procs, Steal(p)
      PROVE  LockIsHeld'
  BY <1>4 DEF Steal
<1>5. ASSUME NEW p \in Procs, Crash(p)
      PROVE  LockIsHeld'
  <2>1. \A q \in Procs : pc'[q] = IF q = p THEN "idle" ELSE pc[q]
    BY <1>5 DEF Crash, Die, Leave
  <2>2. \A q \in Procs : q # p /\ lock = q => lock' = q
    BY <1>5 DEF Crash, Die, NoLock
  <2> QED BY <2>1, <2>2
<1>6. ASSUME NEW p \in Procs, Look(p) PROVE LockIsHeld'
  BY <1>1, <1>2, <1>6 DEF Look
<1>7. ASSUME NEW p \in Procs, PlanImport(p) PROVE LockIsHeld'
  BY <1>1, <1>2, <1>7 DEF PlanImport
<1>8. ASSUME NEW p \in Procs, ImportOne(p) \/ Undo(p) \/ ReconcileSnapshotImport(p) PROVE LockIsHeld'
  BY <1>1, <1>2, <1>8 DEF ImportOne, Undo, ReconcileSnapshotImport
<1>9. ASSUME NEW p \in Procs, Return(p) \/ Fail(p) \/ ImportDone(p) \/ Reconcile(p) \/ LockTimeout(p)
      PROVE  LockIsHeld'
  BY <1>2, <1>9 DEF Return, Fail, ImportDone, Reconcile, LockTimeout
<1>10. ASSUME NEW p \in Procs,
              \/ EnsureRecovered(p) \/ ImportBatch(p) \/ Update(p) \/ SeeStale(p)
              \/ SnapshotHistory(p) \/ WriteCached(p) \/ Unlink(p) \/ LeaveOld(p) \/ ImportFails(p) \/ Recover(p)
       PROVE  LockIsHeld'
  BY <1>1, <1>10 DEF EnsureRecovered, ImportBatch, Ask, Update, SeeStale, SnapshotHistory,
                     WriteCached, Unlink, LeaveOld, ImportFails, Recover
<1>11. ASSUME NEW p \in Procs, NEW id \in Ids,
              \/ Get(p, id)
              \/ \E s \in Scopes : Store(p, id, s)
              \/ \E op \in Simple : Call(p, op, id)
       PROVE  LockIsHeld'
  BY <1>1, <1>11 DEF Get, Store, Call, Ask
<1>12. CASE Tick
  BY <1>12 DEF Tick
<1> QED BY <1>3, <1>4, <1>5, <1>6, <1>7, <1>8, <1>9, <1>10, <1>11, <1>12 DEF Step

\* The files of an id are as sound as before when nothing about it is known
\* that was not.
LEMMA SoundStays ==
    ASSUME NEW id, wound'[id] = wound[id], kept'[id] \subseteq kept[id],
           \A t : Past(history[id], t) => Past(history'[id], t),
           NEW f, Sound(f, id)
    PROVE  Sound(f, id)'
<1>1. wound[id] = "none" => Single(f)'
  BY DEF Sound, Single, Among
<1>2. wound[id] = "twin" => Paired(f)' /\ id \notin Tenanted
  BY DEF Sound, Paired, Among
<1>3. \A t : Held(f, history[id], t) => Held(f, history'[id], t)
  BY DEF Held
<1>4. wound[id] # "lost" => \A t \in kept'[id] : Held(f, history'[id], t)
  BY <1>3 DEF Sound
<1> QED BY <1>1, <1>2, <1>4 DEF Sound

\* A call at work on the files of its id.
LEMMA AtWork ==
    ASSUME StoreTypeOK, NEW p \in Procs, pc[p] \in Writes
    PROVE  /\ job[p].op \in Calls /\ job[p].id \in Ids /\ "id" \in DOMAIN job[p]
           /\ plan[p].at \in Places /\ plan[p].from \in Places /\ plan[p].file \in Files \cup {NoFile}
           /\ plan[p].drop \in BOOLEAN
           /\ disk[job[p].id] \in [Places -> Files \cup {NoFile}]
           /\ After(p) \in [Places -> Files \cup {NoFile}]
           /\ After(p)[plan[p].from] = NoFile
           /\ \A pl \in Places \ {plan[p].from} : After(p)[pl] = disk[job[p].id][pl]
<1>1. job[p].op \in Calls /\ job[p].id \in Ids /\ "id" \in DOMAIN job[p] /\ plan[p] \in Plans
  BY DEF StoreTypeOK, CallsOK, JobOK
<1>2. disk[job[p].id] \in [Places -> Files \cup {NoFile}]
  BY <1>1 DEF StoreTypeOK, DiskOK
<1> QED BY <1>1, <1>2 DEF Plans, After

\* A step that changes no file, and takes nobody to or from one.
LEMMA QuietStep ==
    ASSUME StoreTypeOK, FilesAreSafe,
           UNCHANGED <<disk, history, journal, kept, brought, wound>>,
           \A q \in Procs : \/ pc'[q] = pc[q] /\ job'[q] = job[q] /\ plan'[q] = plan[q]
                            \/ ~Moving(q) /\ ~Importing(q) /\ pc'[q] \in Quiet
    PROVE  FilesAreSafe'
<1> DEFINE Same(q) == pc'[q] = pc[q] /\ job'[q] = job[q] /\ plan'[q] = plan[q]
<1>2. \A q \in Procs : \/ Same(q)
                       \/ /\ ~Moving(q) /\ ~Importing(q)
                          /\ pc'[q] \notin {"snap", "write", "drop", "release", "import", "undo", "reconcile"}
  BY DEF Quiet, Claims
<1>3. \A id \in Ids : Sound(disk[id], id) => Sound(disk[id], id)'
  BY SoundStays
<1>4. ASSUME NEW p \in Procs, Same(p), Moving(p), MoveOK(p)
      PROVE  MoveOK(p)'
  <2>1. job[p].id \in Ids /\ After(p)' = After(p)
    BY <1>4, AtWork DEF Moving, Writes, After
  <2>2. Sound(After(p), job[p].id)'
    <3>1. Sound(After(p), job[p].id)
      BY <1>4 DEF MoveOK
    <3> QED BY <1>4, <2>1, <3>1, SoundStays
  <2> QED BY <1>4, <2>1, <2>2 DEF MoveOK
<1>5. AtRest'
  BY <1>2, <1>3 DEF FilesAreSafe, AtRest, Moving
<1>6. MovesAreSafe'
  BY <1>2, <1>4 DEF FilesAreSafe, MovesAreSafe, Moving
<1>7. PlansFit'
  <2> SUFFICES ASSUME NEW p \in Procs, pc'[p] \in {"snap", "write"}
               PROVE  PlanOK(p)'
    BY DEF PlansFit
  <2>1. Same(p) /\ PlanOK(p)
    BY <1>2 DEF FilesAreSafe, PlansFit
  <2> QED BY <2>1 DEF PlanOK, Found, Homes, Among
<1>8. AnswersAreTrue'
  BY <1>2 DEF FilesAreSafe, AnswersAreTrue, AnswerOK
<1>9. ImportsAreClean'
  BY <1>2 DEF FilesAreSafe, ImportsAreClean, ImportOK, Importing
<1>10. JournalIsTrue'
  BY <1>2 DEF FilesAreSafe, JournalIsTrue, Importing
<1> QED BY <1>5, <1>6, <1>7, <1>8, <1>9, <1>10 DEF FilesAreSafe

\* The places of an id that has a file more, or one less.
LEMMA AmongOne ==
    ASSUME DiskOK, NEW id \in Ids, NEW pl \in Places, NEW f \in Files \cup {NoFile},
           disk' = [disk EXCEPT ![id][pl] = f]
    PROVE  /\ \A i \in Ids \ {id} : Among(disk'[i]) = Among(disk[i])
           /\ f = NoFile => Among(disk'[id]) = Among(disk[id]) \ {pl}
           /\ f # NoFile => Among(disk'[id]) = Among(disk[id]) \cup {pl}
<1>1. disk'[id][pl] = f
  BY OneFile
<1>2. \A q \in Places \ {pl} : disk'[id][q] = disk[id][q]
  BY OneFile
<1>3. \A i \in Ids \ {id} : disk'[i] = disk[i]
  BY OneFile
<1> QED BY <1>1, <1>2, <1>3 DEF Among

\* No step brings a file to a new id before the call that has it does, and no
\* other call is about it but one that will find nothing.
LEMMA NewStays ==
    ASSUME StoreTypeOK, NewIsNew,
           \A i \in Ids : Among(disk[i]) = {} /\ i \notin Batch =>
                \/ Among(disk'[i]) = {}
                \/ \E q \in Procs : /\ pc[q] = "write" /\ job[q].id = i
                                    /\ pc'[q] \notin Early \cup {"snap", "write"},
           \A q \in Procs :
                \/ "id" \notin DOMAIN job'[q] /\ job'[q].op # "store"
                \/ /\ job'[q] = job[q]
                   /\ pc[q] \in Early => pc'[q] \in Early
                   /\ pc'[q] \in Early \cup {"snap", "write"} /\ job[q].op = "store" =>
                          pc[q] \in Early \cup {"snap", "write"}
    PROVE  NewIsNew'
<1> SUFFICES ASSUME NEW p \in Procs, job'[p].op = "store", pc'[p] \in Early \cup {"snap", "write"}
             PROVE  /\ job'[p].id \notin Batch /\ Among(disk'[job'[p].id]) = {}
                    /\ \A q \in Procs \ {p} : "id" \in DOMAIN job'[q] /\ job'[q].id = job'[p].id =>
                            job'[q].op \in Simple /\ pc'[q] \in Early
  BY DEF NewIsNew, Among
<1>1. job'[p] = job[p] /\ job[p].op = "store" /\ pc[p] \in Early \cup {"snap", "write"}
  OBVIOUS
<1>2. /\ job[p].id \in Ids /\ job[p].id \notin Batch /\ Among(disk[job[p].id]) = {}
      /\ \A q \in Procs \ {p} : "id" \in DOMAIN job[q] /\ job[q].id = job[p].id =>
              job[q].op \in Simple /\ pc[q] \in Early
  BY <1>1 DEF NewIsNew, StoreTypeOK, CallsOK, JobOK, Calls
<1>3. \A q \in Procs \ {p} : "id" \in DOMAIN job'[q] /\ job'[q].id = job'[p].id =>
          job'[q].op \in Simple /\ pc'[q] \in Early
  BY <1>1, <1>2
<1>4. \A q \in Procs : pc[q] = "write" => "id" \in DOMAIN job[q]
  BY AtWork DEF Writes
<1>5. Among(disk'[job[p].id]) = {}
  BY <1>1, <1>2, <1>4 DEF Early
<1> QED BY <1>1, <1>2, <1>3, <1>5

LEMMA NewStep ==
    ASSUME StoreTypeOK, NoLaterStamp, LockIsHeld, NewIsNew, Step
    PROVE  NewIsNew'
<1> USE Constants
<1>1. ASSUME NEW p \in Procs, \A q \in Procs \ {p} : job'[q] = job[q] /\ pc'[q] = pc[q], disk' = disk,
             \/ job'[p] = NoJob
             \/ job'[p] = job[p] /\ (pc[p] \in Early => pc'[p] \in Early)
                /\ (pc'[p] \in Early \cup {"snap", "write"} => pc[p] \in Early \cup {"snap", "write"} \/ job[p].op # "store")
             \/ "id" \notin DOMAIN job'[p] /\ job'[p].op # "store"
      PROVE  NewIsNew'
  BY <1>1, NewStays DEF NoJob
<1>2. \A p \in Procs : Leave(p) => /\ \A q \in Procs \ {p} : job'[q] = job[q] /\ pc'[q] = pc[q]
                                   /\ job'[p] = NoJob
  BY DEF Leave, Goto, StoreTypeOK, CallsOK
<1>3. \A p \in Procs : \A l : Goto(p, l) => pc'[p] = l /\ \A q \in Procs \ {p} : pc'[q] = pc[q]
  BY DEF Goto, StoreTypeOK, CallsOK
<1>4. ASSUME NEW p \in Procs,
             Crash(p) \/ LockTimeout(p) \/ Fail(p) \/ ImportDone(p) \/ Return(p)
      PROVE  NewIsNew'
  BY <1>1, <1>2, <1>4 DEF Crash, Die, LockTimeout, Fail, ImportDone, Return
<1>5. ASSUME NEW p \in Procs, Acquire(p) \/ SeeStale(p) \/ Steal(p)
      PROVE  NewIsNew'
  BY <1>1, <1>3, <1>5 DEF Acquire, SeeStale, Steal, Early
<1>6. ASSUME NEW p \in Procs, ImportFails(p) \/ SnapshotHistory(p)
      PROVE  NewIsNew'
  BY <1>1, <1>3, <1>6 DEF ImportFails, SnapshotHistory, Early
<1>16. ASSUME NEW p \in Procs, Recover(p)
      PROVE  NewIsNew'
  <2>1. "id" \notin DOMAIN job[p] /\ job[p].op # "store"
    BY <1>16 DEF Recover, StoreTypeOK, CallsOK, JobOK, Calls, Simple
  <2> QED BY <1>1, <1>3, <1>16, <2>1 DEF Recover
<1>7. ASSUME NEW p \in Procs, Update(p)
      PROVE  NewIsNew'
  BY <1>1, <1>3, <1>7 DEF Update, Early, StoreTypeOK, CallsOK, JobOK
<1>8. ASSUME NEW p \in Procs, EnsureRecovered(p) \/ ImportBatch(p)
      PROVE  NewIsNew'
  <2>1. "id" \notin DOMAIN job'[p] /\ job'[p].op # "store" /\ \A q \in Procs \ {p} : job'[q] = job[q]
    BY <1>8 DEF EnsureRecovered, ImportBatch, Ask, StoreTypeOK, CallsOK
  <2> QED BY <1>1, <1>3, <1>8, <2>1 DEF EnsureRecovered, ImportBatch, Ask
<1>9. ASSUME NEW p \in Procs, Reconcile(p)
      PROVE  NewIsNew'
  <2>1. \A i \in Ids : \A pl \in Places : disk'[i][pl] \in {disk[i][pl], NoFile}
    BY <1>9, ReconcilesFiles DEF Reconcile, StoreTypeOK
  <2>2. \A i \in Ids : Among(disk[i]) = {} => Among(disk'[i]) = {}
    BY <2>1 DEF Among
  <2>3. Leave(p)
    BY <1>9 DEF Reconcile
  <2> QED BY <1>2, <2>2, <2>3, NewStays DEF NoJob
<1>10. CASE Tick
  BY <1>10, NewStays DEF Tick
<1>11. ASSUME NEW p \in Procs, WriteCached(p)
       PROVE  NewIsNew'
  <2>1. /\ job' = job /\ pc[p] = "write" /\ pc'[p] \in {"drop", "release"} /\ \A q \in Procs \ {p} : pc'[q] = pc[q]
        /\ disk' = [disk EXCEPT ![job[p].id][plan[p].at] = plan[p].file]
    BY <1>3, <1>11 DEF WriteCached, StoreTypeOK, CallsOK, Goto
  <2>2. \A i \in Ids : i # job[p].id => Among(disk'[i]) = Among(disk[i])
    BY <2>1, AtWork, AmongOne DEF Writes, StoreTypeOK
  <2> QED BY <2>1, <2>2, NewStays DEF Early
<1>20. ASSUME NEW p \in Procs, LeaveOld(p)
       PROVE  NewIsNew'
  BY <1>1, <1>3, <1>20 DEF LeaveOld, Early
<1>12. ASSUME NEW p \in Procs, Unlink(p)
       PROVE  NewIsNew'
  <2>1. /\ job' = job /\ pc[p] = "drop" /\ pc'[p] = "release" /\ \A q \in Procs \ {p} : pc'[q] = pc[q]
        /\ disk' = [disk EXCEPT ![job[p].id][plan[p].from] = NoFile]
    BY <1>3, <1>12 DEF Unlink
  <2>2. \A i \in Ids : Among(disk'[i]) \subseteq Among(disk[i])
    <3>1. job[p].id \in Ids /\ plan[p].from \in Places /\ DiskOK
      BY <2>1, AtWork DEF Writes, StoreTypeOK
    <3>2. /\ \A i \in Ids \ {job[p].id} : Among(disk'[i]) = Among(disk[i])
          /\ Among(disk'[job[p].id]) = Among(disk[job[p].id]) \ {plan[p].from}
      BY <2>1, <3>1, AmongOne
    <3> QED BY <3>2
  <2> QED BY <2>1, <2>2, NewStays DEF Early
<1>13. ASSUME NEW p \in Procs, PlanImport(p)
       PROVE  NewIsNew'
  <2>1. CASE Absent = {}
    BY <1>1, <1>2, <1>13, <2>1 DEF PlanImport
  <2>2. CASE Absent # {}
    <3>1. "id" \notin DOMAIN job'[p] /\ job'[p].op # "store" /\ \A q \in Procs \ {p} : job'[q] = job[q]
      BY <1>13, <2>2 DEF PlanImport, StoreTypeOK, CallsOK
    <3> QED BY <1>1, <1>3, <1>13, <2>2, <3>1 DEF PlanImport
  <2> QED BY <2>1, <2>2
<1>14. ASSUME NEW p \in Procs, ImportOne(p) \/ Undo(p) \/ ReconcileSnapshotImport(p)
       PROVE  NewIsNew'
  <2>1. /\ pc[p] \in {"import", "undo", "rollback"}
        /\ pc[p] = "rollback" \/ job[p].op = "importBatch"
        /\ pc[p] # "rollback" => job[p].ids \subseteq Batch
        /\ journal \subseteq Ids /\ Batch \subseteq Ids
    BY <1>14, FileStoreAssumption DEF ImportOne, Undo, UndoDone, ReconcileSnapshotImport, StoreTypeOK, CallsOK, JobOK, DiskOK
  <2>2. \/ disk' = disk
        \/ \E id \in Ids : disk' = [disk EXCEPT ![id][Home] = NoFile]
        \/ \E id \in Batch : disk' = [disk EXCEPT ![id][Home] = [ver |-> 1, text |-> <<"import", 1>>, stamp |-> 0]]
    BY <1>14, <2>1 DEF ImportOne, Undo, ReconcileSnapshotImport
  <2>3. /\ \A q \in Procs \ {p} : job'[q] = job[q] /\ pc'[q] = pc[q]
        /\ \/ "id" \notin DOMAIN job'[p] /\ job'[p].op # "store"
           \/ job'[p] = job[p] /\ pc'[p] \notin Early \cup {"snap", "write"}
    <3>1. CASE Undo(p)
      <4>1. "id" \notin DOMAIN job[p] /\ job[p].op = "importBatch"
        BY <3>1 DEF Undo, UndoDone, StoreTypeOK, CallsOK, JobOK, Calls, Simple
      <4>2. CASE Leave(p)
        BY <1>2, <4>2 DEF NoJob
      <4>3. CASE pc' = pc /\ \E id \in job[p].ids : job' = [job EXCEPT ![p].ids = @ \ {id}]
        <5>1. PICK ids : ids = job'[p].ids
          OBVIOUS
        <5>2. /\ \A q \in Procs \ {p} : job'[q] = job[q]
              /\ DOMAIN job'[p] = DOMAIN job[p] /\ job'[p].op = job[p].op
          BY <4>3 DEF StoreTypeOK, CallsOK
        <5> QED BY <4>1, <4>3, <5>2
      <4> QED BY <3>1, <4>2, <4>3 DEF Undo
    <3>2. CASE ImportOne(p) \/ ReconcileSnapshotImport(p)
      BY <1>3, <2>1, <3>2 DEF ImportOne, ReconcileSnapshotImport, Early
    <3> QED BY <1>14, <3>1, <3>2
  <2>4. \A i \in Ids : Among(disk[i]) = {} /\ i \notin Batch => Among(disk'[i]) = {}
    <3>1. [ver |-> 1, text |-> <<"import", 1>>, stamp |-> 0] \in Files
      BY FileStoreAssumption DEF Files, Texts
    <3> DEFINE file == [ver |-> 1, text |-> <<"import", 1>>, stamp |-> 0]
    <3> HIDE DEF file
    <3>2. ASSUME NEW id \in Ids, disk' = [disk EXCEPT ![id][Home] = NoFile]
          PROVE  \A i \in Ids : Among(disk'[i]) \subseteq Among(disk[i])
      BY ZenonT(60), <3>2, AmongOne DEF StoreTypeOK
    <3>3. ASSUME NEW id \in Batch, disk' = [disk EXCEPT ![id][Home] = file]
          PROVE  \A i \in Ids \ Batch : Among(disk'[i]) = Among(disk[i])
      BY <2>1, <3>1, <3>3, AmongOne DEF StoreTypeOK, file
    <3> QED BY <2>2, <3>2, <3>3 DEF file
  <2> QED BY <2>1, <2>3, <2>4, NewStays DEF NoJob, Early
<1>15. ASSUME NEW p \in Procs, Look(p)
       PROVE  NewIsNew'
  <2>1. CASE Decisions(p) = {}
    BY <1>1, <1>2, <1>15, <2>1 DEF Look
  <2>2. CASE Decisions(p) # {}
    <3>1. /\ pc[p] = "look" /\ job' = job /\ disk' = disk /\ pc'[p] \in {"snap", "write", "drop"}
          /\ \A q \in Procs \ {p} : pc'[q] = pc[q]
      BY <1>3, <1>15, <2>2 DEF Look
    <3>2. job[p].op \in Calls /\ job[p].id \in Ids /\ "id" \in DOMAIN job[p]
      BY <1>15 DEF Look, StoreTypeOK, CallsOK, JobOK, Early
    <3>3. job[p].op # "store" => Among(disk[job[p].id]) # {}
      <4>1. \A id \in Ids : Found(id) \subseteq Among(disk[id])
        BY DEF Found, Homes, Among
      <4>2. job[p].op = "update" => Existing(job[p]) # {}
        BY <2>2 DEF Decisions
      <4>3. job[p].op = "update" => Target(job[p]) \in Places
        BY DEF Target, Places, StoreTypeOK, CallsOK, JobOK
      <4>4. job[p].op \in Simple => Found(job[p].id) # {}
        BY <2>2 DEF Decisions, Simple
      <4> QED BY <3>2, <4>1, <4>2, <4>3, <4>4 DEF Existing, Among, Calls
    <3> SUFFICES ASSUME NEW q \in Procs, job'[q].op = "store", pc'[q] \in Early \cup {"snap", "write"}
                 PROVE  /\ job'[q].id \notin Batch /\ Among(disk'[job'[q].id]) = {}
                        /\ \A r \in Procs \ {q} : "id" \in DOMAIN job'[r] /\ job'[r].id = job'[q].id =>
                                job'[r].op \in Simple /\ pc'[r] \in Early
      BY DEF NewIsNew, Among
    <3>4. /\ job[q].id \notin Batch /\ Among(disk[job[q].id]) = {}
          /\ \A r \in Procs \ {q} : "id" \in DOMAIN job[r] /\ job[r].id = job[q].id =>
                  job[r].op \in Simple /\ pc[r] \in Early
      BY <3>1 DEF NewIsNew, Early
    <3>5. q # p => job[p].id # job[q].id
      BY <3>2, <3>3, <3>4 DEF Simple
    <3> QED BY <3>1, <3>4, <3>5 DEF Early
  <2> QED BY <2>1, <2>2
<1>17. ASSUME NEW p \in Procs, NEW id \in Ids, NEW op \in Simple, Call(p, op, id)
       PROVE  NewIsNew'
  <2>1. job'[p] = [op |-> op, id |-> id] /\ pc'[p] = "lock"
    BY <1>3, <1>17 DEF Call, Ask, StoreTypeOK, CallsOK
  <2>2. disk' = disk /\ \A q \in Procs \ {p} : pc'[q] = pc[q] /\ job'[q] = job[q]
    BY <1>3, <1>17 DEF Call, Ask, StoreTypeOK, CallsOK
  <2> SUFFICES ASSUME NEW q \in Procs, job'[q].op = "store", pc'[q] \in Early \cup {"snap", "write"}
               PROVE  /\ job'[q].id \notin Batch /\ Among(disk'[job'[q].id]) = {}
                      /\ \A r \in Procs \ {q} : "id" \in DOMAIN job'[r] /\ job'[r].id = job'[q].id =>
                              job'[r].op \in Simple /\ pc'[r] \in Early
    BY DEF NewIsNew, Among
  <2>3. q # p =>
          /\ job[q].id \notin Batch /\ Among(disk[job[q].id]) = {}
          /\ \A r \in Procs \ {q} : "id" \in DOMAIN job[r] /\ job[r].id = job[q].id =>
                  job[r].op \in Simple /\ pc[r] \in Early
    BY <2>1, <2>2 DEF NewIsNew
  <2>4. q # p
    BY <2>1 DEF Simple
  <2> QED BY <2>1, <2>2, <2>3, <2>4 DEF Early
<1>18. ASSUME NEW p \in Procs, NEW id \in Ids, Get(p, id)
       PROVE  NewIsNew'
  <2>1. job'[p].op = "update" /\ job'[p].id = id /\ Found(id) # {}
    BY <1>18 DEF Get, StoreTypeOK, CallsOK
  <2>2. disk' = disk /\ \A q \in Procs \ {p} : pc'[q] = pc[q] /\ job'[q] = job[q]
    BY <1>3, <1>18 DEF Get, StoreTypeOK, CallsOK
  <2> SUFFICES ASSUME NEW q \in Procs, job'[q].op = "store", pc'[q] \in Early \cup {"snap", "write"}
               PROVE  /\ job'[q].id \notin Batch /\ Among(disk'[job'[q].id]) = {}
                      /\ \A r \in Procs \ {q} : "id" \in DOMAIN job'[r] /\ job'[r].id = job'[q].id =>
                              job'[r].op \in Simple /\ pc'[r] \in Early
    BY DEF NewIsNew, Among
  <2>3. q # p =>
          /\ job[q].id \notin Batch /\ Among(disk[job[q].id]) = {}
          /\ \A r \in Procs \ {q} : "id" \in DOMAIN job[r] /\ job[r].id = job[q].id =>
                  job[r].op \in Simple /\ pc[r] \in Early
    BY <2>1, <2>2 DEF NewIsNew
  <2>4. q # p /\ Among(disk[id]) # {}
    BY <2>1 DEF Found, Homes, Among
  <2> QED BY <2>1, <2>2, <2>3, <2>4
<1>19. ASSUME NEW p \in Procs, NEW id \in Ids, NEW s \in Scopes, Store(p, id, s)
       PROVE  NewIsNew'
  <2>1. /\ job'[p] = [op |-> "store", id |-> id, scope |-> s]
        /\ id \notin Batch /\ Among(disk[id]) = {}
        /\ \A r \in Procs : "id" \in DOMAIN job[r] => job[r].id # id
    BY <1>19 DEF Store, Ask, Homes, Among, StoreTypeOK, CallsOK
  <2>2. disk' = disk /\ \A q \in Procs \ {p} : pc'[q] = pc[q] /\ job'[q] = job[q]
    BY <1>3, <1>19 DEF Store, Ask, StoreTypeOK, CallsOK
  <2> SUFFICES ASSUME NEW q \in Procs, job'[q].op = "store", pc'[q] \in Early \cup {"snap", "write"}
               PROVE  /\ job'[q].id \notin Batch /\ Among(disk'[job'[q].id]) = {}
                      /\ \A r \in Procs \ {q} : "id" \in DOMAIN job'[r] /\ job'[r].id = job'[q].id =>
                              job'[r].op \in Simple /\ pc'[r] \in Early
    BY DEF NewIsNew, Among
  <2>3. q # p =>
          /\ job[q].id \notin Batch /\ Among(disk[job[q].id]) = {}
          /\ \A r \in Procs \ {q} : "id" \in DOMAIN job[r] /\ job[r].id = job[q].id =>
                  job[r].op \in Simple /\ pc[r] \in Early
    BY <2>1, <2>2 DEF NewIsNew
  <2>4. q # p => "id" \in DOMAIN job[q]
    BY <2>2 DEF StoreTypeOK, CallsOK, JobOK, Calls
  <2> QED BY <2>1, <2>2, <2>3, <2>4
<1> QED
  BY <1>4, <1>5, <1>6, <1>7, <1>8, <1>9, <1>10, <1>11, <1>12, <1>13, <1>14, <1>15, <1>16, <1>17, <1>18, <1>19, <1>20 DEF Step

\* Calls come, wait for the lock, and give up; time goes on.
LEMMA CallsWait ==
    ASSUME StoreTypeOK, FilesAreSafe,
           \/ Tick
           \/ \E p \in Procs :
                \/ EnsureRecovered(p) \/ ImportBatch(p) \/ Update(p)
                \/ \E id \in Ids : \/ Get(p, id)
                                   \/ \E s \in Scopes : Store(p, id, s)
                                   \/ \E op \in Simple : Call(p, op, id)
                \/ Acquire(p) \/ SeeStale(p) \/ Steal(p) \/ LockTimeout(p) \/ Recover(p)
                \/ Look(p) /\ Decisions(p) = {}
                \/ PlanImport(p) /\ Absent = {}
    PROVE  FilesAreSafe'
<1>1. ASSUME NEW p \in Procs, NEW l \in Quiet, UNCHANGED <<disk, history, journal, now, kept, brought, wound, plan>>,
             pc' = [pc EXCEPT ![p] = l], \A q \in Procs \ {p} : job'[q] = job[q],
             pc[p] \notin {"drop", "import", "undo"}
      PROVE  FilesAreSafe'
  <2>1. \A q \in Procs : q # p => pc'[q] = pc[q] /\ job'[q] = job[q] /\ plan'[q] = plan[q]
    BY <1>1 DEF StoreTypeOK, CallsOK
  <2>2. ~Moving(p) /\ ~Importing(p) /\ pc'[p] \in Quiet
    BY <1>1 DEF Moving, Importing, StoreTypeOK, CallsOK
  <2> QED BY <1>1, <2>1, <2>2, QuietStep
<1>2. ASSUME NEW p \in Procs, Leave(p), UNCHANGED <<disk, history, journal, now, kept, brought, wound>>,
             pc[p] \notin {"drop", "import", "undo"}
      PROVE  FilesAreSafe'
  <2>1. \A q \in Procs : q # p => pc'[q] = pc[q] /\ job'[q] = job[q] /\ plan'[q] = plan[q]
    BY <1>2 DEF Leave, Goto, StoreTypeOK, CallsOK
  <2>2. ~Moving(p) /\ ~Importing(p) /\ pc'[p] \in Quiet
    BY <1>2 DEF Moving, Importing, Leave, Goto, Quiet, Claims, StoreTypeOK, CallsOK
  <2> QED BY <1>2, <2>1, <2>2, QuietStep
<1>3. ASSUME NEW p \in Procs, EnsureRecovered(p) \/ ImportBatch(p) \/ Update(p) \/ Acquire(p) \/ SeeStale(p)
                              \/ Steal(p) \/ Recover(p)
      PROVE  FilesAreSafe'
  BY <1>1, <1>3 DEF EnsureRecovered, ImportBatch, Ask, Update, Acquire, SeeStale, Steal, Recover, Goto,
                    truth, Quiet, Claims, StoreTypeOK, CallsOK
<1>4. ASSUME NEW p \in Procs, NEW id \in Ids, Get(p, id)
      PROVE  FilesAreSafe'
  BY <1>1, <1>4 DEF Get, truth, Goto, Quiet, Claims, StoreTypeOK, CallsOK
<1>7. ASSUME NEW p \in Procs, NEW id \in Ids, NEW s \in Scopes, Store(p, id, s)
      PROVE  FilesAreSafe'
  BY <1>1, <1>7 DEF Store, Ask, Goto, truth, Quiet, Claims, StoreTypeOK, CallsOK
<1>8. ASSUME NEW p \in Procs, NEW id \in Ids, NEW op \in Simple, Call(p, op, id)
      PROVE  FilesAreSafe'
  BY <1>1, <1>8 DEF Call, Ask, Goto, truth, Quiet, Claims, StoreTypeOK, CallsOK
<1>5. ASSUME NEW p \in Procs, LockTimeout(p) \/ (Look(p) /\ Decisions(p) = {})
                              \/ (PlanImport(p) /\ Absent = {})
      PROVE  FilesAreSafe'
  BY <1>2, <1>5 DEF LockTimeout, Look, PlanImport, truth
<1>6. CASE Tick
  BY <1>6, QuietStep DEF Tick, truth
<1> QED
  <2>1. SUFFICES ASSUME NEW p \in Procs,
                \/ EnsureRecovered(p) \/ ImportBatch(p) \/ Update(p)
                \/ \E id \in Ids : \/ Get(p, id)
                                   \/ \E s \in Scopes : Store(p, id, s)
                                   \/ \E op \in Simple : Call(p, op, id)
                \/ Acquire(p) \/ SeeStale(p) \/ Steal(p) \/ LockTimeout(p) \/ Recover(p)
                \/ Look(p) /\ Decisions(p) = {}
                \/ PlanImport(p) /\ Absent = {}
                 PROVE  FilesAreSafe'
    BY <1>6
  <2>2. CASE \/ EnsureRecovered(p) \/ ImportBatch(p) \/ Update(p) \/ Acquire(p) \/ SeeStale(p) \/ Steal(p) \/ Recover(p)
    BY <1>3, <2>2
  <2>3. CASE \E id \in Ids : \/ Get(p, id)
                             \/ \E s \in Scopes : Store(p, id, s)
                             \/ \E op \in Simple : Call(p, op, id)
    BY <1>4, <1>7, <1>8, <2>3
  <2>4. CASE LockTimeout(p) \/ (Look(p) /\ Decisions(p) = {}) \/ (PlanImport(p) /\ Absent = {})
    BY <1>5, <2>4
  <2> QED BY <2>1, <2>2, <2>3, <2>4
-----------------------------------------------------------------------------
(* Work under the lock, one file operation at a time.                      *)

\* While one process is past the lock the files are as safe as what it does.
LEMMA OneWorks ==
    ASSUME StoreTypeOK, LockIsHeld, NEW p \in Procs, pc[p] \in Critical,
           \A q \in Procs \ {p} : pc'[q] = pc[q],
           \A id \in Ids : (Moving(p)' /\ job'[p].id = id) \/ Sound(disk[id], id)',
           Moving(p)' => MoveOK(p)',
           pc'[p] = "drop" => (Moving(p)' <=> job'[p].op # "forget"),
           pc'[p] \in {"snap", "write"} => PlanOK(p)',
           pc'[p] = "release" => AnswerOK(p)',
           Importing(p)' => ImportOK(p)',
           JournalIsTrue'
    PROVE  FilesAreSafe'
<1>1. \A q \in Procs \ {p} : pc'[q] \notin Critical
  BY Alone
<1>2. \A q \in Procs \ {p} : ~Moving(q)' /\ ~Importing(q)'
  BY <1>1 DEF Moving, Importing, Critical
<1>3. AtRest'
  BY DEF AtRest
<1>4. MovesAreSafe'
  BY <1>1, <1>2 DEF MovesAreSafe, Critical
<1>5. PlansFit'
  BY <1>1 DEF PlansFit, Critical
<1>6. AnswersAreTrue'
  BY <1>1 DEF AnswersAreTrue, Critical
<1>7. ImportsAreClean'
  BY <1>2 DEF ImportsAreClean
<1> QED BY <1>3, <1>4, <1>5, <1>6, <1>7 DEF FilesAreSafe

\* A step of a process that does not import leaves the journal true.
LEMMA JournalStays ==
    ASSUME StoreTypeOK, LockIsHeld, JournalIsTrue, NEW p \in Procs, pc[p] \in Critical, ~Importing(p),
           journal' = journal, \A q \in Procs \ {p} : pc'[q] = pc[q],
           pc'[p] = "reconcile" => journal = {},
           \A id \in Ids : /\ wound[id] = "lost" => wound'[id] = "lost"
                           /\ id \in brought' => id \in brought /\ disk'[id][Home] # NoFile,
           brought' \subseteq brought
    PROVE  JournalIsTrue'
<1>1. \A q \in Procs : ~Importing(q)
  BY Alone
<1>2. \A q \in Procs : pc'[q] = "reconcile" => journal = {}
  BY Alone DEF Critical
<1>3. \A id \in journal : id \in Ids /\ wound[id] = "lost"
  BY <1>1, FileStoreAssumption DEF JournalIsTrue, StoreTypeOK, DiskOK
<1>4. brought \subseteq journal
  BY DEF JournalIsTrue
<1> QED BY <1>2, <1>3, <1>4 DEF JournalIsTrue

\* Who is past the lock, but not at its last step, moves nothing.
LEMMA NobodyMoves ==
    ASSUME StoreTypeOK, LockIsHeld, AtRest, NEW p \in Procs, pc[p] \in Critical, ~Moving(p)
    PROVE  \A id \in Ids : Sound(disk[id], id)
BY Alone DEF AtRest

LEMMA LookStep ==
    ASSUME StoreTypeOK, NoLaterStamp, LockIsHeld, NewIsNew, FilesAreSafe,
           NEW p \in Procs, Look(p), Decisions(p) # {}
    PROVE  FilesAreSafe'
<1> DEFINE id == job[p].id
<1>1. PICK d \in Decisions(p) :
          /\ plan' = [plan EXCEPT ![p] = d]
          /\ pc' = [pc EXCEPT ![p] = IF d.snap THEN "snap" ELSE IF d.file # NoFile THEN "write" ELSE "drop"]
          /\ UNCHANGED <<disk, history, lock, journal, now, job, recovered, kept, brought, breached, wound>>
  BY DEF Look, Goto, truth
<1>2. /\ pc[p] = "look" /\ pc[p] \in Critical /\ job[p].op \in Calls /\ id \in Ids
      /\ disk[id] \in [Places -> Files \cup {NoFile}] /\ now \in Nat
  BY DEF Look, StoreTypeOK, CallsOK, JobOK, Critical, Early, DiskOK
<1>3. /\ plan'[p] = d
      /\ pc'[p] = IF d.snap THEN "snap" ELSE IF d.file # NoFile THEN "write" ELSE "drop"
      /\ \A q \in Procs \ {p} : pc'[q] = pc[q]
  BY <1>1 DEF StoreTypeOK, CallsOK
<1>4. ~Moving(p) /\ ~Importing(p) /\ ~Moving(p)' /\ ~Importing(p)'
  BY <1>2, <1>3 DEF Moving, Importing
<1>5. \A i \in Ids : Sound(disk[i], i)'
  <2>1. \A i \in Ids : Sound(disk[i], i)
    BY <1>2, <1>4, NobodyMoves DEF FilesAreSafe
  <2> QED BY <1>1, <2>1, SoundStays
<1>6. JournalIsTrue'
  BY <1>1, <1>2, <1>3, <1>4, JournalStays, FileStoreAssumption DEF FilesAreSafe, JournalIsTrue, StoreTypeOK, TruthOK
<1>7. ASSUME pc'[p] \in {"snap", "write"}
      PROVE  PlanOK(p)'
  <2> DEFINE op == job[p].op
  <2>1. /\ op = "forget" <=> d.file = NoFile
        /\ op = "forget" => ~d.snap
        /\ op \notin {"forget", "touch"} => d.file.stamp = now
        /\ op = "store" => ~d.snap /\ ~d.drop /\ ~d.at.arch
        /\ op = "touch" => ~d.snap /\ ~d.drop /\ disk[id][d.at] = d.file
        /\ op \in {"archive", "revive"} =>
              /\ ~d.snap /\ d.drop /\ d.from \in Found(id) /\ d.file.text = disk[id][d.from].text
              /\ d.from.arch <=> op = "revive"
              /\ d.at.arch <=> op = "archive"
              /\ d.at.scope = d.from.scope
        /\ op = "update" =>
              /\ d.from \in Among(disk[id]) /\ (d.drop <=> d.from # d.at)
              /\ d.drop => d.at \notin Among(disk[id]) /\ d.from \in Found(id)
              /\ d.snap \/ d.file.text = disk[id][d.from].text
    BY <1>1, <1>2, Decided
  <2>2. d.file # NoFile /\ op # "forget"
    BY <1>3, <1>7, <2>1
  <2>3. op = "store" => Among(disk[id]) = {}
    BY <1>2 DEF NewIsNew, Early
  <2>5. pc'[p] = "snap" \/ ~d.snap
    BY <1>3
  <2>6. job' = job /\ wound' = wound /\ disk' = disk /\ history' = history /\ Found(id)' = Found(id)
    BY <1>1 DEF Found, Homes
  <2> HIDE DEF id
  <2>7. PlanOK(p)' <=>
          /\ d.file # NoFile /\ op # "forget"
          /\ op = "store" => Among(disk[id]) = {} /\ ~d.drop /\ ~d.at.arch
          /\ op = "touch" => disk[id][d.at] = d.file /\ ~d.drop
          /\ op \in {"archive", "revive"} =>
                /\ d.from \in Found(id) /\ d.drop /\ d.file.text = disk[id][d.from].text
                /\ d.from.arch <=> op = "revive"
                /\ d.at.arch <=> op = "archive"
                /\ d.at.scope = d.from.scope
          /\ op = "update" =>
                /\ d.from \in Among(disk[id]) /\ (d.drop <=> d.from # d.at)
                /\ d.drop => d.at \notin Among(disk[id]) /\ d.from \in Found(id)
                /\ pc'[p] = "snap" \/ d.file.text = disk[id][d.from].text \/ Past(history[id], disk[id][d.from].text)
    BY <1>3, <2>6 DEF PlanOK, id
  <2> HIDE DEF op
  <2> QED BY <2>1, <2>2, <2>3, <2>5, <2>7
<1>8. pc'[p] = "drop" => job'[p].op = "forget"
  BY <1>1, <1>2, <1>3, Decided
<1> QED BY <1>2, <1>3, <1>4, <1>5, <1>6, <1>7, <1>8, OneWorks

LEMMA SnapshotStep ==
    ASSUME StoreTypeOK, LockIsHeld, FilesAreSafe, NEW p \in Procs, SnapshotHistory(p)
    PROVE  FilesAreSafe'
<1> DEFINE id == job[p].id
           old == disk[id][plan[p].from]
<1>1. /\ pc[p] = "snap" /\ old # NoFile
      /\ history' = [history EXCEPT ![id] = KeepText(@, old.text)]
      /\ UNCHANGED <<disk, lock, journal, now, job, plan, recovered, kept, brought, breached, wound>>
  BY DEF SnapshotHistory, truth
<1>2. pc'[p] = "write" /\ \A q \in Procs \ {p} : pc'[q] = pc[q]
  BY DEF SnapshotHistory, Goto, StoreTypeOK, CallsOK
<1>3. pc[p] \in Critical /\ pc[p] \in Writes /\ ~Moving(p) /\ ~Importing(p) /\ ~Moving(p)' /\ ~Importing(p)'
  BY <1>1, <1>2 DEF Critical, Writes, Moving, Importing
<1>4. /\ id \in Ids /\ plan[p].from \in Places /\ disk[id] \in [Places -> Files \cup {NoFile}] /\ now \in Nat
      /\ history[id] \in Seq(Texts) /\ Len(history[id]) <= HistoryLimit
  BY <1>3, AtWork DEF StoreTypeOK, DiskOK
<1>5. /\ Past(history'[id], old.text)
      /\ \A i \in Ids : \A t : Past(history[i], t) => Past(history'[i], t)
  <2>1. old.text \in Texts
    BY <1>1, <1>4, Constants
  <2>2. /\ Past(KeepText(history[id], old.text), old.text)
        /\ \A t : Past(history[id], t) => Past(KeepText(history[id], old.text), t)
    <3> HIDE DEF old
    <3> QED BY <1>4, <2>1, KeepsText
  <2> HIDE DEF id, old
  <2>3. history'[id] = KeepText(history[id], old.text) /\ \A i \in Ids \ {id} : history'[i] = history[i]
    BY <1>1, <1>4 DEF StoreTypeOK, DiskOK
  <2> QED BY <2>2, <2>3
<1>6. \A i \in Ids : Sound(disk[i], i)'
  <2>1. \A i \in Ids : Sound(disk[i], i)
    BY <1>3, NobodyMoves DEF FilesAreSafe
  <2> QED BY <1>1, <1>5, <2>1, SoundStays
<1>7. JournalIsTrue'
  BY <1>1, <1>2, <1>3, JournalStays, FileStoreAssumption DEF FilesAreSafe, JournalIsTrue, StoreTypeOK, TruthOK
<1>8. PlanOK(p)'
  <2>1. PlanOK(p)
    BY <1>1 DEF FilesAreSafe, PlansFit
  <2>2. Found(id)' = Found(id)
    BY <1>1 DEF Found, Homes
  <2> QED BY <1>1, <1>2, <1>5, <2>1, <2>2 DEF PlanOK
<1> QED BY <1>2, <1>3, <1>6, <1>7, <1>8, OneWorks

LEMMA UnlinkStep ==
    ASSUME StoreTypeOK, LockIsHeld, FilesAreSafe, NEW p \in Procs, Unlink(p)
    PROVE  FilesAreSafe'
<1> DEFINE id == job[p].id
           from == plan[p].from
<1>1. /\ pc[p] = "drop"
      /\ disk' = [disk EXCEPT ![id][from] = NoFile]
      /\ kept' = [kept EXCEPT ![id] = IF job[p].op = "forget" THEN {} ELSE @]
      /\ brought' = brought \ {id}
      /\ UNCHANGED <<history, lock, journal, now, job, plan, recovered, breached, wound>>
  BY DEF Unlink
<1>2. pc'[p] = "release" /\ \A q \in Procs \ {p} : pc'[q] = pc[q]
  BY DEF Unlink, Goto, StoreTypeOK, CallsOK
<1>3. pc[p] \in Critical /\ pc[p] \in Writes /\ ~Importing(p) /\ ~Moving(p)' /\ ~Importing(p)'
  BY <1>1, <1>2 DEF Critical, Writes, Moving, Importing
<1>4. /\ id \in Ids /\ from \in Places /\ disk[id] \in [Places -> Files \cup {NoFile}]
      /\ After(p) \in [Places -> Files \cup {NoFile}]
  BY <1>3, AtWork
<1>5. disk'[id] = After(p) /\ \A i \in Ids \ {id} : disk'[i] = disk[i]
  <2>1. DiskOK
    BY DEF StoreTypeOK
  <2>2. disk'[id] = [disk[id] EXCEPT ![from] = NoFile]
    BY ZenonT(60), <1>1, <1>4, <2>1, OneFile
  <2>3. \A i \in Ids \ {id} : disk'[i] = disk[i]
    BY <1>1, <1>4, <2>1, OneFile
  <2> QED BY <2>2, <2>3 DEF After
<1>6. ASSUME NEW i \in Ids, i # id
      PROVE  Sound(disk[i], i)'
  <2>1. Sound(disk[i], i) /\ disk[i] \in [Places -> Files \cup {NoFile}]
    BY <1>3, <1>6, Alone DEF FilesAreSafe, AtRest, StoreTypeOK, DiskOK
  <2>2. kept'[i] = kept[i]
    BY <1>1, <1>6 DEF StoreTypeOK, TruthOK
  <2> QED BY <1>1, <1>4, <1>5, <1>6, <2>1, <2>2, SoundStays
<1>7. ASSUME Moving(p)
      PROVE  Sound(disk[id], id)' /\ AnswerOK(p)'
  <2>1. MoveOK(p) /\ job[p].op # "forget"
    BY <1>1, <1>7 DEF FilesAreSafe, MovesAreSafe
  <2>2. Sound(After(p), id)
    BY <2>1 DEF MoveOK
  <2>3. kept'[id] = kept[id]
    BY <1>1, <1>4, <2>1 DEF StoreTypeOK, TruthOK
  <2>4. Sound(disk[id], id)'
    BY <1>1, <1>4, <1>5, <2>2, <2>3, SoundStays
  <2>5. AnswerOK(p)'
    BY <1>1, <1>5, <2>1 DEF MoveOK, AnswerOK
  <2> QED BY <2>4, <2>5
<1>8. ASSUME ~Moving(p)
      PROVE  Sound(disk[id], id)' /\ AnswerOK(p)'
  <2>1. Sound(disk[id], id) /\ job[p].op = "forget" /\ kept'[id] = {}
    BY <1>1, <1>3, <1>4, <1>8, NobodyMoves DEF FilesAreSafe, MovesAreSafe, StoreTypeOK, TruthOK
  <2>2. \A pl \in Places : After(p)[pl] \in {disk[id][pl], NoFile}
    BY <1>3, AtWork
  <2>3. /\ wound[id] = "none" => Single(After(p))
        /\ wound[id] = "twin" => Paired(After(p)) /\ id \notin Tenanted
    <3>1. wound[id] = "none" => Single(After(p))
      BY <2>1, <2>2 DEF Sound, Single, Among
    <3>2. wound[id] = "twin" => Paired(After(p)) /\ id \notin Tenanted
      BY <2>1, <2>2 DEF Sound, Paired, Among
    <3> QED BY <3>1, <3>2
  <2>4. AnswerOK(p)'
    BY <1>1, <2>1 DEF AnswerOK
  <2>5. Sound(disk[id], id)'
    <3>1. wound'[id] = wound[id] /\ disk'[id] = After(p)
      BY <1>1, <1>5
    <3>2. (wound[id] = "none" => Single(disk[id])') /\ (wound[id] = "twin" => Paired(disk[id])')
      BY <2>3, <3>1, <1>1
    <3> QED BY <1>1, <2>1, <2>3, <3>1, <3>2 DEF Sound
  <2> QED BY <2>4, <2>5
<1>9. JournalIsTrue'
  <2>1. \A i \in Ids : i \in brought' => i \in brought /\ disk'[i][Home] # NoFile
    BY <1>1, <1>5 DEF FilesAreSafe, JournalIsTrue
  <2> QED BY <1>1, <1>2, <1>3, <2>1, JournalStays DEF FilesAreSafe
<1> QED
  <2>1. \A i \in Ids : Sound(disk[i], i)'
    <3>1. Sound(disk[id], id)'
      BY <1>7, <1>8
    <3>2. ASSUME NEW i \in Ids PROVE Sound(disk[i], i)'
      BY <1>1, <1>6, <3>1
    <3> QED BY <3>2
  <2>2. AnswerOK(p)'
    BY <1>7, <1>8
  <2> QED BY <1>2, <1>3, <1>9, <2>1, <2>2, OneWorks

\* A call that is cut short, by the death of its process or a failure.
LEMMA CutShort ==
    ASSUME StoreTypeOK, LockIsHeld, FilesAreSafe, NEW p \in Procs, Leave(p),
           wound' = [id \in Ids |-> Wounds(p, id)],
           UNCHANGED <<disk, history, journal, kept, brought, breached>>
    PROVE  FilesAreSafe'
<1>1. /\ pc'[p] = "idle"
      /\ \A q \in Procs \ {p} : pc'[q] = pc[q] /\ job'[q] = job[q] /\ plan'[q] = plan[q]
  BY DEF Leave, Goto, StoreTypeOK, CallsOK
<1>2. /\ ~Moving(p)' /\ ~Importing(p)'
      /\ pc'[p] \notin {"snap", "write", "drop", "release", "reconcile"}
  BY <1>1 DEF Moving, Importing
<1>3. CASE ~Moving(p) /\ ~Importing(p)
  <2>1. wound' = wound
    <3>1. \A id \in Ids : Wounds(p, id) = wound[id]
      BY <1>3 DEF Wounds
    <3> QED BY <3>1 DEF StoreTypeOK, TruthOK
  <2> QED BY <1>1, <1>3, <2>1, QuietStep DEF Quiet, Claims
<1>4. CASE Importing(p)
  <2>1. pc[p] \in Critical /\ ~Moving(p)
    BY <1>4 DEF Importing, Critical, Moving
  <2>2. \A id \in Ids : wound'[id] = IF id \in journal THEN "lost" ELSE wound[id]
    BY <1>4, <2>1 DEF Wounds
  <2>3. \A id \in Ids : Sound(disk[id], id)'
    <3>1. \A id \in Ids : Sound(disk[id], id)
      BY <2>1, NobodyMoves DEF FilesAreSafe
    <3>2. \A id \in Ids : wound'[id] = "lost" => Sound(disk[id], id)'
      BY DEF Sound
    <3> QED BY <2>2, <3>1, <3>2, SoundStays
  <2>4. JournalIsTrue'
    <3>1. \A q \in Procs : pc'[q] # "reconcile"
      BY <1>1, <1>2, <2>1, Alone DEF Critical
    <3>2. journal \subseteq Ids
      BY FileStoreAssumption DEF StoreTypeOK, DiskOK
    <3> QED BY <2>2, <3>1, <3>2 DEF FilesAreSafe, JournalIsTrue
  <2> QED BY <1>1, <1>2, <2>1, <2>3, <2>4, OneWorks
<1>5. CASE Moving(p) /\ ~Importing(p)
  <2> DEFINE at == plan[p].at
             from == plan[p].from
  <2>1. pc[p] \in Critical /\ pc[p] \in Writes /\ pc[p] = "drop" /\ MoveOK(p)
    BY <1>5 DEF Moving, Critical, Writes, FilesAreSafe, MovesAreSafe
  <2>2. PICK id \in Ids : id = job[p].id
    BY <2>1, AtWork
  <2>3. \A i \in Ids : /\ i # id => wound'[i] = wound[i]
                       /\ i = id => wound'[i] = IF wound[id] # "none" \/ at.scope # from.scope \/ id \in Tenanted
                                                THEN "lost" ELSE "twin"
    BY <1>5, <2>2 DEF Wounds
  <2>4. Sound(disk[id], id)'
    <3>1. CASE wound'[id] = "lost"
      BY <3>1 DEF Sound
    <3>2. CASE wound[id] = "none" /\ at.scope = from.scope /\ id \notin Tenanted
      <4>1. /\ at # from /\ at \in Places /\ from \in Places /\ disk[id][at] = plan[p].file
            /\ Among(disk[id]) \subseteq {at, from}
            /\ \A t \in kept[id] : Past(history[id], t) \/ (t = plan[p].file.text /\ disk[id][from].text = t)
        BY <2>1, <2>2, <3>2, AtWork DEF MoveOK
      <4>2. Paired(disk[id])
        BY <3>2, <4>1 DEF Paired, Places
      <4>3. \A t \in kept[id] : Held(disk[id], history[id], t)
        <5>1. at \in Among(disk[id])
          BY <1>5, <4>1 DEF Among, Moving
        <5> HIDE DEF at, from
        <5> QED BY <4>1, <5>1 DEF Held
      <4>4. wound'[id] = "twin"
        BY <2>3, <3>2
      <4> QED BY <3>2, <4>2, <4>3, <4>4 DEF Sound
    <3> QED BY <2>3, <3>1, <3>2
  <2>5. \A i \in Ids : Sound(disk[i], i)'
    <3>1. ASSUME NEW i \in Ids, i # id
          PROVE  Sound(disk[i], i)'
      <4>1. Sound(disk[i], i)
        BY <2>1, <2>2, <3>1, Alone DEF FilesAreSafe, AtRest
      <4> QED BY <2>3, <3>1, <4>1, SoundStays
    <3> QED BY <2>4, <3>1
  <2>6. JournalIsTrue'
    <3>1. \A i \in Ids : wound[i] = "lost" => wound'[i] = "lost"
      BY <2>3
    <3> QED BY <1>1, <1>2, <1>5, <2>1, <3>1, JournalStays, FileStoreAssumption DEF FilesAreSafe, JournalIsTrue, StoreTypeOK, TruthOK
  <2> QED BY <1>1, <1>2, <2>1, <2>5, <2>6, OneWorks
<1> QED BY <1>3, <1>4, <1>5

\* update() leaves the old file where it is.
LEMMA LeaveOldStep ==
    ASSUME StoreTypeOK, LockIsHeld, FilesAreSafe, NEW p \in Procs, LeaveOld(p)
    PROVE  FilesAreSafe'
<1>1. PICK id \in Ids : id = job[p].id
  BY AtWork DEF LeaveOld, Writes
<1>2. /\ pc[p] = "drop" /\ wound' = [wound EXCEPT ![id] = "lost"]
      /\ UNCHANGED <<disk, history, lock, journal, now, job, plan, recovered, kept, brought, breached>>
  BY <1>1 DEF LeaveOld
<1>3. pc'[p] = "release" /\ \A q \in Procs \ {p} : pc'[q] = pc[q]
  BY DEF LeaveOld, Goto, StoreTypeOK, CallsOK
<1>4. pc[p] \in Critical /\ ~Importing(p) /\ ~Moving(p)' /\ ~Importing(p)'
  BY <1>2, <1>3 DEF Critical, Moving, Importing
<1>5. wound'[id] = "lost" /\ \A i \in Ids \ {id} : wound'[i] = wound[i]
  BY <1>2 DEF StoreTypeOK, TruthOK
<1>6. \A i \in Ids : Sound(disk[i], i)'
  <2>1. Sound(disk[id], id)'
    BY <1>5 DEF Sound
  <2>2. ASSUME NEW i \in Ids, i # id
        PROVE  Sound(disk[i], i)'
    <3>1. Sound(disk[i], i)
      BY <1>1, <1>4, <2>2, Alone DEF FilesAreSafe, AtRest
    <3> QED BY <1>2, <1>5, <2>2, <3>1, SoundStays
  <2> QED BY <2>1, <2>2
<1>7. AnswerOK(p)'
  BY <1>1, <1>2, <1>5 DEF AnswerOK
<1>8. JournalIsTrue'
  BY <1>2, <1>3, <1>4, <1>5, JournalStays, FileStoreAssumption DEF FilesAreSafe, JournalIsTrue, StoreTypeOK, TruthOK
<1> QED BY <1>3, <1>4, <1>6, <1>7, <1>8, OneWorks

LEMMA ReturnStep ==
    ASSUME StoreTypeOK, LockIsHeld, FilesAreSafe, NEW p \in Procs, Return(p)
    PROVE  FilesAreSafe'
<1> DEFINE id == job[p].id
           text == plan[p].file.text
<1>1. /\ pc[p] = "release"
      /\ kept' = [kept EXCEPT ![id] = IF job[p].op \in {"forget", "touch"} THEN @ ELSE @ \cup {text}]
      /\ Leave(p)
      /\ UNCHANGED <<disk, history, journal, now, recovered, brought, breached, wound>>
  BY DEF Return
<1>2. pc'[p] = "idle" /\ \A q \in Procs \ {p} : pc'[q] = pc[q]
  BY <1>1 DEF Leave, Goto, StoreTypeOK, CallsOK
<1>3. /\ pc[p] \in Critical /\ pc[p] \in Writes /\ ~Moving(p) /\ ~Importing(p) /\ ~Moving(p)' /\ ~Importing(p)'
      /\ pc'[p] \notin {"snap", "write", "drop", "release"}
  BY <1>1, <1>2 DEF Critical, Writes, Moving, Importing
<1>4. id \in Ids
  BY <1>3, AtWork
<1>5. \A i \in Ids : Sound(disk[i], i)
  BY <1>3, NobodyMoves DEF FilesAreSafe
<1>6. ASSUME NEW i \in Ids
      PROVE  Sound(disk[i], i)'
  <2>1. CASE i # id \/ job[p].op \in {"forget", "touch"}
    <3>1. kept'[i] = kept[i]
      BY <1>1, <1>4, <2>1 DEF StoreTypeOK, TruthOK
    <3> QED BY <1>1, <1>4, <1>5, <3>1, SoundStays
  <2>2. CASE i = id /\ job[p].op \notin {"forget", "touch"}
    <3>1. kept'[i] = kept[i] \cup {text}
      BY <1>1, <1>4, <2>2 DEF StoreTypeOK, TruthOK
    <3>2. wound[i] # "lost" => Held(disk[i], history[i], text)
      BY <1>1, <2>2 DEF FilesAreSafe, AnswersAreTrue, AnswerOK
    <3>3. wound[i] # "lost" => \A t \in kept'[i] : Held(disk[i], history[i], t)
      BY <1>5, <3>1, <3>2 DEF Sound
    <3> HIDE DEF id, text
    <3> QED BY <1>1, <1>5, <3>3 DEF Sound
  <2> QED BY <2>1, <2>2
<1>7. JournalIsTrue'
  BY <1>1, <1>2, <1>3, JournalStays, FileStoreAssumption DEF FilesAreSafe, JournalIsTrue, StoreTypeOK, TruthOK
<1> QED BY <1>2, <1>3, <1>6, <1>7, OneWorks
-----------------------------------------------------------------------------
(* Imports.                                                                *)

LEMMA PlanImportStep ==
    ASSUME StoreTypeOK, LockIsHeld, FilesAreSafe, NEW p \in Procs, PlanImport(p), Absent # {}
    PROVE  FilesAreSafe'
<1>1. /\ pc[p] = "look" /\ journal' = Absent /\ brought' = {}
      /\ job' = [job EXCEPT ![p] = [op |-> "importBatch", ids |-> Absent]]
      /\ UNCHANGED <<disk, history, now, recovered, kept, breached, wound, lock, plan>>
  BY DEF PlanImport
<1>2. /\ pc'[p] = "import" /\ job'[p] = [op |-> "importBatch", ids |-> Absent]
      /\ \A q \in Procs \ {p} : pc'[q] = pc[q]
  BY DEF PlanImport, Goto, StoreTypeOK, CallsOK
<1>3. pc[p] \in Critical /\ ~Moving(p) /\ ~Moving(p)' /\ Importing(p)'
  BY <1>1, <1>2 DEF Critical, Moving, Importing
<1>4. \A i \in Ids : Sound(disk[i], i)
  BY <1>3, NobodyMoves DEF FilesAreSafe
<1>5. \A i \in Ids : Sound(disk[i], i)'
  BY <1>1, <1>4, SoundStays
<1>6. \A i \in Absent : i \in Ids /\ Among(disk[i]) = {}
  BY FileStoreAssumption DEF Absent, Homes, Among
<1>7. ImportOK(p)'
  <2>1. \A i \in Absent : wound[i] # "lost" => \A t \in kept[i] : Past(history[i], t)
    BY <1>4, <1>6 DEF Sound, Held
  <2> QED BY <1>1, <1>2, <1>6, <2>1 DEF ImportOK
<1>8. JournalIsTrue'
  <2>1. \A q \in Procs : pc'[q] # "reconcile"
    BY <1>2, <1>3, Alone DEF Critical
  <2> QED BY <1>1, <1>3, <2>1 DEF JournalIsTrue
<1> QED BY <1>2, <1>3, <1>5, <1>7, <1>8, OneWorks

\* An import that meets a file, or fails, turns to what it has written.
LEMMA ImportTurns ==
    ASSUME StoreTypeOK, LockIsHeld, FilesAreSafe, NEW p \in Procs, Importing(p),
           pc' = [pc EXCEPT ![p] = "undo"],
           UNCHANGED <<disk, history, lock, journal, now, job, plan, recovered, truth>>
    PROVE  FilesAreSafe'
<1>1. pc'[p] = "undo" /\ \A q \in Procs \ {p} : pc'[q] = pc[q]
  BY DEF StoreTypeOK, CallsOK
<1>2. pc[p] \in Critical /\ ~Moving(p) /\ ~Moving(p)' /\ Importing(p)'
  BY <1>1 DEF Critical, Moving, Importing
<1>3. \A i \in Ids : Sound(disk[i], i)
  BY <1>2, NobodyMoves DEF FilesAreSafe
<1>4. \A i \in Ids : Sound(disk[i], i)'
  BY <1>3, SoundStays DEF truth
<1>5. ImportOK(p)'
  BY DEF FilesAreSafe, ImportsAreClean, ImportOK, truth
<1>6. JournalIsTrue'
  <2>1. \A q \in Procs : pc'[q] # "reconcile"
    BY <1>1, <1>2, Alone DEF Critical
  <2> QED BY <1>2, <2>1 DEF FilesAreSafe, JournalIsTrue, truth
<1> QED BY <1>1, <1>2, <1>4, <1>5, <1>6, OneWorks

\* The files of an import are the only ones of their ids, which have nothing
\* else to keep: one is written, or is removed, or cannot be.
LEMMA ImportWrites ==
    ASSUME StoreTypeOK, LockIsHeld, FilesAreSafe, NEW p \in Procs, Importing(p),
           NEW id \in journal, NEW f \in Files \cup {NoFile},
           disk' \in {disk, [disk EXCEPT ![id][Home] = f]},
           f # NoFile => f.text = <<"import", 1>> /\ disk' = [disk EXCEPT ![id][Home] = f],
           brought' = IF f = NoFile THEN brought \ {id} ELSE brought \cup {id},
           job'[p].op = "importBatch", brought' \subseteq job'[p].ids, job'[p].ids \subseteq journal,
           UNCHANGED <<history, lock, journal, now, pc, plan, recovered, kept, breached, wound>>
    PROVE  FilesAreSafe'
<1>1. /\ pc[p] \in Critical /\ ~Moving(p) /\ ~Moving(p)' /\ Importing(p)' /\ ImportOK(p)
      /\ pc[p] \in {"import", "undo"}
  BY DEF Critical, Moving, Importing, FilesAreSafe, ImportsAreClean
<1>2. \A i \in Ids : Sound(disk[i], i)
  BY <1>1, NobodyMoves DEF FilesAreSafe
<1>3. id \in Ids /\ journal \subseteq Ids /\ DiskOK /\ Home \in Places
  BY Constants, FileStoreAssumption DEF StoreTypeOK, DiskOK
<1>4. (f # NoFile => disk'[id][Home] = f) /\ \A i \in Ids \ {id} : disk'[i] = disk[i]
  <2>1. CASE disk' = disk /\ f = NoFile
    BY <2>1
  <2>2. CASE disk' = [disk EXCEPT ![id][Home] = f]
    <3>1. disk'[id][Home] = f
      BY ZenonT(60), <1>3, <2>2, OneFile
    <3>2. \A i \in Ids \ {id} : disk'[i] = disk[i]
      BY <1>3, <2>2, OneFile
    <3> QED BY <3>1, <3>2
  <2> QED BY <2>1, <2>2
<1>5. Among(disk'[id]) \subseteq {Home}
  <2>1. CASE disk' = disk
    BY <1>1, <2>1 DEF ImportOK
  <2>2. CASE disk' = [disk EXCEPT ![id][Home] = f]
    <3>1. Among(disk'[id]) \subseteq Among(disk[id]) \cup {Home}
      BY <1>3, <2>2, AmongOne
    <3> QED BY <1>1, <3>1 DEF ImportOK
  <2> QED BY <2>1, <2>2
<1>6. ImportOK(p)'
  <2>1. ASSUME NEW i \in journal
        PROVE  /\ Among(disk'[i]) \subseteq {Home}
               /\ i \in brought' => disk'[i][Home].text = <<"import", 1>>
    <3>1. CASE i = id
      BY <1>4, <1>5, <3>1
    <3>2. CASE i # id
      BY <1>1, <1>3, <1>4, <3>2 DEF ImportOK
    <3> QED BY <3>1, <3>2
  <2> QED BY <1>1, <2>1 DEF ImportOK
<1>7. \A i \in Ids : Sound(disk[i], i)'
  <2>1. ASSUME NEW i \in Ids, i # id
        PROVE  Sound(disk[i], i)'
    BY <1>2, <1>4, <2>1, SoundStays
  <2>2. Sound(disk[id], id)'
    <3>1. Single(disk'[id]) /\ Paired(disk'[id])
      BY <1>5 DEF Single, Paired
    <3>2. wound'[id] # "lost" => \A t \in kept'[id] : Held(disk'[id], history'[id], t)
      BY <1>1 DEF ImportOK, Held
    <3>3. wound[id] = "twin" => id \notin Tenanted
      BY <1>2, <1>3 DEF Sound
    <3> QED BY <3>1, <3>2, <3>3 DEF Sound
  <2> QED BY <2>1, <2>2
<1>8. JournalIsTrue'
  <2>1. \A q \in Procs : pc'[q] # "reconcile"
    BY <1>1, Alone DEF Critical
  <2>2. \A i \in brought' : disk'[i][Home] # NoFile
    BY <1>3, <1>4 DEF FilesAreSafe, JournalIsTrue
  <2> QED BY <1>1, <2>1, <2>2 DEF FilesAreSafe, JournalIsTrue
<1> QED BY <1>1, <1>6, <1>7, <1>8, OneWorks

LEMMA ImportDoneStep ==
    ASSUME StoreTypeOK, LockIsHeld, FilesAreSafe, NEW p \in Procs, ImportDone(p)
    PROVE  FilesAreSafe'
<1>1. /\ pc[p] = "import" /\ job[p].ids \subseteq brought
      /\ journal' = {} /\ brought' = brought \ job[p].ids
      /\ kept' = [id \in Ids |-> IF id \in job[p].ids THEN kept[id] \cup {<<"import", 1>>} ELSE kept[id]]
      /\ Leave(p) /\ UNCHANGED <<disk, history, now, recovered, breached, wound>>
  BY DEF ImportDone
<1>2. pc'[p] = "idle" /\ \A q \in Procs \ {p} : pc'[q] = pc[q]
  BY <1>1 DEF Leave, Goto, StoreTypeOK, CallsOK
<1>3. /\ pc[p] \in Critical /\ ~Moving(p) /\ Importing(p) /\ ~Moving(p)' /\ ~Importing(p)'
      /\ pc'[p] \notin {"snap", "write", "drop", "release"}
  BY <1>1, <1>2 DEF Critical, Moving, Importing, StoreTypeOK, CallsOK, JobOK
<1>4. \A i \in Ids : Sound(disk[i], i)
  BY <1>3, NobodyMoves DEF FilesAreSafe
<1>5. ImportOK(p) /\ brought \subseteq journal
  BY <1>3 DEF FilesAreSafe, ImportsAreClean, JournalIsTrue
<1>6. ASSUME NEW i \in Ids
      PROVE  Sound(disk[i], i)'
  <2>1. CASE i \notin job[p].ids
    BY <1>1, <1>4, <2>1, SoundStays
  <2>2. CASE i \in job[p].ids
    <3>1. Among(disk[i]) = {Home} /\ disk[i][Home].text = <<"import", 1>>
      BY <1>1, <1>3, <1>5, <2>2, Constants DEF ImportOK, Among, FilesAreSafe, JournalIsTrue
    <3>2. Held(disk[i], history[i], <<"import", 1>>)
      BY <3>1 DEF Held
    <3>3. wound[i] # "lost" => \A t \in kept'[i] : Held(disk[i], history[i], t)
      BY <1>1, <1>4, <2>2, <3>2 DEF Sound
    <3> QED BY <1>1, <1>4, <3>3 DEF Sound
  <2> QED BY <2>1, <2>2
<1>7. JournalIsTrue'
  <2>1. \A q \in Procs : pc'[q] # "reconcile"
    BY <1>2, <1>3, Alone DEF Critical
  <2> QED BY <1>1, <1>5, <2>1 DEF ImportOK, JournalIsTrue
<1> QED BY <1>2, <1>3, <1>6, <1>7, OneWorks

\* The end of a journal, when nothing that an import has brought is left to remove.
LEMMA JournalEnds ==
    ASSUME StoreTypeOK, LockIsHeld, FilesAreSafe, NEW p \in Procs, pc[p] \in {"undo", "rollback"},
           pc'[p] \in {"idle", "reconcile"}, \A q \in Procs \ {p} : pc'[q] = pc[q],
           brought = {}, journal' = {}, UNCHANGED <<disk, history, now, kept, brought, breached, wound>>
    PROVE  FilesAreSafe'
<1>1. /\ pc[p] \in Critical /\ ~Moving(p) /\ ~Moving(p)' /\ ~Importing(p)'
      /\ pc'[p] \notin {"snap", "write", "drop", "release"}
  BY DEF Critical, Moving, Importing
<1>2. \A i \in Ids : Sound(disk[i], i)
  BY <1>1, NobodyMoves DEF FilesAreSafe
<1>3. \A i \in Ids : Sound(disk[i], i)'
  BY <1>2, SoundStays
<1>4. JournalIsTrue'
  BY DEF FilesAreSafe, JournalIsTrue
<1> QED BY <1>1, <1>3, <1>4, OneWorks

LEMMA UndoStep ==
    ASSUME StoreTypeOK, LockIsHeld, FilesAreSafe, NEW p \in Procs, Undo(p)
    PROVE  FilesAreSafe'
<1>1. /\ pc[p] = "undo" /\ Importing(p) /\ ImportOK(p)
      /\ job[p].op = "importBatch" /\ "ids" \in DOMAIN job[p]
  BY DEF Undo, UndoDone, Importing, StoreTypeOK, CallsOK, JobOK, FilesAreSafe, ImportsAreClean
<1>2. CASE /\ UndoDone(p) /\ journal' = {} /\ Leave(p)
           /\ UNCHANGED <<disk, history, now, kept, brought, breached, wound>>
  <2>1. pc'[p] = "idle" /\ \A q \in Procs \ {p} : pc'[q] = pc[q]
    BY <1>2 DEF Leave, Goto, StoreTypeOK, CallsOK
  <2>2. brought = {}
    BY <1>1, <1>2 DEF UndoDone, ImportOK
  <2> QED BY <1>1, <1>2, <2>1, <2>2, JournalEnds
<1>3. CASE /\ wound' = [id \in Ids |-> Wounds(p, id)] /\ Leave(p)
           /\ UNCHANGED <<disk, history, journal, kept, brought, breached>>
  BY <1>3, CutShort
<1>4. ASSUME NEW id \in job[p].ids, job' = [job EXCEPT ![p].ids = @ \ {id}],
             disk' \in {disk, [disk EXCEPT ![id][Home] = NoFile]}, brought' = brought \ {id},
             UNCHANGED <<history, lock, journal, now, pc, plan, recovered, kept, breached, wound>>
      PROVE  FilesAreSafe'
  <2>1. job'[p].op = "importBatch" /\ job'[p].ids = job[p].ids \ {id}
    BY <1>1, <1>4 DEF StoreTypeOK, CallsOK
  <2>2. id \in journal /\ brought' \subseteq job'[p].ids /\ job'[p].ids \subseteq journal
    BY <1>1, <1>4, <2>1 DEF ImportOK
  <2> QED BY <1>1, <1>4, <2>1, <2>2, ImportWrites
<1> QED BY <1>2, <1>3, <1>4 DEF Undo

LEMMA ImportOneStep ==
    ASSUME StoreTypeOK, LockIsHeld, FilesAreSafe, NEW p \in Procs, ImportOne(p)
    PROVE  FilesAreSafe'
<1> DEFINE file == [ver |-> 1, text |-> <<"import", 1>>, stamp |-> 0]
<1>1. pc[p] = "import" /\ Importing(p)
  BY DEF ImportOne, Importing, StoreTypeOK, CallsOK, JobOK
<1>2. brought \subseteq job[p].ids /\ job[p].ids \subseteq journal
  BY <1>1 DEF FilesAreSafe, ImportsAreClean, ImportOK
<1>3. CASE pc' = [pc EXCEPT ![p] = "undo"] /\ UNCHANGED <<disk, brought>>
  BY <1>1, <1>3, ImportTurns DEF ImportOne, truth
<1>4. CASE \E id \in job[p].ids : /\ disk' = [disk EXCEPT ![id][Home] = file]
                                  /\ brought' = brought \cup {id} /\ pc' = pc
  <2>1. file \in Files /\ file # NoFile /\ file.text = <<"import", 1>>
    <3>1. file \in Files
      BY FileStoreAssumption DEF Files, Texts
    <3> QED BY <3>1, Constants
  <2>2. PICK id \in job[p].ids : /\ disk' = [disk EXCEPT ![id][Home] = file]
                                 /\ brought' = brought \cup {id} /\ pc' = pc
    BY <1>4
  <2>3. UNCHANGED <<history, lock, journal, now, job, plan, recovered, kept, breached, wound>>
    BY DEF ImportOne
  <2>4. job'[p].op = "importBatch" /\ brought' \subseteq job'[p].ids /\ job'[p].ids \subseteq journal
    BY <1>1, <1>2, <2>2, <2>3 DEF StoreTypeOK, CallsOK, JobOK
  <2> HIDE DEF file
  <2> QED BY <1>1, <1>2, <2>1, <2>2, <2>3, <2>4, ImportWrites
<1> QED BY <1>3, <1>4 DEF ImportOne, Goto

LEMMA RollbackStep ==
    ASSUME StoreTypeOK, LockIsHeld, FilesAreSafe, NEW p \in Procs, ReconcileSnapshotImport(p)
    PROVE  FilesAreSafe'
<1>1. /\ pc[p] = "rollback" /\ pc[p] \in Critical /\ ~Moving(p) /\ ~Importing(p)
      /\ UNCHANGED <<history, lock, now, job, plan, recovered, kept, breached, wound>>
  BY DEF ReconcileSnapshotImport, Critical, Moving, Importing
<1>2. CASE \A id \in journal : disk[id][Home] = NoFile
  <2>1. journal' = {} /\ UNCHANGED <<disk, brought>> /\ pc'[p] = "reconcile" /\ \A q \in Procs \ {p} : pc'[q] = pc[q]
    BY <1>2 DEF ReconcileSnapshotImport, Goto, StoreTypeOK, CallsOK
  <2>2. brought = {}
    BY <1>2 DEF FilesAreSafe, JournalIsTrue
  <2> QED BY <1>1, <1>2, <2>1, <2>2, JournalEnds
<1>3. ASSUME NEW id \in journal, disk' = [disk EXCEPT ![id][Home] = NoFile], brought' = brought \ {id},
             UNCHANGED <<journal, pc>>
      PROVE  FilesAreSafe'
  <2>1. id \in Ids /\ Home \in Places /\ DiskOK
    BY Constants, FileStoreAssumption DEF StoreTypeOK, DiskOK
  <2>2. \A i \in Ids \ {id} : disk'[i] = disk[i]
    BY <1>3, <2>1, OneFile
  <2>3. wound[id] = "lost"
    BY <1>1, Alone DEF FilesAreSafe, JournalIsTrue
  <2>4. \A i \in Ids : Sound(disk[i], i)
    BY <1>1, NobodyMoves DEF FilesAreSafe
  <2>5. \A i \in Ids : Sound(disk[i], i)'
    <3>1. ASSUME NEW i \in Ids, i # id
          PROVE  Sound(disk[i], i)'
      BY <1>1, <2>1, <2>2, <2>4, <3>1, SoundStays
    <3>2. Sound(disk[id], id)'
      BY <1>1, <2>3 DEF Sound
    <3> QED BY <3>1, <3>2
  <2>6. JournalIsTrue'
    <3>1. \A i \in Ids : i \in brought' => i \in brought /\ disk'[i][Home] # NoFile
      BY <1>3, <2>2 DEF FilesAreSafe, JournalIsTrue
    <3> QED BY <1>1, <1>3, <3>1, JournalStays DEF FilesAreSafe
  <2>7. ~Moving(p)' /\ ~Importing(p)' /\ pc'[p] \notin {"snap", "write", "drop", "release"}
    BY <1>1, <1>3 DEF Moving, Importing
  <2> QED BY <1>1, <1>3, <2>5, <2>6, <2>7, OneWorks
<1> QED BY <1>2, <1>3 DEF ReconcileSnapshotImport

\* Of one copy in each tree recovery leaves the one that has all there is to keep.
LEMMA ReconcilesTwins ==
    ASSUME NEW id \in Ids, disk[id] \in [Places -> Files \cup {NoFile}], Paired(disk[id]),
           NEW f \in Reconciled(id), id \notin Tenanted
    PROVE  /\ Single(f)
           /\ \A h, t : Held(disk[id], h, t) => Held(f, h, t)
<1> DEFINE g == disk[id]
<1>1. CASE \A a, z \in Among(g) : a.arch = z.arch
  <2>1. f = g
    BY <1>1 DEF Reconciled, Homes, Among
  <2> QED BY <1>1, <2>1 DEF Paired, Single, Among
<1>2. ASSUME NEW a \in Among(g), NEW z \in Among(g), ~a.arch, z.arch
      PROVE  /\ Single(f)
             /\ \A h, t : Held(disk[id], h, t) => Held(f, h, t)
  <2>1. Among(g) = {a, z} /\ a # z
    BY <1>2 DEF Paired, Among, Places
  <2>2. {pl \in Homes(id) : ~pl.arch} = {a} /\ {pl \in Homes(id) : pl.arch} = {z}
    BY <1>2, <2>1 DEF Homes, Among
  <2>3. f = [pl \in Places |-> IF \/ pl = a /\ KeepArchived(g[a], g[z])
                                  \/ pl = z /\ ~KeepArchived(g[a], g[z])
                               THEN NoFile ELSE g[pl]]
    BY <2>2 DEF Reconciled, Before
  <2>4. CASE KeepArchived(g[a], g[z])
    <3>1. f[z] = g[z] /\ Among(f) = {z}
      BY <2>1, <2>3, <2>4 DEF Among
    <3>2. ~(g[a].stamp > g[z].stamp)
      BY <2>4, Constants DEF KeepArchived, Among
    <3> QED BY <1>2, <2>1, <3>1, <3>2 DEF Single, Held
  <2>5. CASE ~KeepArchived(g[a], g[z])
    <3>1. f[a] = g[a] /\ Among(f) = {a}
      BY <2>1, <2>3, <2>5 DEF Among
    <3> QED BY <1>2, <2>1, <3>1 DEF Single, Held
  <2> QED BY <2>4, <2>5
<1> QED BY <1>1, <1>2 DEF Among, Places

LEMMA ReconcileStep ==
    ASSUME StoreTypeOK, LockIsHeld, FilesAreSafe, NEW p \in Procs, Reconcile(p)
    PROVE  FilesAreSafe'
<1>1. /\ pc[p] = "reconcile" /\ Leave(p)
      /\ wound' = [id \in Ids |->
             IF wound[id] = "twin" /\ id \notin Tenanted /\ disk'[id] \in Reconciled(id) THEN "none" ELSE wound[id]]
      /\ UNCHANGED <<history, journal, now, kept, brought, breached>>
      /\ \A id \in Ids : disk'[id] \in Reconciled(id) \cup {disk[id]}
  BY DEF Reconcile
<1>2. pc'[p] = "idle" /\ \A q \in Procs \ {p} : pc'[q] = pc[q]
  BY <1>1 DEF Leave, Goto, StoreTypeOK, CallsOK
<1>3. /\ pc[p] \in Critical /\ ~Moving(p) /\ ~Importing(p) /\ ~Moving(p)' /\ ~Importing(p)'
      /\ pc'[p] \notin {"snap", "write", "drop", "release"}
  BY <1>1, <1>2 DEF Critical, Moving, Importing
<1>4. \A i \in Ids : Sound(disk[i], i) /\ disk[i] \in [Places -> Files \cup {NoFile}]
  BY <1>3, NobodyMoves DEF FilesAreSafe, StoreTypeOK, DiskOK
<1>5. ASSUME NEW i \in Ids
      PROVE  Sound(disk[i], i)'
  <2>1. CASE wound[i] = "none"
    <3>1. disk'[i] = disk[i]
      <4>1. \A a, b \in Homes(i) : a = b
        BY <1>4, <2>1 DEF Sound, Single, Homes, Among
      <4>2. {pl \in Homes(i) : ~pl.arch} = {} \/ {pl \in Homes(i) : pl.arch} = {}
        BY <4>1
      <4>3. Reconciled(i) = {disk[i]}
        BY <4>2, Zenon DEF Reconciled
      <4> QED BY <1>1, <4>3
    <3>2. wound'[i] = wound[i]
      BY <1>1, <2>1
    <3> QED BY <1>1, <1>4, <3>1, <3>2, SoundStays
  <2>2. CASE wound[i] = "twin" /\ disk'[i] \in Reconciled(i)
    <3>1. Paired(disk[i]) /\ i \notin Tenanted /\ \A t \in kept[i] : Held(disk[i], history[i], t)
      BY <1>4, <2>2 DEF Sound
    <3>2. Single(disk'[i]) /\ \A t \in kept[i] : Held(disk'[i], history[i], t)
      BY <1>4, <2>2, <3>1, ReconcilesTwins
    <3>3. wound'[i] = "none"
      BY <1>1, <2>2, <3>1
    <3> QED BY <1>1, <3>2, <3>3 DEF Sound
  <2>4. CASE wound[i] = "twin" /\ disk'[i] \notin Reconciled(i)
    <3>1. disk'[i] = disk[i] /\ wound'[i] = wound[i]
      BY <1>1, <2>4
    <3> QED BY <1>1, <1>4, <3>1, SoundStays
  <2>3. CASE wound[i] = "lost"
    BY <1>1, <2>3 DEF Sound
  <2> QED BY <2>1, <2>2, <2>3, <2>4 DEF StoreTypeOK, TruthOK
<1>6. JournalIsTrue'
  <2>1. journal = {} /\ brought = {}
    BY <1>1 DEF FilesAreSafe, JournalIsTrue
  <2> QED BY <1>1, <1>2, <2>1 DEF JournalIsTrue
<1> QED BY <1>2, <1>3, <1>5, <1>6, OneWorks

-----------------------------------------------------------------------------
(* The write.                                                              *)

\* Whatever is held is the text of the active copy, if there is one.
LEMMA HeldThere ==
    ASSUME NEW f, NEW h, NEW t, NEW a \in Among(f), Held(f, h, t),
           \A pl \in Among(f) : pl = a \/ (pl.arch /\ ~a.arch)
    PROVE  Past(h, t) \/ f[a].text = t
BY DEF Held

\* A text is held by the newest copy of the active tree, or by the only one.
LEMMA HeldByNewest ==
    ASSUME NEW f, NEW h, NEW at \in Among(f),
           \A z \in Among(f) : z = at \/ (~at.arch /\ f[at].stamp > f[z].stamp)
    PROVE  \A t : Past(h, t) \/ t = f[at].text => Held(f, h, t)
BY DEF Held

LEMMA WriteStep ==
    ASSUME StoreTypeOK, NoLaterStamp, LockIsHeld, FilesAreSafe, NEW p \in Procs, WriteCached(p)
    PROVE  FilesAreSafe'
<1>1. PICK id \in Ids, at \in Places, from \in Places, file \in Files, drop \in BOOLEAN :
          /\ id = job[p].id /\ at = plan[p].at /\ from = plan[p].from /\ file = plan[p].file /\ drop = plan[p].drop
  <2>1. pc[p] = "write" /\ pc[p] \in Writes
    BY DEF WriteCached, Writes
  <2>2. plan[p].file # NoFile
    BY <2>1 DEF FilesAreSafe, PlansFit, PlanOK
  <2> QED BY <2>1, <2>2, AtWork
<1> DEFINE op  == job[p].op
           g   == disk[id]
           new == disk'[id]
           fin == IF drop THEN [new EXCEPT ![from] = NoFile] ELSE new
<1>2. /\ pc[p] = "write" /\ brought' = brought \ {id}
      /\ wound' = IF Spoils(p) THEN [wound EXCEPT ![id] = "lost"] ELSE wound
      /\ UNCHANGED <<history, lock, journal, now, job, plan, recovered, kept, breached>>
  BY <1>1 DEF WriteCached
<1>3. pc'[p] = (IF drop THEN "drop" ELSE "release") /\ \A q \in Procs \ {p} : pc'[q] = pc[q]
  BY <1>1 DEF WriteCached, Goto, StoreTypeOK, CallsOK
<1>4. /\ pc[p] \in Critical /\ ~Moving(p) /\ ~Importing(p) /\ ~Importing(p)'
      /\ Moving(p)' <=> drop
  BY <1>1, <1>2, <1>3, Constants DEF Critical, Moving, Importing
<1>5. \A i \in Ids : /\ Sound(disk[i], i) /\ (\A pl \in Places : disk[i][pl].stamp \in Nat)
                     /\ disk[i] \in [Places -> Files \cup {NoFile}]
  BY <1>4, NobodyMoves, Constants DEF FilesAreSafe, StoreTypeOK, DiskOK
<1>6. /\ new \in [Places -> Files \cup {NoFile}] /\ new[at] = file
      /\ \A pl \in Places \ {at} : new[pl] = g[pl]
      /\ \A i \in Ids \ {id} : disk'[i] = disk[i]
  <2>1. disk' = [disk EXCEPT ![id][at] = file] /\ DiskOK
    BY <1>1 DEF WriteCached, StoreTypeOK
  <2>2. disk'[id][at] = file
    BY ZenonT(60), <2>1, OneFile
  <2>3. \A pl \in Places \ {at} : disk'[id][pl] = disk[id][pl]
    BY <2>1, OneFile
  <2>4. \A i \in Ids \ {id} : disk'[i] = disk[i]
    BY <2>1, OneFile
  <2>5. disk' \in [Ids -> [Places -> Files \cup {NoFile}]]
    BY <2>1, OneFile
  <2> QED BY <2>2, <2>3, <2>4, <2>5
<1>7. /\ op # "forget"
      /\ op = "store" => Among(g) = {} /\ ~drop /\ ~at.arch
      /\ op = "touch" => g[at] = file /\ ~drop
      /\ op \in {"archive", "revive"} =>
            /\ from \in Found(id) /\ drop /\ file.text = g[from].text
            /\ from.arch <=> op = "revive"
            /\ at.arch <=> op = "archive"
            /\ at.scope = from.scope
      /\ op = "update" =>
            /\ from \in Among(g) /\ (drop <=> from # at)
            /\ drop => at \notin Among(g) /\ from \in Found(id)
            /\ file.text = g[from].text \/ Past(history[id], g[from].text)
  <2>1. PlanOK(p)
    BY <1>2 DEF FilesAreSafe, PlansFit
  <2> QED BY <1>1, <1>2, <2>1 DEF PlanOK
<1>8. /\ op \in Calls
      /\ Spoils(p) <=> /\ wound[id] = "twin"
                       /\ \E a, z \in Among(g) : ~a.arch /\ z.arch
                       /\ IF at.arch THEN op = "update" \/ at \notin Among(g)
                          ELSE op = "update" /\ \E z \in Among(g) : z.arch /\ g[z].stamp >= file.stamp
  <2>1. op \in Calls
    BY <1>2, AtWork DEF Writes
  <2>2. Homes(id) = Among(g)
    BY DEF Homes, Among
  <2>3. Spoils(p) <=> /\ wound[id] = "twin"
                      /\ \E a, z \in Homes(id) : ~a.arch /\ z.arch
                      /\ IF at.arch THEN op = "update" \/ at \notin Homes(id)
                         ELSE op = "update" /\ \E z \in Homes(id) : z.arch /\ disk[id][z].stamp >= file.stamp
    BY <1>1 DEF Spoils
  <2>4. g = disk[id]
    BY DEF g
  <2> HIDE DEF g
  <2> QED BY <2>1, <2>2, <2>3, <2>4
<1>9. drop => at # from
  BY <1>7, <1>8 DEF Calls, Simple
<1>10. Found(id) \subseteq Among(g) /\ \A pl \in Found(id), q \in Among(g) : pl.arch => q.arch
  BY DEF Found, Homes, Among, Before
\* What the call leaves when it is done.
<1>11. /\ fin[at] = file /\ at \in Among(fin)
       /\ \A pl \in Among(fin) \ {at} : pl \in Among(g) /\ fin[pl] = g[pl] /\ (drop => pl # from)
  BY <1>6, <1>9, Constants DEF Among
\* The copy it replaces is the active one, if there are two.
<1>12. ASSUME op # "touch", wound[id] # "lost", ~Spoils(p)
       PROVE  /\ \/ op = "store" /\ Among(g) = {}
                 \/ /\ from \in Among(g) /\ \A pl \in Among(g) : pl = from \/ (pl.arch /\ ~from.arch)
                    /\ file.text = g[from].text \/ Past(history[id], g[from].text)
              /\ \A z \in Among(fin) \ {at} : /\ ~at.arch /\ z.arch /\ wound[id] = "twin"
                                            /\ g[z].stamp < file.stamp
  <2>1. /\ wound[id] \in {"none", "twin"} /\ \A pl \in Places : pl.arch \in BOOLEAN
        /\ wound[id] = "none" => \A a, b \in Among(g) : a = b
        /\ \A a, b \in Among(g) : a.arch = b.arch => a = b
        /\ Among(g) \subseteq Places
    BY <1>5, <1>12 DEF Sound, Single, Paired, StoreTypeOK, TruthOK, Among, Places
  <2>2. op = "store" \/ (from \in Among(g) /\ (file.text = g[from].text \/ Past(history[id], g[from].text)))
    BY <1>7, <1>8, <1>10, <1>12 DEF Calls, Simple
  <2>3. ASSUME op # "store", NEW pl \in Among(g), pl # from
        PROVE  pl.arch /\ ~from.arch
    <3> SUFFICES ASSUME from.arch, ~pl.arch
                 PROVE  FALSE
      BY <2>1, <2>2, <2>3
    <3>1. wound[id] = "twin"
      BY <2>1, <2>2, <2>3
    <3>2. from \notin Found(id)
      BY <1>10
    <3>3. op = "update" /\ ~drop
      BY <1>7, <1>8, <1>12, <2>3, <3>2 DEF Calls, Simple
    <3> QED BY <1>7, <1>8, <1>12, <2>2, <3>1, <3>3
  <2>4. ASSUME NEW z \in Among(fin) \ {at}
        PROVE  ~at.arch /\ z.arch /\ wound[id] = "twin" /\ g[z].stamp < file.stamp
    <3>1. z \in Among(g) /\ (drop => z # from) /\ z # at
      BY <1>11
    <3>2. op # "store" /\ op \in {"archive", "revive", "update"}
      BY <1>7, <1>8, <1>12, <3>1 DEF Calls, Simple
    <3>3. z # from
      BY <1>7, <3>1, <3>2
    <3>4. z.arch /\ ~from.arch /\ from \in Among(g)
      BY <2>2, <2>3, <3>1, <3>2, <3>3
    <3>5. wound[id] = "twin"
      BY <2>1, <3>1, <3>3, <3>4
    <3>6. ~at.arch
      BY <1>7, <1>8, <1>12, <2>1, <3>1, <3>2, <3>4, <3>5
    <3>7. op = "update"
      BY <1>7, <3>2, <3>4, <3>6
    <3>8. g[z].stamp < file.stamp
      <4>1. ~(g[z].stamp >= file.stamp)
        BY <1>8, <1>12, <3>1, <3>4, <3>5, <3>6, <3>7
      <4>2. g[z].stamp \in Nat /\ file.stamp \in Nat
        BY <1>5, <2>1, <3>1, Constants
      <4> HIDE DEF g
      <4> QED BY <4>1, <4>2
    <3> QED BY <3>4, <3>5, <3>6, <3>8
  <2> HIDE DEF g, fin, op
  <2> QED BY <1>7, <2>2, <2>3, <2>4
\* So it holds what there is to keep, and what the call acknowledges.
<1>13. ASSUME op # "touch", wound[id] # "lost", ~Spoils(p)
       PROVE  /\ \A t \in kept[id] \cup {file.text} : Held(fin, history[id], t)
              /\ wound[id] = "none" => Single(fin)
              /\ wound[id] = "twin" => Paired(fin) /\ id \notin Tenanted
  <2>1. \A z \in Among(fin) : z = at \/ (~at.arch /\ fin[at].stamp > fin[z].stamp)
    <3>1. \A z \in Among(fin) \ {at} : ~at.arch /\ g[z].stamp < file.stamp /\ fin[z] = g[z] /\ z \in Places
      BY <1>11, <1>12, <1>13 DEF Among
    <3>2. file.stamp \in Nat /\ \A z \in Places : g[z].stamp \in Nat
      BY <1>5, Constants
    <3> HIDE DEF fin, g
    <3> QED BY <1>11, <3>1, <3>2
  <2>2. \A t : Past(history[id], t) \/ t = file.text => Held(fin, history[id], t)
    <3> HIDE DEF fin
    <3> QED BY <1>11, <2>1, HeldByNewest
  <2>3. ASSUME NEW t \in kept[id]
        PROVE  Past(history[id], t) \/ t = file.text
    <3>1. Held(g, history[id], t)
      BY <1>5, <1>13, <2>3 DEF Sound
    <3>2. CASE op = "store" /\ Among(g) = {}
      BY <3>1, <3>2 DEF Held
    <3>3. CASE /\ from \in Among(g) /\ \A pl \in Among(g) : pl = from \/ (pl.arch /\ ~from.arch)
               /\ file.text = g[from].text \/ Past(history[id], g[from].text)
      <4>1. Past(history[id], t) \/ g[from].text = t
        BY <3>1, <3>3, HeldThere
      <4> QED BY <3>3, <4>1
    <3> QED BY <1>12, <1>13, <3>2, <3>3
  <2>4. wound[id] = "none" => Single(fin)
    BY <1>12, <1>13 DEF Single
  <2>5. ASSUME wound[id] = "twin"
        PROVE  Paired(fin) /\ id \notin Tenanted
    <3>1. Paired(g) /\ id \notin Tenanted
      BY <1>5, <2>5 DEF Sound
    <3>2. \A z \in Among(fin) \ {at} : ~at.arch /\ z.arch /\ g[z].stamp < file.stamp /\ z \in Among(g) /\ fin[z] = g[z]
      BY <1>11, <1>12, <1>13
    <3>4. Paired(fin)
      BY <3>1, <3>2 DEF Paired
    <3> QED BY <3>1, <3>4
  <2> HIDE DEF fin
  <2> QED BY <2>2, <2>3, <2>4, <2>5
<1>14. new = fin \/ drop
  OBVIOUS
<1>15. ASSUME drop
       PROVE  MoveOK(p)'
  <2>1. After(p)' = fin
    BY <1>1, <1>2, <1>15 DEF After
  <2>2. at # from /\ disk'[id][at] = file
    BY <1>6, <1>9, <1>15
  <2>3. CASE wound'[id] = "lost"
    <3>1. Sound(After(p), id)'
      BY <2>3 DEF Sound
    <3> QED BY <1>1, <1>2, <2>2, <2>3, <3>1 DEF MoveOK
  <2>4. CASE wound'[id] # "lost"
    <3>1. ~Spoils(p) /\ wound' = wound /\ wound[id] # "lost" /\ op # "touch"
      BY <1>2, <1>7, <1>15, <2>4 DEF StoreTypeOK, TruthOK
    <3>2. Sound(After(p), id)'
      <4> HIDE DEF fin
      <4> QED BY <1>2, <1>13, <2>1, <3>1 DEF Sound
    <3>3. Held(After(p), history[id], file.text)'
      <4>1. Held(fin, history[id], file.text)
        BY <1>13, <3>1
      <4> HIDE DEF fin
      <4> QED BY <1>2, <2>1, <4>1
    <3>4. ASSUME wound[id] = "none"
          PROVE  /\ Among(disk'[id]) \subseteq {at, from}
                 /\ \A t \in kept[id] : Past(history[id], t) \/ (t = file.text /\ disk'[id][from].text = t)
      <4>1. Single(fin) /\ at \in Among(fin)
        BY <1>11, <1>13, <3>1, <3>4
      <4>2. \A pl \in Places \ {from} : fin[pl] = disk'[id][pl]
        BY <1>6, <1>15
      <4>3. Among(disk'[id]) \subseteq {at, from}
        BY <4>1, <4>2 DEF Single, Among
      <4>4. from \in Among(g) /\ (file.text = g[from].text \/ Past(history[id], g[from].text))
            /\ \A pl \in Among(g) : pl = from \/ (pl.arch /\ ~from.arch)
        BY <1>7, <1>12, <1>15, <3>1
      <4>5. disk'[id][from] = g[from]
        BY <1>6, <1>9, <1>15
      <4>6. ASSUME NEW t \in kept[id]
            PROVE  Past(history[id], t) \/ (t = file.text /\ disk'[id][from].text = t)
        <5>1. Held(g, history[id], t)
          BY <1>5, <3>1, <4>6 DEF Sound
        <5>2. Past(history[id], t) \/ g[from].text = t
          BY <4>4, <5>1, HeldThere
        <5> QED BY <4>4, <4>5, <5>2
      <4> QED BY <4>3, <4>6
    <3> HIDE DEF fin, g, new, op
    <3> QED BY <1>1, <1>2, <2>2, <3>1, <3>2, <3>3, <3>4 DEF MoveOK
  <2> QED BY <2>3, <2>4
<1>16. ASSUME ~drop
       PROVE  Sound(disk[id], id)' /\ AnswerOK(p)'
  <2>1. CASE wound'[id] = "lost"
    BY <1>1, <1>2, <2>1 DEF Sound, AnswerOK
  <2>2. CASE wound'[id] # "lost" /\ op = "touch"
    <3>1. new = g
      BY <1>5, <1>6, <1>7, <2>2
    <3>2. wound'[id] = wound[id]
      BY <1>2, <2>2 DEF StoreTypeOK, TruthOK
    <3>3. Sound(disk[id], id)'
      BY <1>2, <1>5, <3>1, <3>2, SoundStays
    <3>4. AnswerOK(p)'
      BY <1>2, <2>2 DEF AnswerOK
    <3> QED BY <3>3, <3>4
  <2>3. CASE wound'[id] # "lost" /\ op # "touch"
    <3>1. ~Spoils(p) /\ wound' = wound /\ wound[id] # "lost" /\ fin = disk'[id]
      BY <1>2, <1>14, <1>16, <2>3 DEF StoreTypeOK, TruthOK
    <3>2. Sound(disk[id], id)'
      <4> HIDE DEF fin
      <4> QED BY <1>2, <1>13, <2>3, <3>1 DEF Sound
    <3>3. AnswerOK(p)'
      <4>1. Held(fin, history[id], file.text)
        BY <1>13, <2>3, <3>1
      <4> HIDE DEF fin
      <4> QED BY <1>1, <1>2, <3>1, <4>1 DEF AnswerOK
    <3> QED BY <3>2, <3>3
  <2> QED BY <2>1, <2>2, <2>3
<1>17. JournalIsTrue'
  <2>1. \A i \in Ids : i \in brought' => i \in brought /\ disk'[i][Home] # NoFile
    BY <1>2, <1>6 DEF FilesAreSafe, JournalIsTrue
  <2>2. \A i \in Ids : wound[i] = "lost" => wound'[i] = "lost"
    BY <1>2 DEF StoreTypeOK, TruthOK
  <2>3. pc'[p] # "reconcile" /\ journal' = journal /\ brought' \subseteq brought
    BY <1>2, <1>3
  <2> QED BY <1>3, <1>4, <2>1, <2>2, <2>3, JournalStays DEF FilesAreSafe
<1> QED
  <2>1. ASSUME NEW i \in Ids
        PROVE  (Moving(p)' /\ job'[p].id = i) \/ Sound(disk[i], i)'
    <3>1. CASE i # id
      <4>1. wound'[i] = wound[i]
        BY <1>2, <3>1 DEF StoreTypeOK, TruthOK
      <4> QED BY <1>2, <1>5, <1>6, <3>1, <4>1, SoundStays
    <3>2. CASE i = id
      BY <1>1, <1>2, <1>4, <1>16, <3>2
    <3> QED BY <3>1, <3>2
  <2>2. pc'[p] = "drop" => (Moving(p)' <=> job'[p].op # "forget")
    BY <1>2, <1>3, <1>4, <1>7
  <2>3. pc'[p] = "release" => AnswerOK(p)'
    BY <1>3, <1>16
  <2>4. pc'[p] \notin {"snap", "write"}
    BY <1>3
  <2> QED BY <1>3, <1>4, <1>15, <1>17, <2>1, <2>2, <2>3, <2>4, OneWorks
-----------------------------------------------------------------------------
(* The store.                                                              *)

LEMMA StoreStart == Init => StoreInv
<1> SUFFICES ASSUME Init PROVE StoreInv
  OBVIOUS
<1> USE DEF Init
<1>1. StoreTypeOK /\ NoLaterStamp
  BY TypeStart
<1>2. \A p \in Procs : pc[p] = "idle" /\ job[p] = NoJob /\ plan[p] = NoPlan
  OBVIOUS
<1>3. \A id \in Ids : Among(disk[id]) = {} /\ wound[id] = "none" /\ kept[id] = {}
  BY DEF Among
<1>4. \A id \in Ids : Sound(disk[id], id)
  BY <1>3 DEF Sound, Single
<1>5. LockIsHeld /\ NewIsNew
  BY <1>2 DEF LockIsHeld, Critical, NewIsNew, Early
<1>6. FilesAreSafe
  <2>1. AtRest
    BY <1>4 DEF AtRest
  <2>2. MovesAreSafe /\ PlansFit /\ AnswersAreTrue /\ ImportsAreClean
    BY <1>2 DEF MovesAreSafe, Moving, PlansFit, AnswersAreTrue, ImportsAreClean, Importing
  <2>3. JournalIsTrue
    BY <1>2 DEF JournalIsTrue
  <2> QED BY <2>1, <2>2, <2>3 DEF FilesAreSafe
<1> QED BY <1>1, <1>5, <1>6 DEF StoreInv

\* Every step of every process keeps the files safe.
LEMMA SafeStep ==
    ASSUME StoreTypeOK, NoLaterStamp, LockIsHeld, NewIsNew, FilesAreSafe, Step
    PROVE  FilesAreSafe'
<1>1. CASE Tick
  BY <1>1, CallsWait
<1>2. ASSUME NEW p \in Procs,
             EnsureRecovered(p) \/ ImportBatch(p) \/ Update(p) \/ Acquire(p) \/ SeeStale(p) \/ Steal(p)
             \/ LockTimeout(p) \/ Recover(p)
      PROVE  FilesAreSafe'
  BY <1>2, CallsWait
<1>3. ASSUME NEW p \in Procs, NEW id \in Ids, Get(p, id) PROVE FilesAreSafe'
  BY <1>3, CallsWait
<1>4. ASSUME NEW p \in Procs, NEW id \in Ids, NEW s \in Scopes, Store(p, id, s) PROVE FilesAreSafe'
  BY <1>4, CallsWait
<1>5. ASSUME NEW p \in Procs, NEW id \in Ids, NEW op \in Simple, Call(p, op, id) PROVE FilesAreSafe'
  BY <1>5, CallsWait
<1>6. ASSUME NEW p \in Procs, Look(p) PROVE FilesAreSafe'
  <2>1. CASE Decisions(p) = {}
    BY <1>6, <2>1, CallsWait
  <2>2. CASE Decisions(p) # {}
    BY <1>6, <2>2, LookStep
  <2> QED BY <2>1, <2>2
<1>7. ASSUME NEW p \in Procs, PlanImport(p) PROVE FilesAreSafe'
  <2>1. CASE Absent = {}
    BY <1>7, <2>1, CallsWait
  <2>2. CASE Absent # {}
    BY <1>7, <2>2, PlanImportStep
  <2> QED BY <2>1, <2>2
<1>8. ASSUME NEW p \in Procs, SnapshotHistory(p) PROVE FilesAreSafe'
  BY <1>8, SnapshotStep
<1>9. ASSUME NEW p \in Procs, WriteCached(p) PROVE FilesAreSafe'
  BY <1>9, WriteStep
<1>10. ASSUME NEW p \in Procs, Unlink(p) PROVE FilesAreSafe'
  BY <1>10, UnlinkStep
<1>11. ASSUME NEW p \in Procs, Return(p) PROVE FilesAreSafe'
  BY <1>11, ReturnStep
<1>12. ASSUME NEW p \in Procs, ImportOne(p) PROVE FilesAreSafe'
  BY <1>12, ImportOneStep
<1>13. ASSUME NEW p \in Procs, ImportFails(p) PROVE FilesAreSafe'
  <2>1. Importing(p)
    BY <1>13 DEF ImportFails, Importing, StoreTypeOK, CallsOK, JobOK
  <2> QED BY <1>13, <2>1, ImportTurns DEF ImportFails, Goto
<1>14. ASSUME NEW p \in Procs, ImportDone(p) PROVE FilesAreSafe'
  BY <1>14, ImportDoneStep
<1>15. ASSUME NEW p \in Procs, Undo(p) PROVE FilesAreSafe'
  BY <1>15, UndoStep
<1>16. ASSUME NEW p \in Procs, ReconcileSnapshotImport(p) PROVE FilesAreSafe'
  BY <1>16, RollbackStep
<1>17. ASSUME NEW p \in Procs, Reconcile(p) PROVE FilesAreSafe'
  BY <1>17, ReconcileStep
<1>18. ASSUME NEW p \in Procs, Crash(p) PROVE FilesAreSafe'
  BY <1>18, CutShort DEF Crash, Die
<1>19. ASSUME NEW p \in Procs, Fail(p) PROVE FilesAreSafe'
  BY <1>19, CutShort DEF Fail
<1>20. ASSUME NEW p \in Procs, LeaveOld(p) PROVE FilesAreSafe'
  BY <1>20, LeaveOldStep
<1> QED
  BY <1>1, <1>2, <1>3, <1>4, <1>5, <1>6, <1>7, <1>8, <1>9, <1>10, <1>11, <1>12, <1>13, <1>14, <1>15,
     <1>16, <1>17, <1>18, <1>19, <1>20 DEF Step

LEMMA Unbreached == Step /\ ~breached' => ~breached
<1> SUFFICES ASSUME Step PROVE breached => breached'
  OBVIOUS
<1> USE DEF truth
<1>1. ASSUME NEW p \in Procs,
             EnsureRecovered(p) \/ ImportBatch(p) \/ Update(p) \/ Acquire(p) \/ SeeStale(p) \/ LockTimeout(p)
             \/ Look(p) \/ SnapshotHistory(p) \/ WriteCached(p) \/ Unlink(p) \/ Return(p) \/ Fail(p) \/ LeaveOld(p)
      PROVE  breached' = breached
  BY <1>1 DEF EnsureRecovered, ImportBatch, Ask, Update, Acquire, SeeStale, LockTimeout, Look,
              SnapshotHistory, WriteCached, Unlink, Return, Fail, LeaveOld
<1>2. ASSUME NEW p \in Procs,
             PlanImport(p) \/ ImportOne(p) \/ ImportFails(p) \/ ImportDone(p) \/ Undo(p)
             \/ Recover(p) \/ ReconcileSnapshotImport(p) \/ Reconcile(p) \/ Crash(p)
      PROVE  breached' = breached
  BY <1>2 DEF PlanImport, ImportOne, ImportFails, ImportDone, Undo, Recover, ReconcileSnapshotImport,
              Reconcile, Crash, Die
<1>3. ASSUME NEW p \in Procs, NEW id \in Ids, Get(p, id) \/ (\E s \in Scopes : Store(p, id, s))
                                              \/ (\E op \in Simple : Call(p, op, id))
      PROVE  breached' = breached
  BY <1>3 DEF Get, Store, Call, Ask
<1>4. ASSUME NEW p \in Procs, Steal(p)
      PROVE  breached => breached'
  BY <1>4, Zenon DEF Steal
<1>5. CASE Tick
  BY <1>5 DEF Tick
<1> QED BY <1>1, <1>2, <1>3, <1>4, <1>5 DEF Step

LEMMA StoreStep == StoreInv /\ [Next]_vars => StoreInv'
<1> SUFFICES ASSUME StoreInv, [Next]_vars PROVE StoreInv'
  OBVIOUS
<1>1. StoreTypeOK' /\ NoLaterStamp'
  BY TypeStep DEF StoreInv
<1>2. CASE UNCHANGED vars
  <2>1. ~breached' => LockIsHeld' /\ NewIsNew' /\ FilesAreSafe'
    <3> SUFFICES ASSUME ~breached' PROVE LockIsHeld' /\ NewIsNew' /\ FilesAreSafe'
      OBVIOUS
    <3>1. StoreTypeOK /\ LockIsHeld /\ NewIsNew /\ FilesAreSafe
      BY <1>2 DEF StoreInv, vars
    <3>2. FilesAreSafe'
      BY <1>2, <3>1, QuietStep DEF vars
    <3>3. LockIsHeld' /\ NewIsNew'
      BY <1>2, <3>1 DEF vars, LockIsHeld, NewIsNew, Among
    <3> QED BY <3>2, <3>3
  <2> QED BY <1>1, <2>1 DEF StoreInv
<1>3. CASE Step
  <2> SUFFICES ASSUME ~breached' PROVE LockIsHeld' /\ NewIsNew' /\ FilesAreSafe'
    BY <1>1 DEF StoreInv
  <2>1. ~breached
    BY <1>3, Unbreached
  <2>2. StoreTypeOK /\ NoLaterStamp /\ LockIsHeld /\ NewIsNew /\ FilesAreSafe
    BY <2>1 DEF StoreInv
  <2> QED BY <1>3, <2>2, LockStep, NewStep, SafeStep
<1> QED BY <1>2, <1>3 DEF Next

\* The files of a store, whatever dies when, are what the calls have been told.
THEOREM StoreSafe == Spec => []StoreInv
<1>1. Init => StoreInv
  BY StoreStart
<1>2. StoreInv /\ [Next]_vars => StoreInv'
  BY StoreStep
<1> QED BY <1>1, <1>2, PTL DEF Spec

\* No content that store(), update() or an import has acknowledged goes before
\* the memory is forgotten or the history has forgotten the content.
THEOREM AcknowledgedKept == Spec => []AcknowledgedIsKept
<1>1. StoreInv => AcknowledgedIsKept
  <2> SUFFICES ASSUME StoreInv, ~breached, NEW id \in Ids, wound[id] = "none", NEW t \in kept[id],
                      Len(history[id]) # HistoryLimit
               PROVE  \/ \E pl \in Homes(id) : disk[id][pl].text = t
                      \/ \E i \in DOMAIN history[id] : history[id][i] = t
    BY DEF AcknowledgedIsKept
  <2>1. StoreTypeOK /\ FilesAreSafe
    BY DEF StoreInv
  <2>2. CASE Sound(disk[id], id)
    <3>1. Held(disk[id], history[id], t)
      BY <2>2 DEF Sound
    <3> QED BY <3>1 DEF Held, Past, Homes, Among
  <2>3. ASSUME NEW p \in Procs, Moving(p), job[p].id = id
        PROVE  \/ \E pl \in Homes(id) : disk[id][pl].text = t
               \/ \E i \in DOMAIN history[id] : history[id][i] = t
    <3>1. Held(After(p), history[id], t)
      BY <2>1, <2>3 DEF FilesAreSafe, MovesAreSafe, MoveOK, Sound
    <3>2. \A pl \in Among(After(p)) : pl \in Homes(id) /\ disk[id][pl] = After(p)[pl]
      BY <2>1, <2>3, AtWork DEF Moving, Writes, Among, Homes
    <3> QED BY <3>1, <3>2 DEF Held, Past
  <2> QED BY <2>1, <2>2, <2>3 DEF FilesAreSafe, AtRest
<1> QED BY <1>1, StoreSafe, PTL

\* At rest an id is in one tree, and nothing of an import that did not finish
\* outlives its journal.
THEOREM RecoveryComplete == Spec => []RecoveryIsComplete
<1>1. StoreInv => OneTreeAtRest
  <2> SUFFICES ASSUME StoreInv, ~breached, NEW id \in Ids, wound[id] = "none",
                      \A p \in Procs : ~(Moving(p) /\ job[p].id = id),
                      NEW a \in Homes(id), NEW b \in Homes(id)
               PROVE  a.arch = b.arch
    BY DEF OneTreeAtRest
  <2>1. Single(disk[id])
    BY DEF StoreInv, FilesAreSafe, AtRest, Sound
  <2> QED BY <2>1 DEF Single, Homes, Among
<1>2. StoreInv => ImportLeavesNothing
  BY DEF StoreInv, FilesAreSafe, JournalIsTrue, ImportLeavesNothing
<1> QED BY <1>1, <1>2, StoreSafe, PTL DEF RecoveryIsComplete
=============================================================================
