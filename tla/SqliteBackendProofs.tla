------------------------ MODULE SqliteBackendProofs -------------------------
(***************************************************************************)
(* What the SQLite backend keeps of what it has acknowledged, and of the   *)
(* files it takes over, for any number of processes and memories.          *)
(*                                                                         *)
(* The argument: a call that has written its row and not yet answered has  *)
(* as good as answered.  What is true of the acknowledged versions is      *)
(* therefore claimed of those that are still on their way as well.         *)
(* Of a restore (SqliteRestore), what is in the file's place is known at   *)
(* every file operation from what the journal says and what is under way.  *)
(***************************************************************************)
EXTENDS SqliteBackend, SqliteRestore, TLAPS

Opening == {"closed", "fill", "migrate"}
Editing == {"select", "snapshot", "prune", "swap", "unindex", "reindex", "audit"}
Marking == {"mark", "index", "unindex", "audit"}
Erasing == {"erase1", "erase2", "erase3", "erase4"}

\* What a process knows in each of its calls.
Walks   == [op : {"migrate"}, left : SUBSET Memories]
Stores  == [op : {"store"}, id : Memories]
Updates == [op : {"update"}, id : Memories, copy : Rows, seen : Rows,
            edits : BOOLEAN, guarded : BOOLEAN, text : Contents]
Marks   == [op : {"archive", "revive"}, id : Memories, seen : Rows]
Forgets == [op : {"forget"}, id : Memories]

\* Which call a process may be in, and where.
CallOK(p) ==
    \/ at[p] \in {"closed", "fill", "idle"} /\ call[p] = NoCall
    \/ at[p] = "migrate" /\ call[p] \in Walks
    \/ at[p] \in {"index", "audit"} /\ call[p] \in Stores
    \/ at[p] \in Editing /\ call[p] \in Updates /\ (at[p] # "select" => call[p].seen.ver < MaxRevision)
    \/ at[p] \in Marking /\ call[p] \in Marks
    \/ at[p] \in Erasing /\ call[p] \in Forgets /\ call[p].id \in gone

SqliteTypeOK == /\ rows \in [Memories -> Rows \cup {NoRow}]
                /\ DOMAIN at = Connections /\ DOMAIN call = Connections
                /\ files \subseteq Memories
                /\ acked \in [Memories -> SUBSET ((1 .. MaxRevision) \X Contents)]
                /\ gone \subseteq Memories
                /\ \A p \in Connections : CallOK(p)

\* The row of a call that will be acknowledged is written: what it wrote.
Written(p) == \/ call[p].op = "store"
              \/ call[p].op = "update" /\ at[p] \in {"unindex", "reindex", "audit"}
Wrote(p)   == IF call[p].op = "store" THEN <<1, <<p, 1>>>>
                                      ELSE <<call[p].seen.ver + 1, call[p].text>>

\* The row bears a version that was promised, or a later one.
Kept(id, a) == /\ Has(id) => /\ rows[id].ver >= a[1]
                             /\ rows[id].ver = a[1] => rows[id].text = a[2]
               /\ Has(id) \/ id \in gone

\* What was acknowledged, and what is on its way to be, is kept; and no two of
\* these are of one version.
AckedIsKept   == \A id \in Memories : \A a \in acked[id] : Kept(id, a)
WrittenIsKept == \A p \in Connections : Written(p) => Kept(call[p].id, Wrote(p))
AckedDiffers  == \A id \in Memories : \A a, b \in acked[id] : a[1] = b[1] => a = b
WrittenIsNew  == \A p \in Connections : Written(p) =>
                    /\ \A a \in acked[call[p].id] : a[1] # Wrote(p)[1]
                    /\ \A q \in Connections \ {p} :
                          Written(q) /\ call[q].id = call[p].id => Wrote(q)[1] # Wrote(p)[1]

\* Until the first process is ready nobody calls; from then on no file is left.
FilesComeFirst == files # {} => /\ \A p \in Connections : at[p] \in Opening
                                /\ gone = {} /\ files = Legacy

\* A walk has a file still to come, or its memory has a row, or it was passed over.
WalkIsWhole == \A p \in Connections : at[p] = "migrate" =>
                  \A id \in files : id \in call[p].left \/ Has(id) \/ id \in skipped

SqliteInv == /\ SqliteTypeOK
             /\ AckedIsKept /\ WrittenIsKept /\ AckedDiffers /\ WrittenIsNew
             /\ FilesComeFirst /\ WalkIsWhole /\ LegacyIsNotLost
-----------------------------------------------------------------------------
\* A row is there exactly when it bears a version.
LEMMA RowFacts ==
  /\ \A r \in Rows : r # NoRow /\ r.ver \in 1 .. MaxRevision /\ r.text \in Contents
  /\ \A v \in 1 .. MaxRevision, t \in Contents, a \in BOOLEAN :
        [ver |-> v, text |-> t, arch |-> a] \in Rows
  /\ NoRow.ver = 0
<1>1. \A r \in Rows : r.ver \in 1 .. MaxRevision /\ r.text \in Contents
  BY DEF Rows
<1>2. \A r \in Rows : r # NoRow
  BY <1>1, SqliteAssumption DEF NoRow
<1> QED BY <1>1, <1>2 DEF Rows, NoRow

\* The calls are told apart by their names.
LEMMA CallFacts ==
  /\ NoCall.op = "none"
  /\ \A j \in Walks   : j.op = "migrate"
  /\ \A j \in Stores  : j.op = "store" /\ j.id \in Memories /\ "id" \in DOMAIN j
  /\ \A j \in Updates : /\ j.op = "update" /\ j.id \in Memories /\ "id" \in DOMAIN j
                        /\ j.copy \in Rows /\ j.seen \in Rows /\ j.text \in Contents
  /\ \A j \in Marks   : j.op \in {"archive", "revive"} /\ j.id \in Memories /\ "id" \in DOMAIN j
  /\ \A j \in Forgets : j.op = "forget" /\ j.id \in Memories /\ "id" \in DOMAIN j
  BY DEF NoCall, Walks, Stores, Updates, Marks, Forgets

\* A step of one process that changes no version and no content, acknowledges
\* nothing and brings no call past its write.
LEMMA QuietStep ==
  ASSUME SqliteInv, NEW p \in Connections,
         UNCHANGED <<acked, files, demand>>,
         gone' = gone \/ (files = {} /\ gone \subseteq gone' /\ gone' \subseteq Memories),
         rows' \in [Memories -> Rows \cup {NoRow}],
         \A id \in Memories : /\ rows'[id] = NoRow <=> rows[id] = NoRow
                              /\ rows'[id].ver = rows[id].ver
                              /\ rows'[id].text = rows[id].text,
         DOMAIN at' = Connections, DOMAIN call' = Connections,
         \A q \in Connections \ {p} : at'[q] = at[q] /\ call'[q] = call[q],
         CallOK(p)',
         Written(p)' => Written(p) /\ Wrote(p)' = Wrote(p) /\ call'[p].id = call[p].id,
         at'[p] \in Opening \/ files = {},
         at'[p] = "migrate" => \A id \in files : id \in call'[p].left \/ Has(id) \/ id \in skipped',
         skipped \subseteq skipped'
  PROVE  SqliteInv'
<1> USE DEF SqliteInv
<1>1. gone \subseteq gone' /\ gone' \subseteq Memories
  BY DEF SqliteTypeOK
<1>2. \A q \in Connections \ {p} : /\ CallOK(q) => CallOK(q)'
                                   /\ Written(q)' <=> Written(q)
                                   /\ Wrote(q)' = Wrote(q)
  BY <1>1 DEF CallOK, Written, Wrote
<1>3. SqliteTypeOK'
  BY <1>1, <1>2 DEF SqliteTypeOK
<1>4. \A id \in Memories : Has(id)' <=> Has(id)
  BY DEF Has
<1>5. \A id \in Memories : \A a : Kept(id, a) => Kept(id, a)'
  BY <1>1, <1>4 DEF Kept
<1>6. AckedIsKept' /\ AckedDiffers'
  BY <1>5 DEF AckedIsKept, AckedDiffers
<1>7. \A q \in Connections : Written(q) => call[q].id \in Memories
  BY CallFacts DEF SqliteTypeOK, CallOK, Written
<1>8. \A q \in Connections : Written(q)' => /\ Written(q) /\ Wrote(q)' = Wrote(q)
                                            /\ call'[q].id = call[q].id
  BY <1>2
<1>9. WrittenIsKept'
  <2> SUFFICES ASSUME NEW q \in Connections, Written(q)'
               PROVE  Kept(call[q].id, Wrote(q))'
    BY DEF WrittenIsKept
  <2>1. Kept(call[q].id, Wrote(q)) /\ call[q].id \in Memories
    BY <1>7, <1>8 DEF WrittenIsKept
  <2>2. PICK id, a : id \in Memories /\ id = call[q].id /\ a = Wrote(q)
    BY <2>1
  <2>3. Kept(id, a)'
    BY <1>5, <2>1, <2>2
  <2>4. id = call'[q].id /\ a = Wrote(q)'
    BY <1>8, <2>2
  <2> QED BY <2>3, <2>4 DEF Kept, Has
<1>10. WrittenIsNew'
  BY <1>8 DEF WrittenIsNew
<1>11. FilesComeFirst'
  BY DEF FilesComeFirst, Legacy
<1>12. WalkIsWhole'
  BY <1>4, <1>11 DEF WalkIsWhole, SqliteTypeOK
<1>13. LegacyIsNotLost'
  BY <1>1, <1>4 DEF LegacyIsNotLost, Legacy
<1> QED BY <1>3, <1>6, <1>9, <1>10, <1>11, <1>12, <1>13

\* What a step of p does to the places of the others.
Elsewhere(p) == /\ DOMAIN at' = Connections /\ DOMAIN call' = Connections
                /\ \A q \in Connections \ {p} : at'[q] = at[q] /\ call'[q] = call[q]

LEMMA StaysElsewhere ==
  ASSUME SqliteTypeOK, NEW p \in Connections,
         \/ at' = at
         \/ \E l : Proceed(p, l),
         \/ call' = call
         \/ \E j : call' = [call EXCEPT ![p] = j]
  PROVE  Elsewhere(p)
  BY DEF SqliteTypeOK, Elsewhere, Proceed

\* A call that has ended claims nothing.
LEMMA AnswerStep ==
  ASSUME SqliteTypeOK, NEW p \in Connections, Answer(p)
  PROVE  /\ at'[p] = "idle" /\ call'[p] = NoCall
         /\ CallOK(p)' /\ ~Written(p)' /\ Elsewhere(p)
<1>1. at'[p] = "idle" /\ call'[p] = NoCall
  BY DEF Answer, Proceed, SqliteTypeOK
<1> QED BY <1>1, CallFacts, StaysElsewhere DEF CallOK, Written, Answer

\* A call that goes on with what it knew, and not past its write.
LEMMA OnwardStep ==
  ASSUME SqliteTypeOK, NEW p \in Connections, call' = call, gone' = gone,
         NEW l, Proceed(p, l),
         \/ at[p] = "closed" /\ l = "fill"
         \/ at[p] = "index" /\ l = "audit"
         \/ at[p] = "snapshot" /\ l = "prune"
         \/ at[p] = "prune" /\ l = "swap"
         \/ at[p] = "unindex" /\ l = (IF call[p].op = "update" THEN "reindex" ELSE "audit")
         \/ at[p] = "reindex" /\ l = "audit"
         \/ at[p] = "mark" /\ l \in {"audit", "unindex", "index"}
         \/ at[p] = "erase1" /\ l = "erase2"
         \/ at[p] = "erase2" /\ l = "erase3"
         \/ at[p] = "erase3" /\ l = "erase4"
  PROVE  /\ at'[p] = l /\ call'[p] = call[p]
         /\ CallOK(p)' /\ Elsewhere(p)
         /\ Written(p)' => Written(p) /\ Wrote(p)' = Wrote(p)
<1>1. at'[p] = l /\ CallOK(p)
  BY DEF Proceed, SqliteTypeOK
<1>2. CallOK(p)'
  BY <1>1, CallFacts DEF CallOK, Editing, Marking, Erasing
<1>3. Written(p)' => Written(p)
  BY <1>1, CallFacts DEF CallOK, Written, Editing, Marking, Erasing
<1>4. Elsewhere(p)
  BY StaysElsewhere
<1> QED BY <1>1, <1>2, <1>3, <1>4 DEF Wrote

\* What the steps inside a call, which leave the rows alone, have in common.
Inner(p) == /\ CallOK(p)' /\ Elsewhere(p)
            /\ Written(p)' => Written(p) /\ Wrote(p)' = Wrote(p) /\ call'[p].id = call[p].id
            /\ at'[p] \in Opening \/ at[p] \notin Opening
            /\ at'[p] = "migrate" => \A id \in files : id \in call'[p].left

LEMMA InnerStep ==
  ASSUME SqliteInv, NEW p \in Connections, UNCHANGED demand,
         \/ Open(p) \/ CreateFts(p) \/ InsertFts(p)
         \/ Select(p) \/ KeepVersion(p) \/ PruneHistory(p) \/ DeleteFts(p) \/ Reindex(p)
         \/ EraseIndex(p) \/ EraseAudit(p) \/ EraseVersions(p)
         \/ ProcessDies(p)
  PROVE  SqliteInv'
<1>t. SqliteTypeOK /\ CallOK(p)
  BY DEF SqliteInv, SqliteTypeOK
<1>1. UNCHANGED <<rows, acked, gone, skipped, files, demand>>
  BY DEF Open, CreateFts, InsertFts, Select, KeepVersion, PruneHistory, DeleteFts,
     Reindex, EraseIndex, EraseAudit, EraseVersions, ProcessDies, ghosts
<1>g. SUFFICES Inner(p)
  <2>1. ASSUME Inner(p) PROVE at'[p] \in Opening \/ files = {}
    BY <1>t, <2>1 DEF SqliteInv, FilesComeFirst, Inner
  <2> QED BY <1>t, <1>1, <2>1, QuietStep DEF Inner, Elsewhere, SqliteTypeOK
<1>2. ASSUME Answer(p), at[p] \notin Opening
      PROVE  Inner(p)
  BY <1>2, <1>t, AnswerStep DEF Inner
<1>3. CASE Open(p)
  BY <1>3, <1>t, <1>1, OnwardStep DEF Open, Opening, Inner
<1>4. CASE CreateFts(p)
  <2>1. at'[p] = "migrate" /\ call'[p] = [op |-> "migrate", left |-> files]
    BY <1>4, <1>t DEF CreateFts, Proceed, SqliteTypeOK
  <2>2. call'[p] \in Walks
    BY <2>1, <1>t DEF Walks, SqliteTypeOK
  <2>3. Elsewhere(p)
    BY <1>4, <1>t, StaysElsewhere DEF CreateFts
  <2>4. CallOK(p)' /\ ~Written(p)'
    BY <2>1, <2>2, CallFacts DEF CallOK, Written
  <2> QED BY <2>1, <2>3, <2>4 DEF Opening, Inner
<1>5. CASE InsertFts(p)
  <2>1. CASE Answer(p)
    BY <1>5, <1>2, <2>1 DEF InsertFts, Opening, Inner
  <2>2. CASE Proceed(p, "audit") /\ UNCHANGED call
    BY <1>5, <1>t, <1>1, <2>2, OnwardStep DEF InsertFts, Opening, Inner
  <2> QED BY <1>5, <2>1, <2>2 DEF InsertFts
<1>6. CASE Select(p)
  <2> DEFINE j == call[p]
             row == rows[j.id]
             text == IF j.edits THEN <<p, row.ver + 1>> ELSE j.copy.text
  <2>1. CASE Answer(p)
    BY <1>6, <1>2, <2>1 DEF Select, Opening, Inner
  <2>2. CASE /\ Has(j.id) /\ row.ver # MaxRevision
             /\ call' = [call EXCEPT ![p] = [j EXCEPT !.seen = row, !.text = text]]
             /\ \E l \in {"snapshot", "swap"} : Proceed(p, l)
    <3>1. at[p] = "select" /\ j \in Updates
      BY <1>6, <1>t DEF Select, CallOK, Marking, Erasing
    <3>2. row \in Rows /\ row.ver < MaxRevision
      BY <1>t, <2>2, <3>1, CallFacts, RowFacts, SqliteAssumption DEF Has, SqliteTypeOK
    <3>3. text \in Contents
      BY <3>1, <3>2, CallFacts, RowFacts, SqliteAssumption DEF Contents
    <3>4. call'[p] = [j EXCEPT !.seen = row, !.text = text] /\ at'[p] \in {"snapshot", "swap"}
      BY <1>t, <2>2 DEF Proceed, SqliteTypeOK
    <3> HIDE DEF text, row, j
    <3>5. call'[p] \in Updates /\ call'[p].seen = row
      BY <3>1, <3>2, <3>3, <3>4 DEF Updates
    <3>6. CallOK(p)' /\ ~Written(p)'
      BY <3>2, <3>4, <3>5, CallFacts DEF CallOK, Written, Editing
    <3>7. Elsewhere(p)
      BY <1>t, <2>2, StaysElsewhere
    <3> QED BY <3>1, <3>4, <3>6, <3>7 DEF Opening, Inner
  <2> QED BY <1>6, <2>1, <2>2 DEF Select
<1>7. CASE KeepVersion(p)
  <2>1. CASE Answer(p)
    BY <1>7, <1>2, <2>1 DEF KeepVersion, Opening, Inner
  <2>2. CASE Proceed(p, "prune") /\ UNCHANGED call
    <3>1. at[p] = "snapshot"
      BY <1>7 DEF KeepVersion
    <3> QED BY <1>t, <1>1, <2>2, <3>1, OnwardStep DEF Opening, Inner
  <2> QED BY <1>7, <2>1, <2>2 DEF KeepVersion
<1>8. CASE PruneHistory(p)
  BY <1>8, <1>t, <1>1, OnwardStep DEF PruneHistory, Opening, Inner
<1>9. CASE DeleteFts(p)
  <2> DEFINE l == IF call[p].op = "update" THEN "reindex" ELSE "audit"
  <2>1. at[p] = "unindex" /\ Proceed(p, l) /\ call' = call
    BY <1>9 DEF DeleteFts
  <2>2. CASE call[p].op = "update"
    <3>1. Proceed(p, "reindex")
      BY <2>1, <2>2
    <3> HIDE DEF l
    <3> QED BY <1>t, <1>1, <2>1, <2>2, <3>1, OnwardStep DEF Opening, Inner
  <2>3. CASE call[p].op # "update"
    <3>1. Proceed(p, "audit")
      BY <2>1, <2>3
    <3> HIDE DEF l
    <3> QED BY <1>t, <1>1, <2>1, <2>3, <3>1, OnwardStep DEF Opening, Inner
  <2> QED BY <2>2, <2>3
<1>10. CASE Reindex(p)
  <2>1. CASE Answer(p)
    BY <1>10, <1>2, <2>1 DEF Reindex, Opening, Inner
  <2>2. CASE Proceed(p, "audit") /\ UNCHANGED call
    BY <1>10, <1>t, <1>1, <2>2, OnwardStep DEF Reindex, Opening, Inner
  <2> QED BY <1>10, <2>1, <2>2 DEF Reindex
<1>11. CASE EraseIndex(p)
  <2>1. CASE Answer(p)
    BY <1>11, <1>2, <2>1 DEF EraseIndex, Opening, Inner
  <2>2. CASE Proceed(p, "erase2") /\ UNCHANGED call
    <3>1. at[p] = "erase1"
      BY <1>11 DEF EraseIndex
    <3> QED BY <1>t, <1>1, <2>2, <3>1, OnwardStep DEF Opening, Inner
  <2> QED BY <1>11, <2>1, <2>2 DEF EraseIndex
<1>12. CASE EraseAudit(p)
  <2>1. at[p] = "erase2" /\ Proceed(p, "erase3") /\ call' = call
    BY <1>12 DEF EraseAudit
  <2> QED BY <1>t, <1>1, <2>1, OnwardStep DEF Opening, Inner
<1>13. CASE EraseVersions(p)
  BY <1>13, <1>t, <1>1, OnwardStep DEF EraseVersions, Opening, Inner
<1>14. CASE ProcessDies(p)
  <2>1. at'[p] = "closed" /\ call'[p] = NoCall
    BY <1>14, <1>t DEF ProcessDies, Proceed, SqliteTypeOK
  <2>2. Elsewhere(p)
    BY <1>14, <1>t, StaysElsewhere DEF ProcessDies
  <2> QED BY <2>1, <2>2, CallFacts DEF CallOK, Written, Opening, Inner
<1> QED BY <1>3, <1>4, <1>5, <1>6, <1>7, <1>8, <1>9, <1>10, <1>11, <1>12, <1>13, <1>14
-----------------------------------------------------------------------------
\* A call that begins, when every process is past opening.
LEMMA BeginStep ==
  ASSUME SqliteInv, NEW p \in Connections, NEW j, NEW l, Begin(p, j, l)
  PROVE  /\ at'[p] = l /\ call'[p] = j /\ Elsewhere(p)
         /\ call[p] = NoCall /\ ~Written(p) /\ files = {}
<1>1. SqliteTypeOK /\ CallOK(p) /\ at[p] = "idle"
  BY DEF SqliteInv, SqliteTypeOK, Begin
<1>2. at'[p] = l /\ call'[p] = j
  BY <1>1 DEF Begin, Proceed, SqliteTypeOK
<1>3. call[p] = NoCall
  BY <1>1 DEF CallOK, Editing, Marking, Erasing
<1>4. files = {}
  BY <1>1 DEF SqliteInv, FilesComeFirst, Opening
<1>5. Elsewhere(p)
  BY <1>1, StaysElsewhere DEF Begin
<1> QED BY <1>2, <1>3, <1>4, <1>5, CallFacts DEF Written

\* The calls that begin by reading a row, and the marking of it.
LEMMA ReadStep ==
  ASSUME SqliteInv, NEW p \in Connections, UNCHANGED demand, NEW id \in Memories,
         GetRow(p, id) \/ SetArchived(p, id) \/ Forget(p, id)
  PROVE  SqliteInv'
<1>t. SqliteTypeOK /\ (Has(id) => rows[id] \in Rows)
  BY DEF SqliteInv, SqliteTypeOK, Has
<1>1. CASE GetRow(p, id)
  <2>1. PICK edits, guarded \in BOOLEAN :
           Begin(p, [op |-> "update", id |-> id, copy |-> rows[id], seen |-> rows[id],
                     edits |-> edits, guarded |-> guarded, text |-> rows[id].text], "select")
    BY <1>1 DEF GetRow
  <2>2. /\ at'[p] = "select" /\ Elsewhere(p) /\ files = {}
        /\ call'[p] = [op |-> "update", id |-> id, copy |-> rows[id], seen |-> rows[id],
                       edits |-> edits, guarded |-> guarded, text |-> rows[id].text]
    BY <2>1, BeginStep
  <2>3. call'[p] \in Updates
    BY <1>1, <1>t, <2>2, RowFacts DEF GetRow, Updates
  <2>4. CallOK(p)' /\ ~Written(p)'
    BY <2>2, <2>3, CallFacts DEF CallOK, Written, Editing
  <2>5. UNCHANGED <<rows, acked, gone, skipped, files>>
    BY <1>1 DEF GetRow, ghosts
  <2> QED BY <1>t, <2>2, <2>4, <2>5, QuietStep DEF Elsewhere, SqliteTypeOK
<1>2. CASE SetArchived(p, id)
  <2>1. PICK kind \in {"archive", "revive"} :
           Has(id) /\ Begin(p, [op |-> kind, id |-> id, seen |-> rows[id]], "mark")
    BY <1>2 DEF SetArchived
  <2>2. /\ at'[p] = "mark" /\ Elsewhere(p) /\ files = {}
        /\ call'[p] = [op |-> kind, id |-> id, seen |-> rows[id]]
    BY <2>1, BeginStep
  <2>3. call'[p] \in Marks
    BY <1>t, <2>1, <2>2 DEF Marks
  <2>4. CallOK(p)' /\ ~Written(p)'
    BY <2>2, <2>3, CallFacts DEF CallOK, Written, Marking
  <2>5. UNCHANGED <<rows, acked, gone, skipped, files>>
    BY <1>2 DEF SetArchived, ghosts
  <2> QED BY <1>t, <2>2, <2>4, <2>5, QuietStep DEF Elsewhere, SqliteTypeOK
<1>3. CASE Forget(p, id)
  <2>1. /\ at'[p] = "erase1" /\ Elsewhere(p) /\ files = {}
        /\ call'[p] = [op |-> "forget", id |-> id]
    BY <1>3, BeginStep DEF Forget
  <2>2. UNCHANGED <<rows, acked, skipped, files>> /\ gone' = gone \cup {id}
    BY <1>3 DEF Forget
  <2>3. CallOK(p)' /\ ~Written(p)'
    BY <2>1, <2>2, CallFacts DEF CallOK, Written, Erasing, Forgets
  <2>4. gone \subseteq gone' /\ gone' \subseteq Memories
    BY <1>t, <2>2 DEF SqliteTypeOK
  <2> QED BY <1>t, <2>1, <2>2, <2>3, <2>4, QuietStep DEF Elsewhere, SqliteTypeOK
<1> QED BY <1>1, <1>2, <1>3

LEMMA MarkStep ==
  ASSUME SqliteInv, NEW p \in Connections, UNCHANGED demand, Mark(p)
  PROVE  SqliteInv'
<1>t. SqliteTypeOK /\ CallOK(p)
  BY DEF SqliteInv, SqliteTypeOK
<1> DEFINE m == call[p].id
           marked == IF rows[m] = NoRow THEN rows[m]
                     ELSE [rows[m] EXCEPT !.arch = (call[p].op = "archive")]
<1>1. at[p] = "mark" /\ m \in Memories /\ call[p] \in Marks
  BY <1>t, CallFacts DEF Mark, CallOK, Editing, Erasing
<1>2. PICK l \in {"audit", "unindex", "index"} : Proceed(p, l)
  BY DEF Mark
<1>3. UNCHANGED <<call, acked, gone, skipped, files>>
  BY DEF Mark, ghosts
<1>4. at'[p] = l /\ CallOK(p)' /\ Elsewhere(p) /\ (Written(p)' => Written(p) /\ Wrote(p)' = Wrote(p))
  BY <1>t, <1>1, <1>2, <1>3, OnwardStep
<1>5. rows' = [rows EXCEPT ![m] = marked]
  BY DEF Mark
<1>6. /\ marked \in Rows \cup {NoRow} /\ (marked = NoRow <=> rows[m] = NoRow)
      /\ marked.ver = rows[m].ver /\ marked.text = rows[m].text
  <2>1. CASE rows[m] = NoRow
    BY <2>1
  <2>2. CASE rows[m] \in Rows
    <3>1. rows[m] # NoRow
      BY <2>2, RowFacts
    <3> HIDE DEF m
    <3>2. marked = [rows[m] EXCEPT !.arch = (call[p].op = "archive")]
      BY <3>1
    <3>3. /\ marked \in Rows
          /\ marked.ver = rows[m].ver /\ marked.text = rows[m].text
      BY <2>2, <3>2 DEF Rows
    <3> QED BY <3>1, <3>3, RowFacts
  <2> QED BY <1>t, <1>1, <2>1, <2>2 DEF SqliteTypeOK
<1>7. files = {}
  BY <1>1 DEF SqliteInv, FilesComeFirst, Opening
<1> HIDE DEF m, marked
<1>8. /\ rows' \in [Memories -> Rows \cup {NoRow}]
      /\ \A id \in Memories : /\ rows'[id] = NoRow <=> rows[id] = NoRow
                              /\ rows'[id].ver = rows[id].ver
                              /\ rows'[id].text = rows[id].text
  BY <1>t, <1>1, <1>5, <1>6 DEF SqliteTypeOK
<1> QED BY <1>1, <1>3, <1>4, <1>7, <1>8, QuietStep DEF Elsewhere, SqliteTypeOK
-----------------------------------------------------------------------------
\* What is written but not yet acknowledged.
LEMMA WrittenFacts ==
  ASSUME SqliteTypeOK, NEW q \in Connections, Written(q)
  PROVE  /\ call[q].id \in Memories /\ Wrote(q) \in (1 .. MaxRevision) \X Contents
         /\ at[q] \notin Opening
<1>1. CallOK(q)
  BY DEF SqliteTypeOK
<1>2. CASE call[q] \in Stores
  <2>1. <<q, 1>> \in Contents
    BY SqliteAssumption DEF Contents
  <2>2. Wrote(q) = <<1, <<q, 1>>>> /\ 1 \in 1 .. MaxRevision
    BY <1>2, CallFacts, SqliteAssumption DEF Wrote
  <2>3. at[q] \notin Opening
    BY <1>1, <1>2, CallFacts DEF CallOK, Opening, Editing, Marking, Erasing
  <2> QED BY <1>2, <2>1, <2>2, <2>3, CallFacts
<1>3. CASE call[q] \in Updates /\ at[q] \in Editing /\ call[q].seen.ver < MaxRevision
  <2>1. Wrote(q) = <<call[q].seen.ver + 1, call[q].text>>
    BY <1>3, CallFacts DEF Wrote
  <2>2. call[q].seen.ver + 1 \in 1 .. MaxRevision /\ call[q].text \in Contents
    BY <1>3, CallFacts, RowFacts, SqliteAssumption
  <2>3. at[q] \notin Opening
    BY <1>3 DEF Opening, Editing
  <2> QED BY <1>3, <2>1, <2>2, <2>3, CallFacts
<1> QED BY <1>1, <1>2, <1>3, CallFacts DEF CallOK, Written

\* What the others claim stays as it was.
LEMMA OthersStep ==
  ASSUME SqliteTypeOK, NEW p \in Connections, Elsewhere(p), gone \subseteq gone'
  PROVE  \A q \in Connections \ {p} : /\ CallOK(q)'
                                      /\ Written(q)' <=> Written(q)
                                      /\ Wrote(q)' = Wrote(q) /\ call'[q].id = call[q].id
  BY DEF SqliteTypeOK, Elsewhere, CallOK, Written, Wrote

\* One row is written, with a version above all that were promised.
LEMMA WriteStep ==
  ASSUME SqliteInv, NEW p \in Connections, NEW id \in Memories, NEW r \in Rows,
         UNCHANGED <<acked, gone, files, demand>>,
         rows' = [rows EXCEPT ![id] = r],
         \A a \in acked[id] : a[1] < r.ver,
         \A q \in Connections : Written(q) /\ call[q].id = id => Wrote(q)[1] < r.ver,
         Elsewhere(p), CallOK(p)', ~Written(p),
         Written(p)' => call'[p].id = id /\ Wrote(p)' = <<r.ver, r.text>>,
         at'[p] \in Opening \/ files = {},
         at'[p] = "migrate" => \A i \in files : i \in call'[p].left \/ Has(i)' \/ i \in skipped',
         skipped \subseteq skipped'
  PROVE  SqliteInv'
<1>t. SqliteTypeOK
  BY DEF SqliteInv
<1>r. r \in Rows \cup {NoRow} /\ r # NoRow /\ r.ver \in 1 .. MaxRevision
  BY RowFacts
<1>1. SqliteTypeOK'
  <2>1. \A q \in Connections : CallOK(q)'
    BY <1>t, OthersStep
  <2>2. rows' \in [Memories -> Rows \cup {NoRow}]
    BY <1>t, <1>r DEF SqliteTypeOK
  <2> QED BY <1>t, <2>1, <2>2 DEF SqliteTypeOK, Elsewhere
<1>2. Has(id)' /\ \A i \in Memories : (Has(i) => Has(i)') /\ (i # id => rows'[i] = rows[i])
  BY <1>t, <1>r DEF Has, SqliteTypeOK
<1>3. \A i \in Memories \ {id} : \A a : Kept(i, a) => Kept(i, a)'
  BY <1>2 DEF Kept, Has
<1>4. \A a : a[1] < r.ver /\ a[1] \in 1 .. MaxRevision => Kept(id, a)'
  BY <1>t, <1>r, <1>2, SqliteAssumption DEF Kept, SqliteTypeOK
<1>5. AckedIsKept'
  <2>1. \A i \in Memories : \A a \in acked[i] : a[1] \in 1 .. MaxRevision
    BY <1>t DEF SqliteTypeOK
  <2> QED BY <1>3, <1>4, <2>1 DEF SqliteInv, AckedIsKept
<1>6. WrittenIsKept'
  <2> SUFFICES ASSUME NEW q \in Connections, Written(q)'
               PROVE  Kept(call[q].id, Wrote(q))'
    BY DEF WrittenIsKept
  <2>1. CASE q = p
    <3>1. Kept(id, <<r.ver, r.text>>)'
      BY <1>t, <1>r, <1>2, SqliteAssumption DEF Kept, SqliteTypeOK
    <3> QED BY <2>1, <3>1 DEF Kept, Has
  <2>2. CASE q # p
    <3>1. Written(q) /\ Wrote(q)' = Wrote(q) /\ call'[q].id = call[q].id
      BY <1>t, <2>2, OthersStep
    <3>2. PICK i \in Memories, a \in (1 .. MaxRevision) \X Contents : i = call[q].id /\ a = Wrote(q)
      BY <1>t, <3>1, WrittenFacts
    <3>3. Kept(i, a) /\ (i = id => a[1] < r.ver)
      BY <3>1, <3>2 DEF SqliteInv, WrittenIsKept
    <3>4. Kept(i, a)'
      BY <1>3, <1>4, <3>3
    <3> QED BY <3>1, <3>2, <3>4 DEF Kept, Has
  <2> QED BY <2>1, <2>2
<1>7. AckedDiffers'
  BY DEF SqliteInv, AckedDiffers
<1>8. WrittenIsNew'
  <2>1. \A q \in Connections \ {p} : Written(q)' =>
           /\ Written(q) /\ Wrote(q)' = Wrote(q) /\ call'[q].id = call[q].id
           /\ Wrote(q)[1] \in 1 .. MaxRevision
    BY <1>t, OthersStep, WrittenFacts
  <2>2. Written(p)' => Wrote(p)'[1] = r.ver
    BY SMT
  <2>3. \A i \in Memories : \A a \in acked[i] : a[1] \in 1 .. MaxRevision
    BY <1>t DEF SqliteTypeOK
  <2> SUFFICES ASSUME NEW q \in Connections, Written(q)'
               PROVE  /\ \A a \in acked[call'[q].id] : a[1] # Wrote(q)'[1]
                      /\ \A k \in Connections \ {q} :
                            Written(k)' /\ call'[k].id = call'[q].id => Wrote(k)'[1] # Wrote(q)'[1]
    BY DEF WrittenIsNew
  <2>4. CASE q = p
    BY <1>r, <2>1, <2>2, <2>3, <2>4
  <2>5. CASE q # p
    <3>1. \A a \in acked[call'[q].id] : a[1] # Wrote(q)'[1]
      BY <2>1, <2>5 DEF SqliteInv, WrittenIsNew
    <3>2. \A k \in Connections \ {q} : k # p /\ Written(k)' /\ call'[k].id = call'[q].id
             => Wrote(k)'[1] # Wrote(q)'[1]
      BY <2>1, <2>5 DEF SqliteInv, WrittenIsNew
    <3>3. Written(p)' /\ call'[p].id = call'[q].id => Wrote(p)'[1] # Wrote(q)'[1]
      BY <1>r, <2>1, <2>2, <2>5
    <3> QED BY <3>1, <3>2, <3>3
  <2> QED BY <2>4, <2>5
<1>9. FilesComeFirst'
  BY DEF SqliteInv, FilesComeFirst, Legacy, Elsewhere
<1>10. WalkIsWhole'
  BY <1>t, <1>2 DEF SqliteInv, WalkIsWhole, Elsewhere, SqliteTypeOK
<1>11. LegacyIsNotLost'
  BY <1>2 DEF SqliteInv, LegacyIsNotLost, Legacy
<1> QED BY <1>1, <1>5, <1>6, <1>7, <1>8, <1>9, <1>10, <1>11 DEF SqliteInv

\* store() writes a row nobody has heard of.
LEMMA InsertStep ==
  ASSUME SqliteInv, NEW p \in Connections, UNCHANGED demand, NEW id \in Memories, InsertRow(p, id)
  PROVE  SqliteInv'
<1> DEFINE r == [ver |-> 1, text |-> <<p, 1>>, arch |-> FALSE]
<1>1. /\ at'[p] = "index" /\ call'[p] = [op |-> "store", id |-> id]
      /\ Elsewhere(p) /\ ~Written(p) /\ files = {}
  BY BeginStep DEF InsertRow
<1>2. UNCHANGED <<acked, gone, skipped, files>> /\ acked[id] = {} /\ rows' = [rows EXCEPT ![id] = r]
  BY DEF InsertRow, ghosts
<1>3. r \in Rows /\ r.ver = 1 /\ r.text = <<p, 1>>
  BY SqliteAssumption DEF Rows, Contents
<1>4. \A q \in Connections : Written(q) => call[q].id # id
  BY CallFacts DEF SqliteInv, SqliteTypeOK, CallOK, Written, InsertRow
<1>5. CallOK(p)' /\ call'[p].id = id /\ Wrote(p)' = <<1, <<p, 1>>>>
  BY <1>1 DEF CallOK, Stores, Wrote
<1> HIDE DEF r
<1> QED BY <1>1, <1>2, <1>3, <1>4, <1>5, WriteStep

\* While files are left nothing is promised: their rows are the first ones.
LEMMA MigrateStep ==
  ASSUME SqliteInv, NEW p \in Connections, UNCHANGED demand, MigrateOne(p)
  PROVE  SqliteInv'
<1>t. SqliteTypeOK /\ at[p] = "migrate" /\ call[p] \in Walks
  BY CallFacts DEF MigrateOne, SqliteInv, SqliteTypeOK, CallOK, Editing, Marking, Erasing
<1> DEFINE migrated(i) == [rows EXCEPT ![i] = [NoRow EXCEPT !.ver = 1]]
<1>1. PICK id \in call[p].left :
        /\ call' = [call EXCEPT ![p].left = @ \ {id}]
        /\ \/ /\ rows' = IF id \in files /\ ~Has(id) THEN migrated(id) ELSE rows
              /\ skipped' = skipped
           \/ skipped' = skipped \cup {id} /\ rows' = rows
  BY DEF MigrateOne
<1>2. UNCHANGED <<at, files, gone, acked>> /\ skipped \subseteq skipped'
  BY DEF MigrateOne, ghosts
<1>3. id \in Memories /\ call[p].left \subseteq Memories
  BY <1>t DEF Walks
<1>4. call'[p] = [op |-> "migrate", left |-> call[p].left \ {id}]
  BY <1>t, <1>1 DEF Walks, SqliteTypeOK
<1>5. Elsewhere(p)
  BY <1>t, <1>1, <1>2 DEF Elsewhere, SqliteTypeOK
<1>6. CallOK(p)' /\ ~Written(p) /\ ~Written(p)' /\ at'[p] \in Opening
  BY <1>t, <1>2, <1>3, <1>4, CallFacts DEF CallOK, Walks, Written, Opening
<1>7. \A i \in files : i # id => i \in call'[p].left \/ Has(i) \/ i \in skipped'
  BY <1>t, <1>2, <1>4 DEF SqliteInv, WalkIsWhole
<1>8. CASE /\ id \in files /\ ~Has(id)
           /\ rows' = migrated(id)
  <2> DEFINE r == [NoRow EXCEPT !.ver = 1]
  <2>1. NoRow = [ver |-> 0, text |-> NoRow.text, arch |-> FALSE] /\ NoRow.text \in Contents
    <3>1. PICK t : t = <<"legacy", 1>>
      OBVIOUS
    <3>2. t \in Contents
      BY <3>1, SqliteAssumption DEF Contents
    <3>3. NoRow = [ver |-> 0, text |-> t, arch |-> FALSE]
      BY <3>1 DEF NoRow
    <3> QED BY <3>2, <3>3
  <2>2. r \in Rows
    <3>1. PICK n \in [ver : {0}, text : Contents, arch : BOOLEAN] : n = NoRow
      BY <2>1
    <3>2. r = [n EXCEPT !.ver = 1] /\ 1 \in 1 .. MaxRevision
      BY <3>1, SqliteAssumption
    <3> HIDE DEF r
    <3> QED BY <3>2 DEF Rows
  <2>3. acked[id] = {} /\ \A q \in Connections : ~Written(q)
    <3>1. gone = {} /\ \A q \in Connections : at[q] \in Opening
      BY <1>8 DEF SqliteInv, FilesComeFirst
    <3>2. \A q \in Connections : ~Written(q)
      BY <1>t, <3>1, WrittenFacts
    <3> QED BY <1>3, <1>8, <3>1, <3>2 DEF SqliteInv, AckedIsKept, Kept
  <2>4. rows' = [rows EXCEPT ![id] = r]
    BY <1>1, <1>8
  <2>5. r # NoRow
    BY <2>2, RowFacts
  <2> HIDE DEF r
  <2>6. \A i \in files : i \in call'[p].left \/ Has(i)' \/ i \in skipped'
    BY <1>t, <1>3, <1>7, <2>4, <2>5 DEF Has, SqliteTypeOK
  <2> QED BY <1>2, <1>3, <1>5, <1>6, <2>2, <2>3, <2>4, <2>6, WriteStep
<1>9. CASE /\ rows' = rows
           /\ ~(id \in files /\ ~Has(id)) \/ id \in skipped'
  <2>1. \A i \in files : i \in call'[p].left \/ Has(i) \/ i \in skipped'
    BY <1>7, <1>9
  <2>2. rows' = rows
    BY <1>9
  <2> QED BY <1>t, <1>2, <1>5, <1>6, <2>1, <2>2, QuietStep DEF Elsewhere, SqliteTypeOK
<1> HIDE DEF migrated
<1> QED BY <1>1, <1>8, <1>9

\* update() writes when the row bears the version it started from, and all
\* that was promised is of that version or an earlier one.
LEMMA SwapStep ==
  ASSUME SqliteInv, NEW p \in Connections, UNCHANGED demand, CompareAndSwap(p)
  PROVE  SqliteInv'
<1> DEFINE j == call[p]
           r == [ver |-> j.seen.ver + 1, text |-> j.text, arch |-> j.copy.arch]
<1>t. SqliteTypeOK /\ at[p] = "swap" /\ j \in Updates /\ j.seen.ver < MaxRevision
  BY CallFacts DEF CompareAndSwap, SqliteInv, SqliteTypeOK, CallOK, Editing, Marking, Erasing
<1>1. UNCHANGED <<acked, gone, skipped, files>> /\ ~Written(p) /\ files = {} /\ j.id \in Memories
  BY <1>t, CallFacts DEF CompareAndSwap, ghosts, Written, SqliteInv, FilesComeFirst, Opening
<1>2. CASE rows' = rows /\ Answer(p)
  BY <1>t, <1>1, <1>2, AnswerStep, QuietStep DEF Elsewhere, SqliteTypeOK
<1>3. CASE /\ rows[j.id].ver = j.seen.ver /\ rows' = [rows EXCEPT ![j.id] = r] /\ call' = call
           /\ \E l \in {"unindex", "audit"} : Proceed(p, l)
  <2>1. at'[p] \in {"unindex", "audit"} /\ Elsewhere(p)
    BY <1>t, <1>3, StaysElsewhere DEF Proceed, SqliteTypeOK
  <2>2. /\ j.seen.ver \in 1 .. MaxRevision /\ j.seen.ver + 1 \in 1 .. MaxRevision
        /\ j.text \in Contents /\ j.copy.arch \in BOOLEAN
    BY <1>t, CallFacts, RowFacts, SqliteAssumption DEF Rows
  <2>3. r \in Rows /\ r.ver = j.seen.ver + 1 /\ r.text = j.text
    BY <2>2, RowFacts
  <2>4. CallOK(p)' /\ Wrote(p)' = <<r.ver, r.text>> /\ call'[p].id = j.id
    BY <1>t, <1>3, <2>1, <2>3, CallFacts DEF CallOK, Wrote, Editing
  <2>5. Has(j.id)
    BY <1>3, <2>2, RowFacts DEF Has
  <2>6. \A a : a[1] \in Nat /\ Kept(j.id, a) => a[1] < r.ver
    BY <1>3, <2>2, <2>3, <2>5, SqliteAssumption DEF Kept
  <2>7. \A a \in acked[j.id] : a[1] < r.ver
    BY <1>t, <1>1, <2>6 DEF SqliteInv, AckedIsKept, SqliteTypeOK
  <2>8. \A q \in Connections : Written(q) /\ call[q].id = j.id => Wrote(q)[1] < r.ver
    BY <1>t, <2>6, WrittenFacts DEF SqliteInv, WrittenIsKept
  <2>9. rows' = [rows EXCEPT ![j.id] = r]
    BY <1>3
  <2>10. at'[p] # "migrate"
    BY <2>1
  <2> HIDE DEF r
  <2> QED BY <1>1, <2>1, <2>3, <2>4, <2>7, <2>8, <2>9, <2>10, WriteStep
<1> QED BY <1>2, <1>3 DEF CompareAndSwap, Unmoved

\* What was on its way is acknowledged: the claim is the same.
LEMMA AuditStep ==
  ASSUME SqliteInv, NEW p \in Connections, UNCHANGED demand, Audit(p)
  PROVE  SqliteInv'
<1> DEFINE id == call[p].id
<1>t. SqliteTypeOK /\ at[p] = "audit" /\ id \in Memories
  BY CallFacts DEF Audit, SqliteInv, SqliteTypeOK, CallOK, Editing, Marking, Erasing
<1>1. UNCHANGED <<rows, gone, skipped, files>> /\ files = {}
  BY <1>t DEF Audit, SqliteInv, FilesComeFirst, Opening
<1>2. at'[p] = "idle" /\ CallOK(p)' /\ ~Written(p)' /\ Elsewhere(p)
  BY <1>t, AnswerStep DEF Audit
<1>3. CASE acked' = acked
  BY <1>t, <1>1, <1>2, <1>3, QuietStep DEF Elsewhere, SqliteTypeOK
<1>4. CASE Written(p) /\ acked' = [acked EXCEPT ![id] = @ \cup {Wrote(p)}]
  <2>1. \A i \in Memories : \A a \in acked'[i] : a \in acked[i] \/ (i = id /\ a = Wrote(p))
    BY <1>t, <1>4 DEF SqliteTypeOK
  <2>2. Wrote(p) \in (1 .. MaxRevision) \X Contents
    BY <1>t, <1>4, WrittenFacts
  <2>3. SqliteTypeOK'
    <3>1. \A q \in Connections : CallOK(q)'
      BY <1>t, <1>1, <1>2, OthersStep
    <3>2. acked' \in [Memories -> SUBSET ((1 .. MaxRevision) \X Contents)]
      BY <1>t, <1>4, <2>2 DEF SqliteTypeOK
    <3> QED BY <1>t, <1>1, <1>2, <3>1, <3>2 DEF SqliteTypeOK, Elsewhere
  <2>4. \A i, a : Kept(i, a)' <=> Kept(i, a)
    BY <1>1 DEF Kept, Has
  <2>5. AckedIsKept'
    BY <1>4, <2>1, <2>4 DEF SqliteInv, AckedIsKept, WrittenIsKept
  <2>6. \A q \in Connections : Written(q)' =>
           q # p /\ Written(q) /\ Wrote(q)' = Wrote(q) /\ call'[q].id = call[q].id
    BY <1>t, <1>1, <1>2, OthersStep
  <2>7. WrittenIsKept'
    <3> SUFFICES ASSUME NEW q \in Connections, Written(q)'
                 PROVE  Kept(call[q].id, Wrote(q))'
      BY DEF WrittenIsKept
    <3>1. PICK i, a : i = call[q].id /\ a = Wrote(q)
      OBVIOUS
    <3>2. Kept(i, a)'
      BY <2>4, <2>6, <3>1 DEF SqliteInv, WrittenIsKept
    <3> QED BY <2>6, <3>1, <3>2 DEF Kept, Has
  <2>8. AckedDiffers'
    BY <1>4, <2>1 DEF SqliteInv, AckedDiffers, WrittenIsNew
  <2>9. WrittenIsNew'
    <3> SUFFICES ASSUME NEW q \in Connections, Written(q)'
                 PROVE  /\ \A a \in acked'[call'[q].id] : a[1] # Wrote(q)'[1]
                        /\ \A k \in Connections \ {q} :
                              Written(k)' /\ call'[k].id = call'[q].id => Wrote(k)'[1] # Wrote(q)'[1]
      BY DEF WrittenIsNew
    <3>1. q # p /\ Written(q) /\ Wrote(q)' = Wrote(q) /\ call'[q].id = call[q].id
      BY <2>6
    <3>2. call[q].id \in Memories
      BY <1>t, <3>1, WrittenFacts
    <3>3. \A a \in acked'[call'[q].id] : a[1] # Wrote(q)'[1]
      BY <1>4, <2>1, <3>1, <3>2 DEF SqliteInv, WrittenIsNew
    <3> QED BY <2>6, <3>1, <3>3 DEF SqliteInv, WrittenIsNew
  <2>10. FilesComeFirst' /\ WalkIsWhole'
    BY <1>1 DEF FilesComeFirst, WalkIsWhole
  <2>11. LegacyIsNotLost'
    BY <1>1 DEF SqliteInv, LegacyIsNotLost, Legacy, Has
  <2> QED BY <2>3, <2>5, <2>7, <2>8, <2>9, <2>10, <2>11 DEF SqliteInv
<1>5. acked' = acked \/ (Written(p) /\ acked' = [acked EXCEPT ![id] = @ \cup {Wrote(p)}])
  BY <1>t DEF Audit, Written, Wrote
<1> QED BY <1>3, <1>4, <1>5

\* When the walk is over, every file has its row: the files may go.
LEMMA ReadyStep ==
  ASSUME SqliteInv, NEW p \in Connections, UNCHANGED demand, Ready(p)
  PROVE  SqliteInv'
<1>t. SqliteTypeOK
  BY DEF SqliteInv
<1>1. UNCHANGED <<rows, acked, gone, skipped>> /\ files' = {} /\ Answer(p)
  BY DEF Ready, ghosts
<1>2. \A id \in files : Has(id) \/ id \in skipped
  BY DEF SqliteInv, WalkIsWhole, Ready, Migrated
<1>3. CallOK(p)' /\ ~Written(p)' /\ Elsewhere(p)
  BY <1>t, <1>1, AnswerStep
<1>4. \A q \in Connections : CallOK(q)' /\ (Written(q)' =>
         Written(q) /\ Wrote(q)' = Wrote(q) /\ call'[q].id = call[q].id)
  BY <1>t, <1>1, <1>3, OthersStep
<1>5. SqliteTypeOK'
  BY <1>t, <1>1, <1>3, <1>4 DEF SqliteTypeOK, Elsewhere
<1>6. \A i, a : Kept(i, a)' <=> Kept(i, a)
  BY <1>1 DEF Kept, Has
<1>7. AckedIsKept' /\ AckedDiffers'
  BY <1>1, <1>6 DEF SqliteInv, AckedIsKept, AckedDiffers
<1>8. WrittenIsKept'
  <2> SUFFICES ASSUME NEW q \in Connections, Written(q)'
               PROVE  Kept(call[q].id, Wrote(q))'
    BY DEF WrittenIsKept
  <2>1. PICK i, a : i = call[q].id /\ a = Wrote(q)
    OBVIOUS
  <2>2. Kept(i, a)'
    BY <1>4, <1>6, <2>1 DEF SqliteInv, WrittenIsKept
  <2> QED BY <1>4, <2>1, <2>2 DEF Kept, Has
<1>9. WrittenIsNew'
  BY <1>1, <1>4 DEF SqliteInv, WrittenIsNew
<1>10. FilesComeFirst' /\ WalkIsWhole'
  BY <1>1 DEF FilesComeFirst, WalkIsWhole
<1>11. LegacyIsNotLost'
  BY <1>1, <1>2 DEF SqliteInv, LegacyIsNotLost, Legacy, Has
<1> QED BY <1>5, <1>7, <1>8, <1>9, <1>10, <1>11 DEF SqliteInv

\* The memory forget() began with is known to be gone.
LEMMA EraseStep ==
  ASSUME SqliteInv, NEW p \in Connections, UNCHANGED demand, EraseRow(p)
  PROVE  SqliteInv'
<1> DEFINE id == call[p].id
<1>t. SqliteTypeOK /\ at[p] = "erase4" /\ id \in Memories /\ id \in gone
  BY CallFacts DEF EraseRow, SqliteInv, SqliteTypeOK, CallOK, Editing, Marking
<1>1. UNCHANGED <<acked, gone, skipped, files>> /\ files = {}
  BY <1>t DEF EraseRow, ghosts, SqliteInv, FilesComeFirst, Opening
<1>2. at'[p] = "idle" /\ CallOK(p)' /\ ~Written(p)' /\ Elsewhere(p)
  BY <1>t, AnswerStep DEF EraseRow
<1>3. CASE rows' = rows
  BY <1>t, <1>1, <1>2, <1>3, QuietStep DEF Elsewhere, SqliteTypeOK
<1>4. CASE rows' = [rows EXCEPT ![id] = NoRow]
  <2>1. \A q \in Connections : CallOK(q)' /\ (Written(q)' =>
           Written(q) /\ Wrote(q)' = Wrote(q) /\ call'[q].id = call[q].id)
    BY <1>t, <1>1, <1>2, OthersStep
  <2>2. SqliteTypeOK'
    <3>1. rows' \in [Memories -> Rows \cup {NoRow}]
      BY <1>t, <1>4 DEF SqliteTypeOK
    <3> QED BY <1>t, <1>1, <1>2, <2>1, <3>1 DEF SqliteTypeOK, Elsewhere
  <2>3. \A i \in Memories : rows'[i] = IF i = id THEN NoRow ELSE rows[i]
    BY <1>t, <1>4 DEF SqliteTypeOK
  <2>4. \A i \in Memories : \A a : Kept(i, a) => Kept(i, a)'
    BY <1>t, <1>1, <2>3 DEF Kept, Has
  <2>5. AckedIsKept' /\ AckedDiffers'
    BY <1>1, <2>4 DEF SqliteInv, AckedIsKept, AckedDiffers
  <2>6. WrittenIsKept'
    <3> SUFFICES ASSUME NEW q \in Connections, Written(q)'
                 PROVE  Kept(call[q].id, Wrote(q))'
      BY DEF WrittenIsKept
    <3>1. PICK i, a : i \in Memories /\ i = call[q].id /\ a = Wrote(q)
      BY <1>t, <2>1, WrittenFacts
    <3>2. Kept(i, a)'
      BY <2>1, <2>4, <3>1 DEF SqliteInv, WrittenIsKept
    <3> QED BY <2>1, <3>1, <3>2 DEF Kept, Has
  <2>7. WrittenIsNew'
    BY <1>1, <2>1 DEF SqliteInv, WrittenIsNew
  <2>8. FilesComeFirst' /\ WalkIsWhole'
    BY <1>1 DEF FilesComeFirst, WalkIsWhole
  <2>9. LegacyIsNotLost'
    BY <1>t, <1>1, <2>3 DEF SqliteInv, LegacyIsNotLost, Legacy, Has, SqliteTypeOK
  <2> QED BY <2>2, <2>5, <2>6, <2>7, <2>8, <2>9 DEF SqliteInv
<1> QED BY <1>3, <1>4 DEF EraseRow
-----------------------------------------------------------------------------
LEMMA SqliteStepKeeps ==
  ASSUME SqliteInv, SqliteNext
  PROVE  SqliteInv'
<1>1. PICK p \in Connections :
        \/ Open(p) \/ CreateFts(p) \/ MigrateOne(p) \/ Ready(p)
        \/ \E id \in Memories : InsertRow(p, id) \/ GetRow(p, id) \/ SetArchived(p, id) \/ Forget(p, id)
        \/ InsertFts(p) \/ Audit(p)
        \/ Select(p) \/ KeepVersion(p) \/ PruneHistory(p) \/ CompareAndSwap(p) \/ DeleteFts(p) \/ Reindex(p)
        \/ Mark(p)
        \/ EraseIndex(p) \/ EraseAudit(p) \/ EraseVersions(p) \/ EraseRow(p)
        \/ ProcessDies(p)
  BY DEF SqliteNext, SqliteStep
<1>2. UNCHANGED demand
  BY DEF SqliteNext
<1> QED BY <1>1, <1>2, InnerStep, ReadStep, MarkStep, InsertStep, MigrateStep, SwapStep,
           AuditStep, ReadyStep, EraseStep

LEMMA SqliteStarts ==
  ASSUME SqliteInit
  PROVE  SqliteInv
<1>1. \A p \in Connections : at[p] = "closed" /\ call[p] = NoCall /\ ~Written(p)
  BY CallFacts DEF SqliteInit, Written
<1>2. SqliteTypeOK
  BY <1>1 DEF SqliteInit, SqliteTypeOK, CallOK, Legacy
<1>3. WrittenIsKept /\ WrittenIsNew
  BY <1>1 DEF WrittenIsKept, WrittenIsNew
<1>4. AckedIsKept /\ AckedDiffers
  BY DEF SqliteInit, AckedIsKept, AckedDiffers
<1>5. FilesComeFirst /\ WalkIsWhole /\ LegacyIsNotLost
  BY <1>1 DEF SqliteInit, FilesComeFirst, WalkIsWhole, LegacyIsNotLost, Legacy, Opening
<1> QED BY <1>2, <1>3, <1>4, <1>5 DEF SqliteInv

\* The inductive invariant: every promise, given or about to be, is kept, and
\* the files of the file backend go after their rows have come.
THEOREM SqliteSafe == SqliteSpec => []SqliteInv
<1>1. SqliteInit => SqliteInv
  BY SqliteStarts
<1>2. SqliteInv /\ [SqliteNext]_sqliteVars => SqliteInv'
  <2> SUFFICES ASSUME SqliteInv, UNCHANGED sqliteVars
               PROVE  SqliteInv'
    BY SqliteStepKeeps
  <2> USE DEF sqliteVars
  <2>1. \A p \in Connections : /\ CallOK(p)' <=> CallOK(p)
                               /\ Written(p)' <=> Written(p)
                               /\ Wrote(p)' = Wrote(p)
    BY DEF CallOK, Written, Wrote
  <2>2. SqliteTypeOK'
    BY <2>1 DEF SqliteInv, SqliteTypeOK
  <2>3. WrittenIsKept' /\ WrittenIsNew'
    BY <2>1 DEF SqliteInv, WrittenIsKept, WrittenIsNew, Kept, Has
  <2>4. AckedIsKept' /\ AckedDiffers'
    BY DEF SqliteInv, AckedIsKept, AckedDiffers, Kept, Has
  <2>5. FilesComeFirst' /\ WalkIsWhole' /\ LegacyIsNotLost'
    BY DEF SqliteInv, FilesComeFirst, WalkIsWhole, LegacyIsNotLost, Legacy, Has
  <2> QED BY <2>2, <2>3, <2>4, <2>5 DEF SqliteInv
<1> QED BY <1>1, <1>2, PTL DEF SqliteSpec

\* The compare-and-swap of update(): what was acknowledged is replaced by later
\* versions only, and no version is acknowledged twice, with any number of
\* processes between any two statements.
THEOREM AckedWins == SqliteSpec => []AcknowledgedWins
<1>1. SqliteInv => AcknowledgedWins
  BY DEF SqliteInv, AckedIsKept, AckedDiffers, AcknowledgedWins, Kept
<1> QED BY <1>1, SqliteSafe, PTL

\* Taking over the files of the file backend loses none but those it passes over,
\* however many processes do it at once and wherever they die.
THEOREM LegacyKept == SqliteSpec => []LegacyIsNotLost
<1>1. SqliteInv => LegacyIsNotLost
  BY DEF SqliteInv
<1> QED BY <1>1, SqliteSafe, PTL
-----------------------------------------------------------------------------
(* A backup put back, and a restore cut short (SqliteRestore).             *)

Databases == Nat
Restoring == [k : Restores, keep : BOOLEAN, moved : BOOLEAN, source : Databases]
Starting  == [k : Restores, staged : BOOLEAN, rollback : BOOLEAN]
Journals  == [k : Restores, phase : {"prepared", "previous-moved"}]

RestoreSteps   == {"prepare", "move", "moved", "publish", "confirm", "unlink", "undo", "forget"}
ReconcileSteps == {"keep", "aside", "choose", "settle"}

RestoreTypeOK ==
    /\ target \in Databases \cup {None} /\ rollback \in Databases \cup {None}
    /\ backup \in Databases \cup {None} /\ temp \in [Restores -> Databases \cup {None}]
    /\ restoreJournal \in Journals \cup {None}
    /\ step \in {"idle"} \cup RestoreSteps \cup ReconcileSteps
    /\ step = "idle" => op = None
    /\ step \in RestoreSteps => op \in Restoring
    /\ step \in ReconcileSteps => op \in Starting
    /\ up \in BOOLEAN /\ version \in Databases /\ errors \in Nat
    /\ old \in Databases \cup {None} /\ told \in Databases \cup {None} /\ refused \in Nat
    /\ stranded \in BOOLEAN

\* The database is in its place, or was moved aside under a journal that says so
\* to the next start, or by a restore that could not move it back; a server runs
\* only on one that is in its place.
SomewhereSafe ==
    /\ target = None => rollback # None /\ (restoreJournal # None \/ stranded)
    /\ up => step = "idle" /\ target # None /\ restoreJournal = None

\* A restore: what it has staged is there until it is published, its journal
\* until it ends, and one that keeps nothing has no journal and moves nothing.
RestoreRuns ==
    step \in RestoreSteps =>
       /\ told = None
       /\ step \in {"prepare", "move", "moved", "publish"} => temp[op.k] = op.source
       /\ step = "confirm" => target = op.source
       /\ step \in {"prepare", "move"} => op.keep /\ target # None /\ old = target
       /\ step \in {"moved", "publish"} /\ op.keep => target = None
       /\ step = "moved" => op.keep
       /\ ~op.keep => old = None /\ (target # None \/ stranded) /\ restoreJournal = None
       /\ step \in {"move", "moved", "publish", "confirm"} /\ op.keep => restoreJournal # None
       /\ step \in {"moved", "publish", "unlink", "undo"} /\ target = None => op.moved \/ stranded
       /\ step = "forget" => target # None \/ stranded

\* A start: it found what is there still, except the database that it moves.
ReconcileRuns ==
    step \in ReconcileSteps =>
       /\ told = None /\ restoreJournal # None
       /\ step \in {"keep", "settle"} => target # None
       /\ step = "aside" => target # None /\ rollback = None
       /\ step = "choose" => target = None
       /\ step \in {"aside", "choose"} /\ op.staged => temp[op.k] # None

\* The start after a refused one finds the database that the refused one moved.
RefusedOnce ==
    refused # 0 =>
       /\ refused = 1
       /\ \/ step = "idle" /\ (restoreJournal # None => target = None)
          \/ step = "choose" /\ op.rollback
          \/ step = "settle"

RestoreInv ==
    /\ RestoreTypeOK
    /\ SomewhereSafe
    /\ RestoreRuns
    /\ ReconcileRuns
    /\ RefusedOnce
    /\ old # None => old \in {target, rollback}
    /\ told # None => step = "idle" /\ restoreJournal = None /\ target = told
-----------------------------------------------------------------------------
\* Every file operation, and every death between two of them, keeps the
\* invariant of the restore.
THEOREM RestoreInvariant == RestoreSpec => []RestoreInv
<1>1. RestoreInit => RestoreInv
  <2> SUFFICES ASSUME RestoreInit PROVE RestoreInv
    OBVIOUS
  <2>1. RestoreTypeOK
    <3>1. temp \in [Restores -> Databases \cup {None}]
      BY DEF RestoreInit
    <3>2. target \in Databases /\ version \in Databases /\ errors \in Nat /\ refused \in Nat
      BY DEF RestoreInit, Databases
    <3> QED
      BY <3>1, <3>2 DEF RestoreInit, RestoreTypeOK, RestoreSteps, ReconcileSteps
  <2>2. target # None
    BY RestoreAssumption DEF RestoreInit
  <2>3. SomewhereSafe /\ RestoreRuns /\ ReconcileRuns /\ RefusedOnce
    BY <2>2 DEF RestoreInit, SomewhereSafe, RestoreRuns, ReconcileRuns, RefusedOnce, RestoreSteps, ReconcileSteps
  <2> QED BY <2>1, <2>3 DEF RestoreInit, RestoreInv
<1>2. RestoreInv /\ [RestoreNext]_restoreVars => RestoreInv'
  <2> SUFFICES ASSUME RestoreInv, [RestoreNext]_restoreVars PROVE RestoreInv'
    OBVIOUS
  <2> USE RestoreAssumption DEF RestoreInv, RestoreTypeOK, SomewhereSafe, RestoreRuns, ReconcileRuns, RefusedOnce,
          Databases, Restoring, Starting, Journals, RestoreSteps, ReconcileSteps, Quiet, Then, Works, Fails, restoreFiles, restoreGhosts
  <2>1. ASSUME NEW k \in Restores, NEW source \in {backup, rollback}, NEW keep \in BOOLEAN, Stage(k, source, keep)
        PROVE  RestoreInv'
    BY <2>1 DEF Stage
  <2>2. CASE Prepare
    BY <2>2 DEF Prepare
  <2>3. CASE Move
    BY <2>3 DEF Move
  <2>4. CASE Moved
    BY <2>4 DEF Moved
  <2>5. CASE Publish
    BY <2>5 DEF Publish
  <2>6. CASE Confirm
    BY <2>6 DEF Confirm
  <2>7. CASE FailRestore
    BY <2>7 DEF FailRestore
  <2>8. CASE UnlinkStaged
    BY <2>8 DEF UnlinkStaged
  <2>9. CASE UndoRestore
    <3>1. step = "undo" /\ step' = "forget" /\ op \in Restoring /\ told = None
      BY <2>9 DEF UndoRestore
    <3>2. CASE MovedAside /\ Works /\ target' = rollback /\ rollback' = None /\ UNCHANGED stranded
      BY <2>9, <3>1, <3>2 DEF UndoRestore, MovedAside
    <3>3. CASE MovedAside /\ Fails /\ stranded' = TRUE /\ UNCHANGED <<target, rollback>>
      BY <2>9, <3>1, <3>3 DEF UndoRestore, MovedAside
    <3>4. CASE ~MovedAside /\ Works /\ UNCHANGED <<target, rollback, stranded>>
      BY <2>9, <3>1, <3>4 DEF UndoRestore, MovedAside
    <3> HIDE DEF RestoreInv
    <3> QED BY <2>9, <3>2, <3>3, <3>4 DEF UndoRestore
  <2>10. CASE RemoveJournal
    BY <2>10 DEF RemoveJournal
  <2>11. CASE ReconcileRestore
    BY <2>11 DEF ReconcileRestore, KeepsTarget
  <2>12. CASE Aside
    BY <2>12 DEF Aside
  <2>13. CASE KeptTarget
    BY <2>13 DEF KeptTarget
  <2>14. CASE PublishedStaged
    BY <2>14 DEF PublishedStaged
  <2>15. CASE RestoredPrevious
    BY <2>15 DEF RestoredPrevious
  <2>16. CASE Refuse
    BY <2>16 DEF Refuse
  <2>17. CASE Settle
    BY <2>17 DEF Settle
  <2>18. CASE OpenTarget
    <3>1. step = "idle" /\ step' = "idle" /\ op' = None /\ restoreJournal' = None
      BY <2>18 DEF OpenTarget
    <3>2. CASE target = None
      <4>1. target' = 0 /\ 0 # None /\ told = None /\ told' = None
        BY <2>18, <3>2 DEF OpenTarget
      <4>2. UNCHANGED <<rollback, backup, temp, version, errors, old>> /\ up' /\ refused' = 0 /\ stranded' = FALSE
        BY <2>18 DEF OpenTarget
      <4>3. old # None => old = rollback
        BY <3>2
      <4>4. RestoreTypeOK'
        BY <3>1, <4>1, <4>2
      <4> QED BY <3>1, <4>1, <4>2, <4>3, <4>4
    <3>3. CASE target # None
      BY <2>18, <3>1, <3>3 DEF OpenTarget
    <3> HIDE DEF RestoreInv
    <3> QED BY <3>2, <3>3
  <2>19. CASE Edit
    BY <2>19 DEF Edit
  <2>20. CASE BackupSqlite
    BY <2>20 DEF BackupSqlite
  <2>21. CASE Stop
    BY <2>21 DEF Stop
  <2>22. CASE UNCHANGED restoreVars
    BY <2>22 DEF restoreVars
  <2>23. CASE UndoThrows
    BY <2>23 DEF UndoThrows
  <2> HIDE DEF RestoreInv
  <2> QED
    BY <2>1, <2>2, <2>3, <2>4, <2>5, <2>6, <2>7, <2>8, <2>9, <2>10, <2>11, <2>12, <2>13, <2>14, <2>15,
       <2>16, <2>17, <2>18, <2>19, <2>20, <2>21, <2>22, <2>23
    DEF RestoreNext, RestoreSqliteBackup, RollbackSqliteBackup
<1> QED
  BY <1>1, <1>2, PTL DEF RestoreSpec

\* An interrupted restore of data.sqlite loses neither database, the next starts
\* complete it or undo it, and no server opens an empty one in its place unless a
\* failed restore could not move the previous one back either, however many file
\* operations fail (restoreSqliteBackup(), reconcileSqliteRestore()).
THEOREM RestoreIsWholeTheorem == RestoreSpec => []RestoreIsWhole
<1>1. RestoreInv => RestoreIsWhole
  BY RestoreAssumption DEF RestoreInv, RestoreTypeOK, SomewhereSafe, RefusedOnce, RestoreIsWhole, Databases
<1> QED
  BY <1>1, RestoreInvariant, PTL
=============================================================================
