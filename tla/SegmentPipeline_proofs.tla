------------------------ MODULE SegmentPipeline_proofs ------------------------
(***************************************************************************)
(* Theorems about SegmentPipeline, for any segments, sentences, editors    *)
(* and workers.                                                            *)
(***************************************************************************)
EXTENDS SegmentPipeline, TLAPS

-----------------------------------------------------------------------------
\* Rows.

LEMMA InsertedIsARow ==
    ASSUME NEW new \in Snapshot
    PROVE  Inserted(new) \in Row /\ Inserted(new) # NoRow
BY PipelineAssumption DEF Inserted, Snapshot, Row

LEMMA RewrittenIsARow ==
    ASSUME NEW new \in Snapshot, NEW old \in Row
    PROVE  /\ clearTokensIfJapaneseChanged(old, Inserted(new)) \in Row
           /\ keepTokens(old, Inserted(new)) \in Row
BY DEF Inserted, Snapshot, Row, clearTokensIfJapaneseChanged, keepTokens

LEMMA ModeratedIsARow ==
    ASSUME NEW old \in Row, NEW new \in Moderated(old)
    PROVE  new \in Row
BY PipelineAssumption DEF Row, Moderated

LEMMA SnapshotOfARow ==
    ASSUME NEW r \in Row
    PROVE  toSegmentSnapshot(r) \in Snapshot
BY DEF Row, Snapshot, toSegmentSnapshot

-----------------------------------------------------------------------------
\* A transaction keeps its rows as long as nobody touches them.

LEMMA OthersKeepTheirRows ==
    ASSUME TypeOK, NEW d \in Editors, HoldsItsRows(d),
           pc'[d] = pc[d], op'[d] = op[d], tgt'[d] = tgt[d], todo'[d] = todo[d],
           found'[d] = found[d], draft'[d] = draft[d],
           \A s \in Segments : lock[s] = d => lock'[s] = d /\ row'[s] = row[s],
           \A s \in Segments : row[s] # NoRow => row'[s] # NoRow
    PROVE  HoldsItsRows(d)'
BY DEF TypeOK, HoldsItsRows, At, Editing, Exists

LEMMA NobodyEdits ==
    ASSUME TypeOK, EditInv, UNCHANGED <<lock, pc, op, tgt, todo, found, draft>>,
           \A s \in Segments : lock[s] # NoEditor => row'[s] = row[s],
           \A s \in Segments : row[s] # NoRow => row'[s] # NoRow
    PROVE  EditInv'
BY OthersKeepTheirRows, PipelineAssumption DEF EditInv

\* A transaction that ends without a commit.
LEMMA FinishedHoldsNothing ==
    ASSUME TypeOK, NEW e \in Editors, Finish(e)
    PROVE  /\ HoldsItsRows(e)'
           /\ pc' \in [Editors -> Steps]
           /\ op' \in [Editors -> Operations \cup {"none"}]
           /\ tgt' \in [Editors -> SUBSET Segments]
           /\ todo' \in [Editors -> SUBSET Segments]
           /\ found' \in [Editors -> [Segments -> Row \cup {NoRow}]]
           /\ draft' \in [Editors -> [Segments -> Row \cup {NoRow}]]
           /\ \A d \in Editors \ {e} :
                 /\ pc'[d] = pc[d] /\ op'[d] = op[d] /\ tgt'[d] = tgt[d]
                 /\ todo'[d] = todo[d] /\ found'[d] = found[d]
                 /\ draft'[d] = draft[d]
BY DEF TypeOK, Finish, Go, Steps, Nowhere, HoldsItsRows, At, Editing

-----------------------------------------------------------------------------
\* Requests.

LEMMA StartKeeps ==
    ASSUME TypeOK, EditInv, NEW e \in Editors, NEW o \in Operations,
           NEW S \in SUBSET Segments, Start(e, o, S),
           o \notin {"create", "moderate"} => \A s \in S : Exists(s)
    PROVE  TypeOK' /\ EditInv'
<1>1. TypeOK'
  BY PipelineAssumption DEF TypeOK, Start, Go, At, Steps, queues, parsing
<1>2. HoldsItsRows(e)'
  BY DEF TypeOK, Start, Go, At, HoldsItsRows, Editing, Exists
<1>3. ASSUME NEW d \in Editors, d # e PROVE HoldsItsRows(d)'
  BY <1>3, OthersKeepTheirRows DEF TypeOK, EditInv, Start, Go
<1> QED
  BY <1>1, <1>2, <1>3 DEF EditInv

LEMMA RequestsKeep ==
    ASSUME TypeOK, EditInv, NEW e \in Editors, Requests(e)
    PROVE  TypeOK' /\ EditInv'
<1>1. CASE StartModerate(e)
  BY <1>1, StartKeeps DEF StartModerate, Operations
<1>2. ASSUME NEW s \in Segments, StartUpdate(e, s) \/ StartRestore(e, s)
      PROVE  TypeOK' /\ EditInv'
  BY <1>2, StartKeeps DEF StartUpdate, StartRestore, Operations
<1>3. ASSUME NEW s \in Segments, StartCreate(e, s)
      PROVE  TypeOK' /\ EditInv'
  BY <1>3, StartKeeps DEF StartCreate, Operations
<1> QED
  BY <1>1, <1>2, <1>3 DEF Requests

LEMMA LockSegmentsKeeps ==
    ASSUME TypeOK, EditInv, NEW e \in Editors, LockSegments(e)
    PROVE  TypeOK' /\ EditInv'
<1> DEFINE S == IF op[e] = "moderate" THEN Ingested ELSE tgt[e]
           rows == [s \in Segments |-> IF s \in S THEN row[s] ELSE NoRow]
<1>1. S \in SUBSET Segments /\ rows \in [Segments -> Row \cup {NoRow}]
  BY DEF TypeOK, Ingested
<1>2. CASE Refused(e, S) /\ Finish(e) /\ UNCHANGED lock
  <2>1. TypeOK'
    BY <1>2, FinishedHoldsNothing DEF TypeOK, LockSegments, queues, parsing
  <2>2. ASSUME NEW d \in Editors, d # e PROVE HoldsItsRows(d)'
    BY <1>2, <2>2, FinishedHoldsNothing, OthersKeepTheirRows
    DEF EditInv, LockSegments
  <2> QED
    BY <1>2, <2>1, <2>2, FinishedHoldsNothing DEF EditInv
<1>3. CASE /\ op[e] = "create" => \A s \in S : ~Exists(s)
           /\ lock' = [s \in Segments |-> IF s \in S THEN e ELSE lock[s]]
           /\ tgt' = [tgt EXCEPT ![e] = S]
           /\ todo' = [todo EXCEPT ![e] = S]
           /\ found' = [found EXCEPT ![e] = rows]
           /\ draft' = [draft EXCEPT ![e] = rows]
           /\ Go(e, "save")
           /\ UNCHANGED op
  <2> HIDE DEF S, rows
  <2>1. At(e, "lock") /\ RowsAreFree(S)
        /\ UNCHANGED <<row, log, edits, sends, syncq, parseq, texts, written,
                       docs, doc, faults>>
    BY DEF LockSegments, queues, parsing, S
  <2>2. TypeOK'
    BY <1>1, <1>3, <2>1 DEF TypeOK, Go, Steps
  <2>3. HoldsItsRows(e)'
    <3>1. \A s \in S : rows[s] = row[s] /\ (row[s] = NoRow <=> op[e] = "create")
      <4>1. \A s \in S : rows[s] = row[s]
        BY <1>1 DEF rows
      <4>2. op[e] # "create" => \A s \in S : Exists(s)
        BY <2>1 DEF S, Ingested, EditInv, HoldsItsRows, TypeOK, Operations
      <4> QED
        BY <1>3, <4>1, <4>2 DEF Exists
    <3> QED
      BY <1>1, <1>3, <2>1, <3>1 DEF TypeOK, HoldsItsRows, At, Editing, Go
  <2>4. ASSUME NEW d \in Editors, d # e PROVE HoldsItsRows(d)'
    BY <1>3, <2>1, <2>4, OthersKeepTheirRows, PipelineAssumption
    DEF TypeOK, EditInv, Go, RowsAreFree
  <2> QED
    BY <2>2, <2>3, <2>4 DEF EditInv
<1> QED
  BY <1>2, <1>3 DEF LockSegments

-----------------------------------------------------------------------------
\* Edits.

LEMMA SaveKeeps ==
    ASSUME TypeOK, EditInv, NEW e \in Editors, NEW s \in Segments,
           NEW new \in Row, Save(e, s, new)
    PROVE  TypeOK' /\ EditInv'
<1>1. /\ At(e, "save") /\ s \in todo[e]
      /\ draft' = [draft EXCEPT ![e][s] = new]
      /\ todo' = [todo EXCEPT ![e] = @ \ {s}]
      /\ sends' \subseteq Sends
      /\ \/ todo[e] = {s} /\ Go(e, "commit")
         \/ todo[e] # {s} /\ UNCHANGED pc
      /\ UNCHANGED <<row, log, lock, op, tgt, found, edits, syncq, parseq,
                     texts, written, docs, doc, faults>>
  BY DEF TypeOK, Save, parsing
<1>2. TypeOK'
  BY <1>1 DEF TypeOK, Go, Steps
<1>3. HoldsItsRows(e)'
  <2>1. HoldsItsRows(e) /\ Editing(e) /\ Editing(e)' /\ new # NoRow
    BY <1>1, PipelineAssumption DEF TypeOK, EditInv, Editing, At, Go, Steps
  <2>2. At(e, "commit")' => todo'[e] = {}
    BY <1>1 DEF TypeOK, At, Go
  <2> QED
    BY <1>1, <2>1, <2>2 DEF TypeOK, HoldsItsRows, At, Editing
<1>4. ASSUME NEW d \in Editors, d # e PROVE HoldsItsRows(d)'
  BY <1>1, <1>4, OthersKeepTheirRows DEF TypeOK, EditInv, Go
<1> QED
  BY <1>2, <1>3, <1>4 DEF EditInv

\* What is saved is a row, made of the one the transaction found.
LEMMA SavesARow ==
    ASSUME TypeOK, EditInv, NEW e \in Editors, NEW s \in Segments,
           \/ SaveUpdate(e, s) \/ SaveRestore(e, s)
           \/ SaveModerated(e, s) \/ SaveCreated(e, s)
    PROVE  \E new \in Row :
              /\ Save(e, s, new)
              /\ Sound(found[e][s]) => Sound(new)
<1>1. ASSUME op[e] # "create", Editing(e), s \in todo[e]
      PROVE  found[e][s] \in Row /\ found[e][s] # NoRow
  BY <1>1 DEF TypeOK, EditInv, HoldsItsRows
<1>2. ASSUME NEW new \in Snapshot, Save(e, s, Rewritten(e, s, new)),
             op[e] # "create"
      PROVE  /\ Rewritten(e, s, new) \in Row
             /\ Sound(found[e][s]) => Sound(Rewritten(e, s, new))
  <2>1. found[e][s] \in Row /\ found[e][s] # NoRow
    BY <1>1, <1>2 DEF Save, Editing, At
  <2>2. Rewritten(e, s, new) \in Row
    BY <2>1, RewrittenIsARow DEF Rewritten
  <2> QED
    BY <2>1, <2>2
    DEF Rewritten, clearTokensIfJapaneseChanged, Inserted, Sound, Row, Snapshot
<1>3. CASE SaveUpdate(e, s)
  BY <1>2, <1>3 DEF SaveUpdate
<1>4. CASE SaveRestore(e, s)
  <2>1. \A n \in DOMAIN log[s] : log[s][n] \in Snapshot
    BY DEF TypeOK
  <2> QED
    BY <1>2, <1>4, <2>1 DEF SaveRestore
<1>5. CASE SaveModerated(e, s)
  <2>1. PICK new \in Moderated(found[e][s]) : Save(e, s, new)
    BY <1>5 DEF SaveModerated
  <2>2. found[e][s] \in Row /\ found[e][s] # NoRow
    BY <1>1, <1>5, <2>1 DEF Save, SaveModerated, Editing, At
  <2>3. new \in Row
    BY <2>2, ModeratedIsARow
  <2>4. new.tokens = found[e][s].tokens /\ new.ja = found[e][s].ja
    BY <2>2 DEF Moderated, Row
  <2> QED
    BY <2>1, <2>2, <2>3, <2>4 DEF Sound
<1>6. CASE SaveCreated(e, s)
  <2>1. PICK new \in Snapshot : Save(e, s, Inserted(new))
    BY <1>6 DEF SaveCreated
  <2> QED
    BY <2>1, InsertedIsARow DEF Sound, Inserted
<1> QED
  BY <1>3, <1>4, <1>5, <1>6

LEMMA SavesKeep ==
    ASSUME TypeOK, EditInv, NEW e \in Editors, NEW s \in Segments,
           \/ SaveUpdate(e, s) \/ SaveRestore(e, s)
           \/ SaveModerated(e, s) \/ SaveCreated(e, s)
    PROVE  TypeOK' /\ EditInv'
BY SavesARow, SaveKeeps

\* At the commit every row of the transaction has been saved.
LEMMA CommitsRows ==
    ASSUME TypeOK, EditInv, NEW e \in Editors, At(e, "commit")
    PROVE  \A s \in tgt[e] : draft[e][s] \in Row /\ draft[e][s] # NoRow
BY DEF TypeOK, EditInv, HoldsItsRows, Editing, At

LEMMA CommitKeeps ==
    ASSUME TypeOK, EditInv, NEW e \in Editors, Commit(e)
    PROVE  TypeOK' /\ EditInv'
<1>1. /\ At(e, "commit")
      /\ row' = [s \in Segments |-> IF s \in tgt[e] THEN draft[e][s] ELSE row[s]]
      /\ Unlock(e)
      /\ Finish(e) \/ (Go(e, "enqueue") /\ UNCHANGED <<op, tgt, todo, found, draft>>)
      /\ UNCHANGED <<edits, sends, syncq, parseq, texts, written, docs, doc, faults>>
  BY DEF Commit, queues, parsing
<1>2. \A s \in tgt[e] : draft[e][s] \in Row /\ draft[e][s] # NoRow
  BY <1>1, CommitsRows
<1>3. row' \in [Segments -> Row \cup {NoRow}]
  BY <1>1, <1>2 DEF TypeOK
<1>4. log' \in [Segments -> Seq(Snapshot)]
  <2>1. ASSUME NEW s \in tgt[e], op[e] # "create"
        PROVE  createSegmentRevision(e, s) \in Snapshot
    <3>1. found[e][s] \in Row
      BY <1>1, <2>1 DEF TypeOK, EditInv, HoldsItsRows, Editing, At
    <3> QED
      BY <3>1, SnapshotOfARow DEF createSegmentRevision
  <2>2. \A s \in Segments : log[s] \in Seq(Snapshot)
    BY DEF TypeOK
  <2>3. ASSUME NEW s \in Segments, s \in tgt[e] /\ op[e] # "create"
        PROVE  Append(log[s], createSegmentRevision(e, s)) \in Seq(Snapshot)
    BY <2>1, <2>2, <2>3
  <2> QED
    BY <2>2, <2>3 DEF Commit
<1>5. lock' \in [Segments -> Editors \cup {NoEditor}]
  BY <1>1 DEF TypeOK, Unlock
<1>6. TypeOK'
  <2>1. CASE Finish(e)
    BY <1>1, <1>3, <1>4, <1>5, <2>1, FinishedHoldsNothing DEF TypeOK
  <2>2. CASE Go(e, "enqueue") /\ UNCHANGED <<op, tgt, todo, found, draft>>
    BY <1>1, <1>3, <1>4, <1>5, <2>2 DEF TypeOK, Go, Steps
  <2> QED
    BY <1>1, <2>1, <2>2
<1>7. HoldsItsRows(e)'
  <2>1. CASE Finish(e)
    BY <2>1, FinishedHoldsNothing
  <2>2. CASE Go(e, "enqueue")
    BY <2>2 DEF TypeOK, Go, HoldsItsRows, At, Editing
  <2> QED
    BY <1>1, <2>1, <2>2
<1>8. ASSUME NEW d \in Editors, d # e PROVE HoldsItsRows(d)'
  <2>1. /\ pc'[d] = pc[d] /\ op'[d] = op[d] /\ tgt'[d] = tgt[d]
        /\ todo'[d] = todo[d] /\ found'[d] = found[d] /\ draft'[d] = draft[d]
    BY <1>1, <1>8, FinishedHoldsNothing DEF TypeOK, Go
  <2>2. \A s \in Segments : lock[s] = d => lock'[s] = d /\ row'[s] = row[s]
    BY <1>1, <1>8 DEF TypeOK, EditInv, HoldsItsRows, Editing, At, Unlock
  <2>3. \A s \in Segments : row[s] # NoRow => row'[s] # NoRow
    BY <1>1, <1>2
  <2> QED
    BY <2>1, <2>2, <2>3, OthersKeepTheirRows DEF EditInv
<1> QED
  BY <1>6, <1>7, <1>8 DEF EditInv

LEMMA EnqueueParseKeeps ==
    ASSUME TypeOK, EditInv, NEW e \in Editors,
           EnqueueParse(e) \/ EnqueueParseFails(e)
    PROVE  TypeOK' /\ EditInv'
<1>1. /\ Finish(e)
      /\ parseq' \subseteq Segments /\ faults' \in 0 .. MaxFaults
      /\ UNCHANGED <<row, log, lock, edits, sends, syncq, texts, written, docs, doc>>
  BY PipelineAssumption
  DEF TypeOK, EnqueueParse, EnqueueParseFails, Fault, Waiting, queues, parsing
<1>2. TypeOK'
  BY <1>1, FinishedHoldsNothing DEF TypeOK
<1>3. ASSUME NEW d \in Editors, d # e PROVE HoldsItsRows(d)'
  BY <1>1, <1>3, FinishedHoldsNothing, OthersKeepTheirRows DEF EditInv
<1> QED
  BY <1>1, <1>2, <1>3, FinishedHoldsNothing DEF EditInv

LEMMA RollBackKeeps ==
    ASSUME TypeOK, EditInv, NEW e \in Editors, RollBack(e)
    PROVE  TypeOK' /\ EditInv'
<1>1. /\ Finish(e) /\ Unlock(e)
      /\ faults' \in 0 .. MaxFaults
      /\ UNCHANGED <<row, log, edits, sends, syncq, parseq, texts, written,
                     docs, doc>>
  BY PipelineAssumption DEF TypeOK, RollBack, Fault, queues, parsing
<1>2. TypeOK'
  BY <1>1, FinishedHoldsNothing DEF TypeOK, Unlock
<1>3. ASSUME NEW d \in Editors, d # e PROVE HoldsItsRows(d)'
  <2>1. \A s \in Segments : lock[s] = d => lock'[s] = d /\ row'[s] = row[s]
    BY <1>1, <1>3 DEF Unlock
  <2> QED
    BY <1>1, <1>3, <2>1, FinishedHoldsNothing, OthersKeepTheirRows DEF EditInv
<1> QED
  BY <1>1, <1>2, <1>3, FinishedHoldsNothing DEF EditInv

LEMMA UploadKeeps ==
    ASSUME TypeOK, EditInv, NEW S \in SUBSET Segments, NEW new \in [S -> Snapshot],
           Upload(S, new)
    PROVE  TypeOK' /\ EditInv'
<1>1. \A s \in S : row'[s] \in Row /\ row'[s] # NoRow
  BY InsertedIsARow, RewrittenIsARow, PipelineAssumption DEF TypeOK, Upload, Exists
<1>2. \A s \in Segments \ S : row'[s] = row[s]
  BY DEF Upload
<1>3. row' \in [Segments -> Row \cup {NoRow}]
  <2>1. \A s \in Segments : row'[s] \in Row \cup {NoRow}
    BY <1>1, <1>2 DEF TypeOK
  <2>2. row' = [s \in Segments |-> row'[s]]
    BY DEF Upload
  <2> QED
    BY <2>1, <2>2
<1>4. TypeOK'
  BY <1>3, PipelineAssumption DEF TypeOK, Upload, parsing
<1>5. \A s \in Segments : lock[s] # NoEditor => row'[s] = row[s]
  BY <1>2 DEF Upload, RowsAreFree
<1> QED
  BY <1>1, <1>2, <1>4, <1>5, NobodyEdits DEF Upload

-----------------------------------------------------------------------------
\* Queues, parses and the index.

LEMMA WriteTokensKeeps ==
    ASSUME TypeOK, EditInv, NEW p \in Parsers, WriteTokens(p)
    PROVE  TypeOK' /\ EditInv'
<1> DEFINE same == {s \in Asked(p) : stillSays(p, s)}
<1>1. same \subseteq Segments
      /\ \A s \in same : row[s] \in Row /\ row[s] # NoRow /\ texts[p][s] \in Texts
  BY DEF TypeOK, Asked, stillSays, Exists
<1>2. \A s \in same : /\ [row[s] EXCEPT !.tokens = texts[p][s]] \in Row
  BY <1>1 DEF Row
<1>3. /\ RowsAreFree(same)
      /\ row' = [s \in Segments |->
                   IF s \in same THEN [row[s] EXCEPT !.tokens = texts[p][s]]
                   ELSE row[s]]
      /\ written' = [written EXCEPT ![p] = same]
      /\ texts' = [texts EXCEPT ![p] = IF same = {} THEN NoTexts ELSE @]
      /\ UNCHANGED <<log, lock, pc, op, tgt, todo, found, draft, edits, sends,
                     syncq, parseq, docs, doc, faults>>
  BY DEF WriteTokens, editing, queues
<1> HIDE DEF same
<1>4. row' \in [Segments -> Row \cup {NoRow}]
  BY <1>2, <1>3 DEF TypeOK
<1>5. TypeOK'
  BY <1>1, <1>3, <1>4 DEF TypeOK, NoTexts
<1>6. \A s \in Segments : lock[s] # NoEditor => row'[s] = row[s]
  BY <1>3 DEF RowsAreFree
<1>7. \A s \in Segments : row[s] # NoRow => row'[s] # NoRow
  BY <1>2, <1>3, PipelineAssumption
<1> QED
  BY <1>3, <1>5, <1>6, <1>7, NobodyEdits

\* The steps that are no transaction and write no row.
BehindTheScenes ==
    \/ \E x \in sends : SendArrives(x) \/ SendFails(x)
    \/ \E p \in Parsers : Parses(p) \/ ParseFails(p)
    \/ handleTokenSweep
    \/ \E i \in Indexers :
          \/ Indexes(i) \/ IndexFails(i)
          \/ \E S \in SUBSET Segments : IndexPartly(i, S)

LEMMA BehindTheScenesKeeps ==
    ASSUME TypeOK, EditInv, BehindTheScenes
    PROVE  TypeOK' /\ EditInv' /\ UNCHANGED <<row, log, editing>>
<1>1. UNCHANGED <<row, log, editing>>
  BY DEF BehindTheScenes, SendArrives, SendFails, Parses, PullParse, SyncParsed,
         ParseFails, handleTokenSweep, Indexes, PullSync, WriteIndex, IndexFails,
         IndexPartly
<1>2. TypeOK'
  <2>1. ASSUME NEW x \in sends, SendArrives(x) \/ SendFails(x)
        PROVE  TypeOK'
    BY <1>1, <2>1, PipelineAssumption
    DEF TypeOK, SendArrives, SendFails, Fault, Sends, editing, parsing
  <2>2. ASSUME NEW p \in Parsers, Parses(p) \/ ParseFails(p)
        PROVE  TypeOK'
    <3>1. CASE PullParse(p)
      BY <1>1, <3>1 DEF TypeOK, PullParse, Row, Exists, editing
    <3>2. CASE SyncParsed(p)
      BY <1>1, <3>2 DEF TypeOK, SyncParsed, EndParse, Updated, Waiting, NoTexts, editing
    <3>3. CASE ParseFails(p)
      BY <1>1, <3>3, PipelineAssumption
      DEF TypeOK, ParseFails, EndParse, Fault, Asked, NoTexts, editing
    <3> QED
      BY <2>2, <3>1, <3>2, <3>3 DEF Parses
  <2>3. CASE handleTokenSweep
    BY <1>1, <2>3 DEF TypeOK, handleTokenSweep, Waiting, editing, parsing
  <2>4. ASSUME NEW i \in Indexers, PullSync(i)
        PROVE  TypeOK'
    BY <1>1, <2>4 DEF TypeOK, PullSync, asCommitted, editing, parsing
  <2>5. ASSUME NEW i \in Indexers,
               \/ WriteIndex(i) \/ IndexFails(i)
               \/ \E S \in SUBSET Segments : IndexPartly(i, S)
        PROVE  TypeOK'
    <3>1. /\ docs' = [docs EXCEPT ![i] = Nowhere]
          /\ \/ UNCHANGED doc
             \/ \E S \in SUBSET Segments :
                   doc' = [s \in Segments |-> IF s \in S THEN docs[i][s] ELSE doc[s]]
          /\ syncq' \in {syncq, syncq \cup Fetched(i)}
          /\ faults' = faults \/ Fault
          /\ UNCHANGED <<sends, parseq, texts, written>>
      BY <2>5
      DEF WriteIndex, IndexFails, IndexPartly, Index, Fetched, parsing, queues
    <3>2. docs' \in [Indexers -> [Segments -> Row \cup {NoRow}]]
      BY <3>1 DEF TypeOK, Nowhere
    <3>3. doc' \in [Segments -> Row \cup {NoRow}]
      <4>1. docs[i] \in [Segments -> Row \cup {NoRow}]
        BY DEF TypeOK
      <4>2. ASSUME NEW S \in SUBSET Segments,
                   doc' = [s \in Segments |-> IF s \in S THEN docs[i][s] ELSE doc[s]]
            PROVE  doc' \in [Segments -> Row \cup {NoRow}]
        BY <4>1, <4>2 DEF TypeOK
      <4> QED
        BY <3>1, <4>2 DEF TypeOK
    <3>4. syncq' \subseteq Segments /\ faults' \in 0 .. MaxFaults
      BY <3>1, PipelineAssumption DEF TypeOK, Fetched, Fault
    <3> QED
      BY <1>1, <3>1, <3>2, <3>3, <3>4 DEF TypeOK, editing
  <2> QED
    BY <2>1, <2>2, <2>3, <2>4, <2>5 DEF BehindTheScenes, Indexes
<1> QED
  BY <1>1, <1>2, NobodyEdits DEF editing

-----------------------------------------------------------------------------
\* Every step is one of these.
LEMMA EveryStep ==
    ASSUME Next
    PROVE  \/ \E e \in Editors :
                 \/ Requests(e) \/ LockSegments(e) \/ Commit(e)
                 \/ EnqueueParse(e) \/ EnqueueParseFails(e) \/ RollBack(e)
                 \/ \E s \in Segments :
                       \/ SaveUpdate(e, s) \/ SaveRestore(e, s)
                       \/ SaveModerated(e, s) \/ SaveCreated(e, s)
           \/ \E S \in SUBSET Segments : \E new \in [S -> Snapshot] : Upload(S, new)
           \/ \E p \in Parsers : WriteTokens(p)
           \/ BehindTheScenes
BY DEF Next, Edits, Fails, BehindTheScenes

LEMMA InitEstablishes == Init => TypeOK /\ EditInv
<1> SUFFICES ASSUME Init PROVE TypeOK /\ EditInv
  OBVIOUS
<1>1. TypeOK
  BY PipelineAssumption DEF Init, TypeOK, Steps, Nowhere, NoTexts
<1>2. EditInv
  BY DEF Init, EditInv, HoldsItsRows, At, Editing
<1> QED
  BY <1>1, <1>2

LEMMA NextKeeps == TypeOK /\ EditInv /\ [Next]_vars => (TypeOK /\ EditInv)'
<1> SUFFICES ASSUME TypeOK, EditInv, [Next]_vars PROVE (TypeOK /\ EditInv)'
  OBVIOUS
<1>1. CASE Next
  <2>1. ASSUME NEW e \in Editors,
               \/ Requests(e) \/ LockSegments(e) \/ Commit(e)
               \/ EnqueueParse(e) \/ EnqueueParseFails(e) \/ RollBack(e)
        PROVE  TypeOK' /\ EditInv'
    BY <2>1, RequestsKeep, LockSegmentsKeeps, CommitKeeps, EnqueueParseKeeps,
       RollBackKeeps
  <2>2. ASSUME NEW e \in Editors, NEW s \in Segments,
               \/ SaveUpdate(e, s) \/ SaveRestore(e, s)
               \/ SaveModerated(e, s) \/ SaveCreated(e, s)
        PROVE  TypeOK' /\ EditInv'
    BY <2>2, SavesKeep
  <2>3. ASSUME NEW S \in SUBSET Segments, NEW new \in [S -> Snapshot], Upload(S, new)
        PROVE  TypeOK' /\ EditInv'
    BY <2>3, UploadKeeps
  <2>4. ASSUME NEW p \in Parsers, WriteTokens(p)
        PROVE  TypeOK' /\ EditInv'
    BY <2>4, WriteTokensKeeps
  <2>5. CASE BehindTheScenes
    BY <2>5, BehindTheScenesKeeps
  <2> QED
    BY <1>1, <2>1, <2>2, <2>3, <2>4, <2>5, EveryStep
<1>2. CASE UNCHANGED vars
  <2>1. TypeOK'
    BY <1>2 DEF TypeOK, vars, editing, queues, parsing
  <2> QED
    BY <1>2, <2>1, NobodyEdits DEF vars, editing
<1> QED
  BY <1>1, <1>2

\* The type invariant, and that the rows a transaction works on are its own
\* from its SELECT ... FOR UPDATE until it ends: what the rest is proved from.
THEOREM RowsAreHeld == Spec => [](TypeOK /\ EditInv)
BY InitEstablishes, NextKeeps, PTL DEF Spec

-----------------------------------------------------------------------------
\* The tokens.

\* What an upload is assumed not to do: to give a segment that exists another
\* sentence.  createSegmentsBatch would leave the tokens of the old one.
NoReupload == "reupload" \notin Ops

LEMMA SaveIsSound ==
    ASSUME TypeOK, TokenInv, NEW e \in Editors, NEW s \in Segments,
           NEW new \in Row, Save(e, s, new), Sound(found[e][s]) => Sound(new)
    PROVE  TokenInv'
BY DEF TypeOK, TokenInv, Save, Sound

LEMMA LockSegmentsIsSound ==
    ASSUME TypeOK, TokenInv, NEW e \in Editors, LockSegments(e)
    PROVE  TokenInv'
<1>1. row' = row
  BY DEF LockSegments
<1>2. \/ Finish(e)
      \/ \E rows : /\ \A s \in Segments : rows[s] \in {row[s], NoRow}
                   /\ found' = [found EXCEPT ![e] = rows]
                   /\ draft' = [draft EXCEPT ![e] = rows]
  BY DEF LockSegments
<1>3. CASE Finish(e)
  BY <1>1, <1>3 DEF TypeOK, TokenInv, Finish, Nowhere, Sound
<1>4. CASE \E rows : /\ \A s \in Segments : rows[s] \in {row[s], NoRow}
                     /\ found' = [found EXCEPT ![e] = rows]
                     /\ draft' = [draft EXCEPT ![e] = rows]
  BY <1>1, <1>4 DEF TypeOK, TokenInv, Sound
<1> QED
  BY <1>2, <1>3, <1>4

LEMMA EndIsSound ==
    ASSUME TypeOK, TokenInv, NEW e \in Editors,
           Finish(e) \/ UNCHANGED <<found, draft>>,
           \A s \in Segments : row'[s] \in {row[s], draft[e][s]}
    PROVE  TokenInv'
<1>1. \A s \in Segments : Sound(row'[s])
  BY DEF TokenInv
<1>2. \A d \in Editors, s \in Segments : Sound(found'[d][s]) /\ Sound(draft'[d][s])
  <2>1. ASSUME NEW d \in Editors, NEW s \in Segments
        PROVE  /\ found'[d][s] \in {found[d][s], NoRow}
               /\ draft'[d][s] \in {draft[d][s], NoRow}
    <3>1. CASE Finish(e)
      BY <3>1 DEF TypeOK, Finish, Nowhere
    <3>2. CASE UNCHANGED <<found, draft>>
      BY <3>2
    <3> QED
      BY <3>1, <3>2
  <2> QED
    BY <2>1 DEF TokenInv, Sound
<1> QED
  BY <1>1, <1>2 DEF TokenInv, Sound

LEMMA UploadIsSound ==
    ASSUME TypeOK, TokenInv, NoReupload, NEW S \in SUBSET Segments,
           NEW new \in [S -> Snapshot], Upload(S, new)
    PROVE  TokenInv'
<1>1. \A s \in S : ~Exists(s)
  BY DEF Upload, NoReupload
<1>2. \A s \in Segments : Sound(row'[s])
  BY <1>1 DEF Upload, TokenInv, Sound, Inserted
<1> QED
  BY <1>2 DEF Upload, TokenInv

LEMMA WriteTokensIsSound ==
    ASSUME TypeOK, TokenInv, NEW p \in Parsers, WriteTokens(p)
    PROVE  TokenInv'
<1>1. ASSUME NEW s \in Segments, s \in Asked(p), stillSays(p, s)
      PROVE  Sound([row[s] EXCEPT !.tokens = texts[p][s]])
  BY <1>1 DEF TypeOK, stillSays, Exists, Sound, Row
<1>2. \A s \in Segments : Sound(row'[s])
  BY <1>1 DEF WriteTokens, TokenInv
<1> QED
  BY <1>2 DEF WriteTokens, TokenInv, editing

LEMMA TokensKept ==
    ASSUME NoReupload
    PROVE  TypeOK /\ EditInv /\ TokenInv /\ [Next]_vars => TokenInv'
<1> SUFFICES ASSUME TypeOK, EditInv, TokenInv, [Next]_vars PROVE TokenInv'
  OBVIOUS
<1>1. CASE Next
  <2>1. ASSUME NEW e \in Editors, Requests(e) PROVE TokenInv'
    BY <2>1 DEF Requests, StartModerate, StartUpdate, StartRestore, StartCreate,
                Start, TokenInv
  <2>2. ASSUME NEW e \in Editors, LockSegments(e) PROVE TokenInv'
    BY <2>2, LockSegmentsIsSound
  <2>3. ASSUME NEW e \in Editors,
               \/ Commit(e) \/ EnqueueParse(e) \/ EnqueueParseFails(e) \/ RollBack(e)
        PROVE  TokenInv'
    <3>1. \A s \in Segments : row'[s] \in {row[s], draft[e][s]}
      BY <2>3 DEF Commit, EnqueueParse, EnqueueParseFails, RollBack
    <3> QED
      BY <2>3, <3>1, EndIsSound DEF Commit, EnqueueParse, EnqueueParseFails, RollBack
  <2>4. ASSUME NEW e \in Editors, NEW s \in Segments,
               \/ SaveUpdate(e, s) \/ SaveRestore(e, s)
               \/ SaveModerated(e, s) \/ SaveCreated(e, s)
        PROVE  TokenInv'
    BY <2>4, SavesARow, SaveIsSound
  <2>5. ASSUME NEW S \in SUBSET Segments, NEW new \in [S -> Snapshot], Upload(S, new)
        PROVE  TokenInv'
    BY <2>5, UploadIsSound
  <2>6. ASSUME NEW p \in Parsers, WriteTokens(p) PROVE TokenInv'
    BY <2>6, WriteTokensIsSound
  <2>7. CASE BehindTheScenes
    BY <2>7, BehindTheScenesKeeps DEF TokenInv, editing
  <2> QED
    BY <1>1, <2>1, <2>2, <2>3, <2>4, <2>5, <2>6, <2>7, EveryStep
<1>2. CASE UNCHANGED vars
  BY <1>2 DEF TokenInv, vars, editing
<1> QED
  BY <1>1, <1>2

\* Without an upload that replaces sentences, the tokens of a row are always an
\* analysis of the sentence it says, whatever editors and parses are at work
\* (clearTokensIfJapaneseChanged, and the text guard of handleTokenParse).
THEOREM TokensAreOfTheSentence ==
    ASSUME NoReupload
    PROVE  Spec => []TokensDescribeTheSentence
<1>1. Init => TokenInv
  BY DEF Init, TokenInv, Nowhere, Sound
<1>2. TypeOK /\ EditInv /\ TokenInv /\ [Next]_vars => TokenInv'
  BY TokensKept
<1>3. TokenInv => TokensDescribeTheSentence
  BY DEF TokenInv, TokensDescribeTheSentence, Sound, Ingested, Exists
<1> QED
  BY <1>1, <1>2, <1>3, RowsAreHeld, PTL DEF Spec

-----------------------------------------------------------------------------
\* The revisions.

LEMMA HistoryStutters ==
    ASSUME UNCHANGED <<row, log>>
    PROVE  UNCHANGED Revisions!promised
BY DEF Revisions!promised, Says, Exists

LEMMA CommitRecords ==
    ASSUME TypeOK, EditInv, NEW e \in Editors, Commit(e)
    PROVE  Revisions!Next
<1> DEFINE new == [s \in tgt[e] |-> toSegmentSnapshot(draft[e][s])]
<1>1. At(e, "commit") /\ tgt[e] \in SUBSET Segments
  BY DEF TypeOK, Commit
<1>2. \A s \in tgt[e] : draft[e][s] \in Row /\ draft[e][s] # NoRow
  BY <1>1, CommitsRows
<1>3. new \in [tgt[e] -> Snapshot]
  BY <1>2, SnapshotOfARow
<1>4. row' = [s \in Segments |-> IF s \in tgt[e] THEN draft[e][s] ELSE row[s]]
  BY DEF Commit
<1>5. Says' = [s \in Segments |-> IF s \in tgt[e] THEN new[s] ELSE Says[s]]
  BY <1>1, <1>2, <1>4 DEF Says, Exists
<1>6. CASE op[e] = "create"
  <2>1. \A s \in Segments : log'[s] = log[s]
    BY <1>6 DEF Commit
  <2>2. UNCHANGED log
    BY <2>1 DEF TypeOK, Commit
  <2>3. Revisions!Ingest(tgt[e], new)
    BY <1>5, <2>2 DEF Revisions!Ingest
  <2> QED
    BY <1>1, <1>3, <2>3 DEF Revisions!Next
<1>7. CASE op[e] # "create"
  <2>1. \A s \in tgt[e] : found[e][s] = row[s] /\ row[s] # NoRow
    BY <1>1, <1>7 DEF EditInv, HoldsItsRows, Editing, At
  <2>2. \A s \in tgt[e] : Says[s] = createSegmentRevision(e, s) /\ Says[s] # NoRow
    <3>1. \A s \in tgt[e] : row[s] \in Row
      BY <1>1, <2>1 DEF TypeOK
    <3>2. \A s \in tgt[e] : Says[s] = toSegmentSnapshot(row[s])
      BY <1>1, <2>1 DEF Says, Exists
    <3> QED
      BY <2>1, <3>1, <3>2, SnapshotOfARow, PipelineAssumption
      DEF createSegmentRevision
  <2>3. log' = [s \in Segments |->
                  IF s \in tgt[e] THEN Append(log[s], Says[s]) ELSE log[s]]
    BY <1>7, <2>2 DEF Commit
  <2>4. Revisions!Record(tgt[e], new)
    BY <1>5, <2>2, <2>3 DEF Revisions!Record
  <2> QED
    BY <1>1, <1>3, <2>4 DEF Revisions!Next
<1> QED
  BY <1>6, <1>7

LEMMA UploadIngests ==
    ASSUME TypeOK, NEW S \in SUBSET Segments, NEW new \in [S -> Snapshot],
           Upload(S, new)
    PROVE  Revisions!Next
<1>1. ASSUME NEW s \in S
      PROVE  row'[s] # NoRow /\ toSegmentSnapshot(row'[s]) = new[s]
  <2>1. CASE Exists(s)
    <3>1. row[s] \in Row /\ row'[s] = keepTokens(row[s], Inserted(new[s]))
      BY <2>1 DEF TypeOK, Upload, Exists
    <3>2. row'[s] \in Row
      BY <3>1, RewrittenIsARow
    <3> QED
      BY <3>1, <3>2, PipelineAssumption
      DEF keepTokens, Inserted, toSegmentSnapshot, Snapshot
  <2>2. CASE ~Exists(s)
    <3>1. row'[s] = Inserted(new[s])
      BY <2>2 DEF Upload
    <3> QED
      BY <3>1, InsertedIsARow DEF Inserted, toSegmentSnapshot, Snapshot
  <2> QED
    BY <2>1, <2>2
<1>2. \A s \in Segments \ S : row'[s] = row[s]
  BY DEF Upload
<1>3. Says' = [s \in Segments |-> IF s \in S THEN new[s] ELSE Says[s]]
  BY <1>1, <1>2 DEF Says, Exists
<1>4. Revisions!Ingest(S, new)
  BY <1>3 DEF Upload, Revisions!Ingest
<1> QED
  BY <1>4 DEF Revisions!Next

LEMMA TokensAreNoHistory ==
    ASSUME TypeOK, NEW p \in Parsers, WriteTokens(p)
    PROVE  UNCHANGED Revisions!promised
<1>1. ASSUME NEW s \in Segments
      PROVE  /\ row[s] = NoRow => row'[s] = NoRow
             /\ row[s] # NoRow => /\ row'[s] # NoRow
                                  /\ toSegmentSnapshot(row'[s])
                                       = toSegmentSnapshot(row[s])
  <2>1. CASE s \in Asked(p) /\ stillSays(p, s)
    <3>1. /\ row[s] # NoRow /\ row[s] \in Row /\ texts[p][s] \in Texts
          /\ row'[s] = [row[s] EXCEPT !.tokens = texts[p][s]]
      BY <2>1 DEF TypeOK, WriteTokens, Asked, stillSays, Exists
    <3>2. row'[s] \in Row
      BY <3>1 DEF Row
    <3> QED
      BY <3>1, <3>2, PipelineAssumption DEF toSegmentSnapshot, Row
  <2>2. CASE ~(s \in Asked(p) /\ stillSays(p, s))
    BY <2>2 DEF WriteTokens
  <2> QED
    BY <2>1, <2>2
<1>2. Says' = Says
  BY <1>1 DEF Says, Exists
<1> QED
  BY <1>2 DEF WriteTokens, Revisions!promised

LEMMA StepsKeepTheHistory ==
    TypeOK /\ EditInv /\ [Next]_vars => [Revisions!Next]_(Revisions!promised)
<1> SUFFICES ASSUME TypeOK, EditInv, [Next]_vars
             PROVE  Revisions!Next \/ UNCHANGED Revisions!promised
  OBVIOUS
<1>1. CASE Next
  <2>1. ASSUME NEW e \in Editors,
               \/ Requests(e) \/ LockSegments(e) \/ EnqueueParse(e)
               \/ EnqueueParseFails(e) \/ RollBack(e)
        PROVE  UNCHANGED <<row, log>>
    BY <2>1 DEF Requests, StartModerate, StartUpdate, StartRestore, StartCreate,
                Start, LockSegments, EnqueueParse, EnqueueParseFails, RollBack
  <2>2. ASSUME NEW e \in Editors, NEW s \in Segments,
               \/ SaveUpdate(e, s) \/ SaveRestore(e, s)
               \/ SaveModerated(e, s) \/ SaveCreated(e, s)
        PROVE  UNCHANGED <<row, log>>
    BY <2>2 DEF SaveUpdate, SaveRestore, SaveModerated, SaveCreated, Save
  <2>3. ASSUME NEW e \in Editors, Commit(e) PROVE Revisions!Next
    BY <2>3, CommitRecords
  <2>4. ASSUME NEW S \in SUBSET Segments, NEW new \in [S -> Snapshot], Upload(S, new)
        PROVE  Revisions!Next
    BY <2>4, UploadIngests
  <2>5. ASSUME NEW p \in Parsers, WriteTokens(p)
        PROVE  UNCHANGED Revisions!promised
    BY <2>5, TokensAreNoHistory
  <2>6. CASE BehindTheScenes
    BY <2>6, BehindTheScenesKeeps, HistoryStutters
  <2> QED
    BY <1>1, <2>1, <2>2, <2>3, <2>4, <2>5, <2>6, EveryStep, HistoryStutters
<1>2. CASE UNCHANGED vars
  BY <1>2, HistoryStutters DEF vars
<1> QED
  BY <1>1, <1>2

\* Concurrent edits of the same segments chain: an edit and its revision happen
\* together, and the revision is of exactly what the edit replaced.
THEOREM HistoryIsKept == Spec => ImplementsRevisionLog
<1>1. Init => Revisions!Init
  BY DEF Init, Revisions!Init, Says, Exists, Nowhere
<1>2. TypeOK /\ EditInv /\ [Next]_vars => [Revisions!Next]_(Revisions!promised)
  BY StepsKeepTheHistory
<1> QED
  BY <1>1, <1>2, RowsAreHeld, PTL DEF Spec, ImplementsRevisionLog, Revisions!Spec

-----------------------------------------------------------------------------
\* The index.

\* What was recorded of a segment stays recorded.
LEMMA AppendRecords ==
    ASSUME NEW l \in Seq(Snapshot), NEW x \in Snapshot
    PROVE  Range(l) \cup {x} \subseteq Range(Append(l, x))
<1> DEFINE m == Append(l, x)
<1>1. /\ DOMAIN l = 1 .. Len(l) /\ DOMAIN m = 1 .. Len(l) + 1
      /\ \A n \in 1 .. Len(l) : m[n] = l[n]
      /\ m[Len(l) + 1] = x /\ Len(l) \in Nat
  OBVIOUS
<1> HIDE DEF m
<1>2. \A n \in DOMAIN l : l[n] \in Range(m)
  BY <1>1 DEF Range
<1>3. x \in Range(m)
  BY <1>1 DEF Range
<1> QED
  BY <1>2, <1>3 DEF Range, m

LEMMA CommitKeepsRecorded ==
    ASSUME TypeOK, EditInv, NEW e \in Editors, Commit(e),
           NEW s \in Segments, Exists(s)
    PROVE  Exists(s)' /\ Recorded(s) \subseteq Recorded(s)'
<1>1. At(e, "commit") /\ log[s] \in Seq(Snapshot)
  BY DEF TypeOK, Commit
<1>2. CASE s \notin tgt[e]
  BY <1>2 DEF Commit, Exists, Recorded
<1>3. CASE s \in tgt[e]
  <2>1. row'[s] = draft[e][s] /\ row'[s] # NoRow
    BY <1>1, <1>3, CommitsRows DEF Commit
  <2>2. op[e] # "create" /\ found[e][s] = row[s]
    BY <1>1, <1>3 DEF EditInv, HoldsItsRows, Editing, At, Exists
  <2>3. log'[s] = Append(log[s], toSegmentSnapshot(row[s]))
    BY <1>3, <2>2 DEF Commit, createSegmentRevision
  <2>4. toSegmentSnapshot(row[s]) \in Snapshot
    BY SnapshotOfARow DEF TypeOK, Exists
  <2> QED
    BY <1>1, <2>1, <2>3, <2>4, AppendRecords DEF Exists, Recorded
<1> QED
  BY <1>2, <1>3

LEMMA TokensKeepRecorded ==
    ASSUME TypeOK, NEW p \in Parsers, WriteTokens(p), NEW s \in Segments, Exists(s)
    PROVE  Exists(s)' /\ Recorded(s) = Recorded(s)'
<1>1. Says'[s] = Says[s] /\ log' = log
  BY TokensAreNoHistory DEF Revisions!promised
<1>2. row[s] \in Row
  BY DEF TypeOK, Exists
<1>3. Says[s] = toSegmentSnapshot(row[s]) /\ Says[s] # NoRow
  BY <1>2, SnapshotOfARow, PipelineAssumption DEF Says, Exists
<1>4. Says'[s] = IF row'[s] # NoRow THEN toSegmentSnapshot(row'[s]) ELSE NoRow
  BY DEF Says, Exists
<1> QED
  BY <1>1, <1>3, <1>4 DEF Exists, Recorded

\* No step takes back what may be served of a segment that exists.
LEMMA StaysRecorded ==
    ASSUME TypeOK, EditInv, NoReupload, Next, NEW s \in Segments, Exists(s)
    PROVE  Exists(s)' /\ Recorded(s) \subseteq Recorded(s)'
<1>1. CASE UNCHANGED <<row, log>>
  BY <1>1 DEF Exists, Recorded
<1>2. ASSUME NEW e \in Editors,
             \/ Requests(e) \/ LockSegments(e) \/ EnqueueParse(e)
             \/ EnqueueParseFails(e) \/ RollBack(e)
             \/ \E t \in Segments :
                   \/ SaveUpdate(e, t) \/ SaveRestore(e, t)
                   \/ SaveModerated(e, t) \/ SaveCreated(e, t)
      PROVE  UNCHANGED <<row, log>>
  BY <1>2 DEF Requests, StartModerate, StartUpdate, StartRestore, StartCreate,
              Start, LockSegments, EnqueueParse, EnqueueParseFails, RollBack,
              SaveUpdate, SaveRestore, SaveModerated, SaveCreated, Save
<1>3. ASSUME NEW S \in SUBSET Segments, NEW new \in [S -> Snapshot], Upload(S, new)
      PROVE  row'[s] = row[s] /\ log' = log
  BY <1>3 DEF Upload, NoReupload, Exists
<1>4. CASE \E S \in SUBSET Segments : \E new \in [S -> Snapshot] : Upload(S, new)
  BY <1>3, <1>4 DEF Exists, Recorded
<1>5. CASE BehindTheScenes
  BY <1>1, <1>5, BehindTheScenesKeeps
<1> QED
  BY <1>1, <1>2, <1>4, <1>5, EveryStep, CommitKeepsRecorded, TokensKeepRecorded

\* A document, and a row on its way to be one, is one there was or a row as it is.
LEMMA ServesRows ==
    ASSUME TypeOK, EditInv, Next, NEW s \in Segments
    PROVE  /\ \/ doc'[s] = doc[s]
              \/ \E i \in Indexers : doc'[s] = docs[i][s]
           /\ \A i \in Indexers :
                 \/ docs'[i][s] \in {docs[i][s], NoRow}
                 \/ docs'[i][s] = row[s] /\ row'[s] = row[s] /\ log' = log
<1>1. CASE UNCHANGED <<docs, doc>>
  BY <1>1
<1>2. ASSUME NEW e \in Editors,
             \/ Requests(e) \/ LockSegments(e) \/ Commit(e)
             \/ EnqueueParse(e) \/ EnqueueParseFails(e) \/ RollBack(e)
             \/ \E t \in Segments :
                   \/ SaveUpdate(e, t) \/ SaveRestore(e, t)
                   \/ SaveModerated(e, t) \/ SaveCreated(e, t)
      PROVE  UNCHANGED <<docs, doc>>
  BY <1>2 DEF Requests, StartModerate, StartUpdate, StartRestore, StartCreate,
              Start, LockSegments, Commit, EnqueueParse, EnqueueParseFails,
              RollBack, SaveUpdate, SaveRestore, SaveModerated, SaveCreated, Save
<1>3. CASE \/ \E S \in SUBSET Segments : \E new \in [S -> Snapshot] : Upload(S, new)
           \/ \E p \in Parsers : WriteTokens(p) \/ Parses(p) \/ ParseFails(p)
           \/ \E x \in sends : SendArrives(x) \/ SendFails(x)
           \/ handleTokenSweep
  BY <1>1, <1>3
  DEF Upload, WriteTokens, Parses, PullParse, SyncParsed, ParseFails, SendArrives,
      SendFails, handleTokenSweep
<1>4. ASSUME NEW i \in Indexers, PullSync(i)
      PROVE  /\ doc' = doc /\ row' = row /\ log' = log
             /\ docs'[i][s] \in {row[s], NoRow}
             /\ \A j \in Indexers \ {i} : docs'[j] = docs[j]
  BY <1>4 DEF TypeOK, PullSync, asCommitted
<1>5. ASSUME NEW i \in Indexers,
             \/ WriteIndex(i) \/ IndexFails(i)
             \/ \E S \in SUBSET Segments : IndexPartly(i, S)
      PROVE  /\ doc'[s] \in {doc[s], docs[i][s]}
             /\ docs'[i][s] = NoRow
             /\ \A j \in Indexers \ {i} : docs'[j] = docs[j]
  BY <1>5 DEF TypeOK, WriteIndex, IndexFails, IndexPartly, Index, Nowhere
<1>6. CASE \E i \in Indexers : PullSync(i)
  BY <1>4, <1>6
<1>7. CASE \E i \in Indexers :
              \/ WriteIndex(i) \/ IndexFails(i)
              \/ \E S \in SUBSET Segments : IndexPartly(i, S)
  BY <1>5, <1>7
<1> QED
  BY <1>1, <1>2, <1>3, <1>6, <1>7, EveryStep DEF BehindTheScenes, Indexes

LEMMA IndexKept ==
    ASSUME NoReupload
    PROVE  TypeOK /\ EditInv /\ TokenInv /\ IndexInv /\ [Next]_vars => IndexInv'
<1> SUFFICES ASSUME TypeOK, EditInv, TokenInv, IndexInv, [Next]_vars PROVE IndexInv'
  OBVIOUS
<1>1. CASE Next
  <2> SUFFICES ASSUME NEW s \in Segments
               PROVE  /\ Servable(doc[s], s)'
                      /\ \A i \in Indexers : Servable(docs[i][s], s)'
    BY DEF IndexInv
  <2>1. ASSUME NEW r, Servable(r, s), r # NoRow
        PROVE  Exists(s)' /\ toSegmentSnapshot(r) \in Recorded(s)' /\ Sound(r)
    BY <1>1, <2>1, StaysRecorded DEF Servable
  <2>2. Servable(doc[s], s)'
    <3>1. \/ doc'[s] = doc[s]
          \/ \E i \in Indexers : doc'[s] = docs[i][s]
      BY <1>1, ServesRows
    <3>2. Servable(doc'[s], s)
      BY <3>1 DEF IndexInv
    <3> QED
      BY <2>1, <3>2 DEF Servable
  <2>3. ASSUME NEW i \in Indexers PROVE Servable(docs[i][s], s)'
    <3>1. CASE docs'[i][s] \in {docs[i][s], NoRow}
      BY <2>1, <3>1 DEF IndexInv, Servable
    <3>2. CASE docs'[i][s] = row[s] /\ row'[s] = row[s] /\ log' = log
      BY <3>2 DEF Servable, Exists, Recorded, TokenInv
    <3> QED
      BY <1>1, <3>1, <3>2, ServesRows
  <2> QED
    BY <2>2, <2>3
<1>2. CASE UNCHANGED vars
  BY <1>2 DEF vars, IndexInv, Servable, Exists, Recorded
<1> QED
  BY <1>1, <1>2

\* Without an upload that replaces sentences, search serves only what a row says
\* or one of its revisions recorded, with tokens of that sentence: a sync reads
\* the row that is committed, so what was rolled back is never indexed, however
\* late or often its job runs.
THEOREM SearchIsFaithful ==
    ASSUME NoReupload
    PROVE  Spec => []SearchServesWhatWasSaved
<1>1. Init => TokenInv /\ IndexInv
  BY DEF Init, TokenInv, IndexInv, Servable, Nowhere, Sound
<1>2. TypeOK /\ EditInv /\ TokenInv /\ IndexInv /\ [Next]_vars
        => TokenInv' /\ IndexInv'
  BY TokensKept, IndexKept
<1>3. IndexInv => SearchServesWhatWasSaved
  BY DEF IndexInv, SearchServesWhatWasSaved, Servable, Recorded, Sound
<1> QED
  BY <1>1, <1>2, <1>3, RowsAreHeld, PTL DEF Spec
===============================================================================
