--------------------------- MODULE SegmentPipeline ---------------------------
(***************************************************************************)
(* The segments of one episode on their way to a reader: the rows editors  *)
(* and ingestion write, the revisions edits leave, the jobs that writing a *)
(* row queues, the worker that has the Japanese parsed into tokens and the *)
(* workers that copy rows into the search index (backend/app/controllers/  *)
(* segmentController.ts, subscribers/ and workers/).                       *)
(*                                                                         *)
(* A sentence is a model value; its tokens are named by the sentence they  *)
(* are an analysis of.  Timings stand for every other recorded column.     *)
(***************************************************************************)
EXTENDS Naturals, FiniteSets, Sequences

CONSTANTS
    Segments,   \* the lines of one episode
    Texts,      \* the sentences they may say
    Statuses,   \* the statuses they may have
    Editors,    \* requests to the controller in flight at the same time
    Parsers,    \* token parse jobs in progress at the same time
    Indexers,   \* ES sync jobs in progress at the same time
    Ops,        \* what editors do
    MaxAt,      \* bound: the latest start time
    MaxEdits,   \* bound: requests that write
    MaxFaults,  \* bound: sends, calls and workers that fail
    NoTokens, NoRow, NoEditor, NoText

Operations == {"update", "restore", "moderate", "create", "upload", "reupload"}

\* A job of a queue that nobody works is not kept: the instances leave out the
\* workers their question does not depend on.
Waiting(workers, S) == IF workers = {} THEN {} ELSE S

Sends == [to : Waiting(Indexers, {"SYNC"}) \cup Waiting(Parsers, {"PARSE"}),
          s : Segments]

Snapshot == [ja : Texts, at : 0 .. MaxAt, status : Statuses]
Row == [ja : Texts, at : 0 .. MaxAt, status : Statuses,
        tokens : Texts \cup {NoTokens}]

ASSUME PipelineAssumption ==
    /\ Statuses \subseteq {"ACTIVE", "HIDDEN", "DELETED"} /\ "ACTIVE" \in Statuses
    /\ MaxAt \in Nat /\ MaxEdits \in Nat /\ MaxFaults \in Nat
    /\ Ops \subseteq Operations
    /\ NoTokens \notin Texts /\ NoText \notin Texts
    /\ NoRow \notin Row /\ NoRow \notin Snapshot /\ NoEditor \notin Editors

VARIABLES
    row,      \* the committed row of each segment, or NoRow
    log,      \* its revisions: what it said before each edit, by number
    lock,     \* the editor whose transaction holds it
    pc, op,   \* each editor's next step, and the operation
    tgt,      \* the segments its transaction works on
    todo,     \* those it has not saved yet
    found,    \* the rows as its transaction found them
    draft,    \* the rows as its transaction will leave them
    sends,    \* jobs on their way to a queue that nobody waits for
    syncq,    \* segments with an ES sync job waiting
    parseq,   \* segments with a token parse job waiting
    texts,    \* the sentences each parse in progress was started on
    written,  \* the rows its update has just written
    docs,     \* the rows each index job in progress has read
    doc,      \* the document each segment has in the search index
    edits, faults

editing == <<lock, pc, op, tgt, todo, found, draft, edits>>
parsing == <<texts, written>>
queues  == <<sends, syncq, parseq>>
vars    == <<row, log, editing, queues, parsing, docs, doc, faults>>

Steps == {"idle", "lock", "save", "commit", "enqueue"}
Nowhere == [s \in Segments |-> NoRow]
NoTexts == [s \in Segments |-> NoText]

TypeOK ==
    /\ row \in [Segments -> Row \cup {NoRow}]
    /\ log \in [Segments -> Seq(Snapshot)]
    /\ lock \in [Segments -> Editors \cup {NoEditor}]
    /\ pc \in [Editors -> Steps]
    /\ op \in [Editors -> Operations \cup {"none"}]
    /\ tgt \in [Editors -> SUBSET Segments]
    /\ todo \in [Editors -> SUBSET Segments]
    /\ found \in [Editors -> [Segments -> Row \cup {NoRow}]]
    /\ draft \in [Editors -> [Segments -> Row \cup {NoRow}]]
    /\ sends \subseteq Sends
    /\ syncq \subseteq Segments
    /\ parseq \subseteq Segments
    /\ texts \in [Parsers -> [Segments -> Texts \cup {NoText}]]
    /\ written \in [Parsers -> SUBSET Segments]
    /\ docs \in [Indexers -> [Segments -> Row \cup {NoRow}]]
    /\ doc \in [Segments -> Row \cup {NoRow}]
    /\ edits \in 0 .. MaxEdits /\ faults \in 0 .. MaxFaults

Init ==
    /\ row = Nowhere
    /\ log = [s \in Segments |-> <<>>]
    /\ lock = [s \in Segments |-> NoEditor]
    /\ pc = [e \in Editors |-> "idle"]
    /\ op = [e \in Editors |-> "none"]
    /\ tgt = [e \in Editors |-> {}]
    /\ todo = [e \in Editors |-> {}]
    /\ found = [e \in Editors |-> Nowhere]
    /\ draft = [e \in Editors |-> Nowhere]
    /\ sends = {} /\ syncq = {} /\ parseq = {}
    /\ texts = [p \in Parsers |-> NoTexts]
    /\ written = [p \in Parsers |-> {}]
    /\ docs = [i \in Indexers |-> Nowhere]
    /\ doc = Nowhere
    /\ edits = 0 /\ faults = 0

-----------------------------------------------------------------------------
\* Helpers.

Exists(s) == row[s] # NoRow
Ingested == {s \in Segments : Exists(s)}

\* toSegmentSnapshot: what a revision keeps of a row.
toSegmentSnapshot(r) == [ja |-> r.ja, at |-> r.at, status |-> r.status]

\* toSegmentCreateAttributes: a new row has no tokens.
Inserted(new) ==
    [ja |-> new.ja, at |-> new.at, status |-> new.status, tokens |-> NoTokens]

\* What an upsert leaves of the analysis, whatever becomes of the sentence.
keepTokens(old, new) == [new EXCEPT !.tokens = old.tokens]

\* An analysis of another sentence is dropped.
clearTokensIfJapaneseChanged(old, new) ==
    [new EXCEPT !.tokens = IF new.ja = old.ja THEN old.tokens ELSE NoTokens]

At(e, step) == pc[e] = step
Go(e, step) == pc' = [pc EXCEPT ![e] = step]

Fault == faults < MaxFaults /\ faults' = faults + 1

\* Nothing a transaction holds keeps another from writing (a mutant).
RowsAreNeverLocked(S) == TRUE

\* No other transaction holds a row of S.
RowsAreFree(S) == \A s \in S : lock[s] = NoEditor

Unlock(e) == lock' = [s \in Segments |-> IF lock[s] = e THEN NoEditor ELSE lock[s]]

Finish(e) ==
    /\ Go(e, "idle")
    /\ op' = [op EXCEPT ![e] = "none"]
    /\ tgt' = [tgt EXCEPT ![e] = {}]
    /\ todo' = [todo EXCEPT ![e] = {}]
    /\ found' = [found EXCEPT ![e] = Nowhere]
    /\ draft' = [draft EXCEPT ![e] = Nowhere]

-----------------------------------------------------------------------------
\* Requests that write.

Start(e, o, S) ==
    /\ At(e, "idle") /\ o \in Ops /\ edits < MaxEdits
    /\ edits' = edits + 1
    /\ op' = [op EXCEPT ![e] = o]
    /\ tgt' = [tgt EXCEPT ![e] = S]
    /\ Go(e, "lock")
    /\ UNCHANGED <<row, log, lock, todo, found, draft, queues, parsing, docs, doc,
                   faults>>

\* updateSegment and restoreSegmentRevision find the one segment they are about.
StartUpdate(e, s)  == Exists(s) /\ Start(e, "update", {s})
StartRestore(e, s) == Exists(s) /\ log[s] # <<>> /\ Start(e, "restore", {s})

\* moderateEpisodeSegments finds its segments when it locks them.
StartModerate(e) == Start(e, "moderate", {})

StartCreate(e, s) == Start(e, "create", {s})

\* The transaction is over before it has written: another insert had the uuid,
\* or the episode has no segments, or more than the caller's maxAffected.
Refused(e, S) ==
    \/ op[e] = "create" /\ \E s \in S : Exists(s)
    \/ op[e] = "moderate"

\* The SELECT ... FOR UPDATE a transaction begins with: the rows as they are
\* once nobody else holds them.  (An INSERT holds its uuid in the same way.)
LockSegments(e) ==
    LET S == IF op[e] = "moderate" THEN Ingested ELSE tgt[e]
        rows == [s \in Segments |-> IF s \in S THEN row[s] ELSE NoRow] IN
    /\ At(e, "lock")
    /\ RowsAreFree(S)
    /\ \/ /\ Refused(e, S)
          /\ Finish(e)
          /\ UNCHANGED lock
       \/ /\ S # {}
          /\ op[e] = "create" => \A s \in S : ~Exists(s)
          /\ lock' = [s \in Segments |-> IF s \in S THEN e ELSE lock[s]]
          /\ tgt' = [tgt EXCEPT ![e] = S]
          /\ todo' = [todo EXCEPT ![e] = S]
          /\ found' = [found EXCEPT ![e] = rows]
          /\ draft' = [draft EXCEPT ![e] = rows]
          /\ Go(e, "save")
          /\ UNCHANGED op
    /\ UNCHANGED <<row, log, edits, queues, parsing, docs, doc, faults>>

\* One segment is saved inside the transaction.  If a column changed, the
\* subscriber queues an ES sync then and there, and does not wait for it.
Save(e, s, new) ==
    /\ At(e, "save") /\ s \in todo[e]
    /\ draft' = [draft EXCEPT ![e][s] = new]
    /\ todo' = [todo EXCEPT ![e] = @ \ {s}]
    /\ sends' = IF new = found[e][s] THEN sends
                ELSE sends \cup ({[to |-> "SYNC", s |-> s]} \cap Sends)
    /\ IF todo[e] = {s} THEN Go(e, "commit") ELSE UNCHANGED pc
    /\ UNCHANGED <<row, log, lock, op, tgt, found, edits, syncq, parseq, parsing,
                   docs, doc, faults>>

\* The columns of a snapshot, on the row the transaction found.
Rewritten(e, s, new) ==
    clearTokensIfJapaneseChanged(found[e][s], Inserted(new))

\* applySegmentUpdate: any patch of the columns.
SaveUpdate(e, s) ==
    /\ op[e] = "update" /\ s \in todo[e]
    /\ \E new \in Snapshot : Save(e, s, Rewritten(e, s, new))

\* applyRevisionRestore: what one of the revisions holds.
SaveRestore(e, s) ==
    /\ op[e] = "restore" /\ s \in todo[e]
    /\ \E n \in DOMAIN log[s] : Save(e, s, Rewritten(e, s, log[s][n]))

\* What applyEpisodeModeration may do to a row: shift it, clamped at zero (and
\* at the bound), or set its status.
Moderated(r) ==
    {[r EXCEPT !.at = IF @ = 0 THEN 0 ELSE @ - 1],
     [r EXCEPT !.at = IF @ = MaxAt THEN @ ELSE @ + 1]}
    \cup {[r EXCEPT !.status = st] : st \in Statuses}

SaveModerated(e, s) ==
    /\ op[e] = "moderate" /\ s \in todo[e]
    /\ \E new \in Moderated(found[e][s]) : Save(e, s, new)

\* createSegment.
SaveCreated(e, s) ==
    /\ op[e] = "create"
    /\ \E new \in Snapshot : Save(e, s, Inserted(new))

\* The segments whose tokens the transaction of e has dropped, or never had.
Reparse(e) ==
    {s \in tgt[e] : found[e][s] = NoRow \/ draft[e][s].ja # found[e][s].ja}

\* A revision is made of the row that the edit leaves (a mutant).
revisionOfTheNewRow(e, s) == toSegmentSnapshot(draft[e][s])

\* A revision is made of the row that the edit found.
createSegmentRevision(e, s) == toSegmentSnapshot(found[e][s])

\* The rows and their revisions become visible together.
Commit(e) ==
    /\ At(e, "commit")
    /\ row' = [s \in Segments |-> IF s \in tgt[e] THEN draft[e][s] ELSE row[s]]
    /\ log' = [s \in Segments |->
                 IF s \in tgt[e] /\ op[e] # "create"
                 THEN Append(log[s], createSegmentRevision(e, s)) ELSE log[s]]
    /\ Unlock(e)
    /\ IF Reparse(e) = {}
       THEN Finish(e)
       ELSE Go(e, "enqueue") /\ UNCHANGED <<op, tgt, todo, found, draft>>
    /\ UNCHANGED <<edits, queues, parsing, docs, doc, faults>>

\* sendTokenParseJob, after the commit.
EnqueueParse(e) ==
    /\ At(e, "enqueue")
    /\ parseq' = parseq \cup Waiting(Parsers, tgt[e])
    /\ Finish(e)
    /\ UNCHANGED <<row, log, lock, edits, sends, syncq, parsing, docs, doc, faults>>

\* pg-boss cannot take the job, or the process dies before it is asked.
EnqueueParseFails(e) ==
    /\ At(e, "enqueue") /\ Fault
    /\ Finish(e)
    /\ UNCHANGED <<row, log, lock, edits, queues, parsing, docs, doc>>

\* A statement fails or the process dies: Postgres rolls back, but not what
\* the subscriber has sent.
RollBack(e) ==
    /\ pc[e] \in {"save", "commit"} /\ Fault
    /\ Finish(e)
    /\ Unlock(e)
    /\ UNCHANGED <<row, log, edits, queues, parsing, docs, doc>>

\* An upload has its rows indexed, and leaves their tokens alone (a mutant).
syncOnly(S) == [to : {"SYNC"}, s : S]

\* sendBulkEsSyncJobs and sendBulkTokenParseJobs.
Queued(S) == [to : {"SYNC", "PARSE"}, s : S]

\* createSegmentsBatch: one upsert, which lists every column but the tokens,
\* and two sends nobody waits for.
Upload(S, new) ==
    /\ edits < MaxEdits
    /\ edits' = edits + 1
    /\ S # {} /\ RowsAreFree(S)
    /\ \A s \in S : (IF Exists(s) THEN "reupload" ELSE "upload") \in Ops
    /\ row' = [s \in Segments |->
                 IF s \notin S THEN row[s]
                 ELSE IF Exists(s) THEN keepTokens(row[s], Inserted(new[s]))
                 ELSE Inserted(new[s])]
    /\ sends' = sends \cup (Queued(S) \cap Sends)
    /\ UNCHANGED <<log, lock, pc, op, tgt, todo, found, draft, syncq, parseq, parsing,
                   docs, doc, faults>>

-----------------------------------------------------------------------------
\* pg-boss.  A queue holds at most one waiting job per segment: sendDebounced
\* coalesces, and a second job would only read the row again.

SendArrives(x) ==
    /\ x \in sends
    /\ sends' = sends \ {x}
    /\ syncq'  = syncq  \cup {s \in {x.s} : x.to = "SYNC"}
    /\ parseq' = parseq \cup {s \in {x.s} : x.to = "PARSE"}
    /\ UNCHANGED <<row, log, editing, parsing, docs, doc, faults>>

\* The senders log what they cannot queue, and forget it.
SendFails(x) ==
    /\ x \in sends /\ Fault
    /\ sends' = sends \ {x}
    /\ UNCHANGED <<row, log, editing, syncq, parseq, parsing, docs, doc>>

-----------------------------------------------------------------------------
\* handleTokenParse and handleTokenSweep.

Asked(p) == {s \in Segments : texts[p][s] # NoText}

\* A pull: the sentences are read, and sent to Shirabe.
PullParse(p) ==
    /\ Asked(p) = {}
    /\ parseq # {}
    /\ parseq' = {}
    /\ texts' = [texts EXCEPT ![p] =
                   [s \in Segments |->
                      IF s \in parseq /\ Exists(s) THEN row[s].ja ELSE NoText]]
    /\ UNCHANGED <<row, log, editing, sends, syncq, written, docs, doc, faults>>

\* The update matches on the row alone (a mutant).
stillThere(p, s) == Exists(s)

\* The row still says the sentence that was parsed.
stillSays(p, s) == Exists(s) /\ row[s].ja = texts[p][s]

\* Shirabe has answered: one update of the rows that still say the same.
WriteTokens(p) ==
    LET same == {s \in Asked(p) : stillSays(p, s)} IN
    /\ Asked(p) # {} /\ written[p] = {}
    /\ RowsAreFree(same)
    /\ row' = [s \in Segments |->
                 IF s \in same THEN [row[s] EXCEPT !.tokens = texts[p][s]] ELSE row[s]]
    /\ written' = [written EXCEPT ![p] = same]
    /\ texts' = [texts EXCEPT ![p] = IF same = {} THEN NoTexts ELSE @]
    /\ UNCHANGED <<log, editing, queues, docs, doc, faults>>

EndParse(p) ==
    /\ texts' = [texts EXCEPT ![p] = NoTexts]
    /\ written' = [written EXCEPT ![p] = {}]

\* The update is a raw statement: no subscriber queues a sync (a mutant).
unsynced(p) == {}

\* The rows whose tokens were written.
Updated(p) == written[p]

\* They are queued for the index.
SyncParsed(p) ==
    /\ written[p] # {}
    /\ syncq' = syncq \cup Waiting(Indexers, Updated(p))
    /\ EndParse(p)
    /\ UNCHANGED <<row, log, editing, sends, parseq, docs, doc, faults>>

\* Shirabe does not answer or the worker dies, and pg-boss runs the jobs again,
\* unless it has done so too often; or the sync cannot be queued, which is
\* logged and forgotten.
ParseFails(p) ==
    /\ Asked(p) # {} /\ Fault
    /\ EndParse(p)
    /\ parseq' \in {parseq, parseq \cup Asked(p)}
    /\ UNCHANGED <<row, log, editing, sends, syncq, docs, doc>>

\* Only what readers are served is looked for (a mutant).
activeAndUntokenized(s) ==
    Exists(s) /\ row[s].tokens = NoTokens /\ row[s].status = "ACTIVE"

untokenized(s) ==
    Exists(s) /\ row[s].tokens = NoTokens /\ row[s].status # "DELETED"

\* The nightly sweep.
handleTokenSweep ==
    /\ {s \in Segments : untokenized(s)} # {}
    /\ parseq' = parseq \cup Waiting(Parsers, {s \in Segments : untokenized(s)})
    /\ UNCHANGED <<row, log, editing, sends, syncq, parsing, docs, doc, faults>>

-----------------------------------------------------------------------------
\* handleBulkIndex, in the workers of the CREATE and the UPDATE queue.  A job of
\* either may be taken by any index worker here, which allows more than the code.

Fetched(i) == {s \in Segments : docs[i][s] # NoRow}

\* The job carries the row that was saved (a mutant).
asSaved(s) == IF lock[s] = NoEditor THEN row[s] ELSE draft[lock[s]][s]

\* Segment.find: the row that is committed.
asCommitted(s) == row[s]

\* A batch: the rows as they are now, those that exist.
PullSync(i) ==
    /\ Fetched(i) = {}
    /\ syncq # {}
    /\ syncq' = {}
    /\ docs' = [docs EXCEPT ![i] =
                  [s \in Segments |-> IF s \in syncq THEN asCommitted(s) ELSE NoRow]]
    /\ UNCHANGED <<row, log, editing, sends, parseq, parsing, doc, faults>>

\* The bulk request writes the documents of the rows that were read.
Index(i, S) ==
    /\ doc' = [s \in Segments |-> IF s \in S THEN docs[i][s] ELSE doc[s]]
    /\ docs' = [docs EXCEPT ![i] = Nowhere]

WriteIndex(i) ==
    /\ Fetched(i) # {}
    /\ Index(i, Fetched(i))
    /\ UNCHANGED <<row, log, editing, queues, parsing, faults>>

\* Some documents are refused, but not all: that is logged, and forgotten.
IndexPartly(i, S) ==
    /\ S # {} /\ S \subseteq Fetched(i) /\ S # Fetched(i) /\ Fault
    /\ Index(i, S)
    /\ UNCHANGED <<row, log, editing, queues, parsing>>

\* All are refused, the request fails or the worker dies: the jobs run again,
\* unless they have done so too often.
IndexFails(i) ==
    /\ Fetched(i) # {} /\ Fault
    /\ docs' = [docs EXCEPT ![i] = Nowhere]
    /\ syncq' \in {syncq, syncq \cup Fetched(i)}
    /\ UNCHANGED <<row, log, editing, sends, parseq, parsing, doc>>

-----------------------------------------------------------------------------
Requests(e) ==
    \/ StartModerate(e)
    \/ \E s \in Segments : StartUpdate(e, s) \/ StartRestore(e, s) \/ StartCreate(e, s)

Edits(e) ==
    \/ Commit(e) \/ EnqueueParse(e)
    \/ \E s \in Segments :
          SaveUpdate(e, s) \/ SaveRestore(e, s) \/ SaveModerated(e, s) \/ SaveCreated(e, s)

Parses(p)  == PullParse(p) \/ SyncParsed(p)
Indexes(i) == PullSync(i) \/ WriteIndex(i)

Fails ==
    \/ \E e \in Editors : EnqueueParseFails(e) \/ RollBack(e)
    \/ \E x \in sends : SendFails(x)
    \/ \E p \in Parsers : ParseFails(p)
    \/ \E i \in Indexers : IndexFails(i) \/ \E S \in SUBSET Segments : IndexPartly(i, S)

Next ==
    \/ \E e \in Editors : Requests(e) \/ LockSegments(e) \/ Edits(e)
    \/ \E S \in SUBSET Segments : \E new \in [S -> Snapshot] : Upload(S, new)
    \/ \E x \in sends : SendArrives(x)
    \/ \E p \in Parsers : Parses(p) \/ WriteTokens(p)
    \/ handleTokenSweep
    \/ \E i \in Indexers : Indexes(i)
    \/ Fails

Spec == Init /\ [][Next]_vars

\* Transactions end, sends arrive, jobs are taken and done, statements that wait
\* for a row lock get it in turn, and the sweep runs every night.
FairSpec ==
    /\ Spec
    /\ \A e \in Editors : WF_vars(Edits(e)) /\ SF_vars(LockSegments(e))
    /\ \A x \in Sends : WF_vars(SendArrives(x))
    /\ \A p \in Parsers : WF_vars(Parses(p)) /\ SF_vars(WriteTokens(p))
    /\ \A i \in Indexers : WF_vars(Indexes(i))
    /\ WF_vars(handleTokenSweep)

-----------------------------------------------------------------------------
\* What is expected of the pipeline.

\* The tokens a row has are an analysis of the sentence it says: their offsets
\* index into it (clearTokensIfJapaneseChanged, and the text guard of
\* handleTokenParse's update).
TokensDescribeTheSentence ==
    \A s \in Ingested : row[s].tokens \in {NoTokens, row[s].ja}

Says == [s \in Segments |-> IF Exists(s) THEN toSegmentSnapshot(row[s]) ELSE NoRow]

\* Concurrent edits of the same segments chain: each leaves one revision, of
\* what it replaced and nothing else replaced meanwhile, and an edit that is
\* rolled back leaves neither row nor revision.
Revisions == INSTANCE RevisionLog WITH says <- Says, Snapshots <- Snapshot,
                                       Nothing <- NoRow
ImplementsRevisionLog == Revisions!Spec

Range(f) == {f[x] : x \in DOMAIN f}

\* Search serves what a row says or one of its revisions recorded, never what
\* an edit that was rolled back would have made of it, although the job of that
\* edit stays queued, and never a sentence with the tokens of another.
SearchServesWhatWasSaved ==
    \A s \in Segments : doc[s] # NoRow =>
        /\ Exists(s)
        /\ toSegmentSnapshot(doc[s]) \in {toSegmentSnapshot(row[s])} \cup Range(log[s])
        /\ doc[s].tokens \in {NoTokens, doc[s].ja}

\* As long as nothing is lost, search comes to serve what the rows say: that every
\* write queues a sync is meant to be enough, since the handlers read the row when
\* they run.  (It is not: runs index_race and stale_edit.)
IndexCatchesUp == []<>(faults = 0 => doc = row)

\* Every segment that is not deleted comes to have tokens, whatever enqueue or
\* parse was lost, because the sweep offers those that have none again.
UnparsedIsParsed ==
    []<>(\A s \in Ingested : row[s].status # "DELETED" => row[s].tokens # NoTokens)

\* As long as nothing is lost, tokens of another sentence do not stay: whatever
\* writes a sentence has it parsed.
WrongTokensAreReplaced == []<>(faults = 0 => TokensDescribeTheSentence)

-----------------------------------------------------------------------------
\* The inductive invariants behind the revisions and the tokens.

Editing(e) == pc[e] \in {"save", "commit"}

\* The rows a transaction works on are its own from when it read them until it
\* ends, and every one of them has been saved by the time it commits.
HoldsItsRows(e) ==
    /\ At(e, "lock") /\ op[e] \notin {"create", "moderate"} =>
          \A s \in tgt[e] : Exists(s)
    /\ Editing(e) =>
          /\ \A s \in tgt[e] : lock[s] = e /\ found[e][s] = row[s]
          /\ \A s \in tgt[e] : found[e][s] = NoRow <=> op[e] = "create"
          /\ \A s \in tgt[e] : draft[e][s] = NoRow => s \in todo[e]
          /\ todo[e] \subseteq tgt[e]
          /\ At(e, "commit") => todo[e] = {}

EditInv == \A e \in Editors : HoldsItsRows(e)

\* Tokens are of the sentence beside them, in the rows and on their way there.
Sound(r) == r # NoRow => r.tokens \in {NoTokens, r.ja}

TokenInv ==
    /\ \A s \in Segments : Sound(row[s])
    /\ \A e \in Editors, s \in Segments : Sound(found[e][s]) /\ Sound(draft[e][s])

\* What a reader may be shown of s: what its row says or a revision recorded.
Recorded(s) == {toSegmentSnapshot(row[s])} \cup Range(log[s])

Servable(r, s) ==
    r # NoRow => Exists(s) /\ toSegmentSnapshot(r) \in Recorded(s) /\ Sound(r)

IndexInv ==
    \A s \in Segments :
        /\ Servable(doc[s], s)
        /\ \A i \in Indexers : Servable(docs[i][s], s)
=============================================================================
