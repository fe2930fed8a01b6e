----------------------------- MODULE IndexAlias -----------------------------
(***************************************************************************)
(* Rebuilding the search index under a running site                        *)
(* (backend/config/elasticsearch.ts, run by backend/bin/es.ts;             *)
(* SegmentIndexer.reindex).  Search reads, and the sync workers write,     *)
(* through an alias; `reindex` fills the next numbered index from the      *)
(* database and moves the alias to it, `rollback` moves it back, `cleanup` *)
(* deletes every index it is not on.  Commands are run by hand, possibly   *)
(* by two people, and nothing keeps them apart.                            *)
(*                                                                         *)
(* SegmentPipeline has the edits and the sync jobs step by step.  Here an  *)
(* edit is its commit, and a job reads a row and later writes what it read *)
(* through the alias, wherever that is by then.                            *)
(***************************************************************************)
EXTENDS Naturals, FiniteSets, FiniteSetsExt

CONSTANTS
    Segments,      \* their ids
    Runners,       \* people with a shell
    PageSize,      \* REINDEX_CHUNK_SIZE
    MaxIndex,      \* bound: versions of the index
    MaxEdits,      \* bound: edits of segments
    MaxFailures    \* bound: calls that fail, processes that die

ASSUME IndexAssumption ==
    /\ Segments \subseteq Nat \ {0} /\ IsFiniteSet(Segments)
    /\ IsFiniteSet(Runners) /\ PageSize \in Nat \ {0}
    /\ MaxIndex \in Nat \ {0} /\ MaxEdits \in Nat /\ MaxFailures \in Nat

NoIndex == 0
Versions == 1 .. MaxIndex

VARIABLES
    stored,     \* what each row says; 0 if there is none
    reads,      \* what sync jobs have read of which rows and may yet write
    indices,    \* numbered indices there are
    mapped,     \* those created with the schema
    docs,       \* the documents of each
    alias,      \* the index the alias is on
    command,    \* what each runner is about to do
    from,       \* the index the alias was on when it asked
    target,     \* the index it fills, or goes back to
    lastId,     \* the last id of the page before
    page,       \* the page it has read
    failed,     \* did any document fail?
    toDelete,   \* indices it has yet to delete
    edits, failures,
    \* History:
    since,      \* for each index, rows edited since it was created, or written to
                \* it by a late job as they were before an edit, until a job
                \* writes them to it as they are
    served,     \* indices the alias has been on
    mishap      \* has the alias moved without its mover knowing, or was a
                \* cleanup run beside another command?

search  == <<indices, mapped, docs, alias>>
runners == <<command, from, target, lastId, page, failed, toDelete>>
history == <<since, served, mishap>>
ivars   == <<stored, reads, search, runners, edits, failures, history>>

IndexTypeOK ==
    /\ stored \in [Segments -> 0 .. MaxEdits]
    /\ reads \subseteq Segments \X (0 .. MaxEdits)
    /\ indices \subseteq Versions /\ mapped \subseteq indices
    /\ docs \in [Versions -> [Segments -> 0 .. MaxEdits]]
    /\ alias \in indices \cup {NoIndex}
    /\ command \in [Runners -> {"idle", "create", "fill", "write", "swap", "drop",
                                "list", "rollback", "others", "delete"}]
    /\ from \in [Runners -> Versions \cup {NoIndex}]
    /\ target \in [Runners -> Versions \cup {NoIndex}]
    /\ lastId \in [Runners -> Segments \cup {0}]
    /\ page \in [Runners -> [Segments -> 0 .. MaxEdits]]
    /\ failed \in [Runners -> BOOLEAN]
    /\ toDelete \in [Runners -> SUBSET Versions]
    /\ edits \in 0 .. MaxEdits /\ failures \in 0 .. MaxFailures
    /\ since \in [Versions -> SUBSET Segments] /\ served \subseteq Versions
    /\ mishap \in BOOLEAN

NoRows == [s \in Segments |-> 0]

\* The site has been set up and nobody has rebuilt anything yet.
IndexInit ==
    /\ stored = NoRows /\ reads = {}
    /\ indices = {1} /\ mapped = {1} /\ alias = 1 /\ served = {1}
    /\ docs = [i \in Versions |-> NoRows]
    /\ command = [r \in Runners |-> "idle"]
    /\ from = [r \in Runners |-> NoIndex] /\ target = [r \in Runners |-> NoIndex]
    /\ lastId = [r \in Runners |-> 0] /\ page = [r \in Runners |-> NoRows]
    /\ failed = [r \in Runners |-> FALSE] /\ toDelete = [r \in Runners |-> {}]
    /\ edits = 0 /\ failures = 0
    /\ since = [i \in Versions |-> {}] /\ mishap = FALSE

-----------------------------------------------------------------------------
\* The site.

\* The transaction that adds or changes a segment commits.
EditRow(s) ==
    /\ edits < MaxEdits /\ edits' = edits + 1
    /\ stored' = [stored EXCEPT ![s] = edits']
    /\ since' = [i \in Versions |-> IF i \in indices THEN since[i] \cup {s} ELSE {}]
    /\ UNCHANGED <<reads, search, runners, failures, served, mishap>>

\* A sync job reads the row as it is committed.  It was sent from within a transaction
\* that may commit later, or never, so there may be one of any row at any time.
SyncReads(s) ==
    /\ stored[s] > 0
    /\ reads' = reads \cup {<<s, stored[s]>>}
    /\ UNCHANGED <<stored, search, runners, edits, failures, history>>

\* It writes what it has read through the alias, however late.  A job that fails is
\* one that never gets here, and a reading stays: another job may have read the same.
SyncWrites(s, v) ==
    /\ <<s, v>> \in reads /\ alias # NoIndex
    /\ docs' = [docs EXCEPT ![alias][s] = v]
    /\ since' = [since EXCEPT ![alias] = IF v = stored[s] THEN @ \ {s} ELSE @ \cup {s}]
    /\ UNCHANGED <<stored, reads, indices, mapped, alias, runners, edits, failures,
                   served, mishap>>

SiteStep(s) == EditRow(s) \/ SyncReads(s) \/ \E v \in 0 .. MaxEdits : SyncWrites(s, v)

-----------------------------------------------------------------------------
\* The commands.  Each begins by asking where the alias is.

Becomes(r, step) == command' = [command EXCEPT ![r] = step]
Fault == failures < MaxFailures /\ failures' = failures + 1

\* Elasticsearch deletes the index and the alias that is on it.
DeleteIndex(i) ==
    /\ indices' = indices \ {i} /\ mapped' = mapped \ {i}
    /\ alias' = IF alias = i THEN NoIndex ELSE alias
    /\ docs' = [docs EXCEPT ![i] = NoRows]
    /\ since' = [since EXCEPT ![i] = {}]
    /\ served' = served \ {i}

\* Elasticsearch moves the alias unless it was moved meanwhile: then it would have
\* two write indices, which is refused.
MovesAlias(r) == from[r] = alias /\ target[r] \in indices

\* Cleanups are followed by everything else, or everything else by cleanups.
Alone(r, step) ==
    \A q \in Runners \ {r} :
      /\ step = "others" => command[q] = "idle"
      /\ command[q] \notin {"others", "delete"}

resolvePhysicalIndex(r) ==
    /\ command[r] = "idle" /\ alias # NoIndex
    /\ \E step \in {"create", "list", "others"} :
         /\ step = "create" => alias < MaxIndex
         /\ Becomes(r, step)
         /\ mishap' = (mishap \/ ~Alone(r, step))
    /\ from' = [from EXCEPT ![r] = alias]
    /\ UNCHANGED <<stored, reads, search, target, lastId, page, failed, toDelete,
                   edits, failures, since, served>>

nextVersionName(current) == current + 1

\* The new index is created within the part that cleans up (a mutant).
createInsideTry(r) ==
    LET new == nextVersionName(from[r]) IN
    /\ command[r] = "create"
    /\ target' = [target EXCEPT ![r] = new]
    /\ IF new \in indices
         THEN Becomes(r, "drop") /\ UNCHANGED <<search, since>>
         ELSE /\ Becomes(r, "fill")
              /\ indices' = indices \cup {new} /\ mapped' = mapped \cup {new}
              /\ docs' = [docs EXCEPT ![new] = NoRows]
              /\ since' = [since EXCEPT ![new] = {}]
              /\ UNCHANGED alias
    /\ lastId' = [lastId EXCEPT ![r] = 0] /\ failed' = [failed EXCEPT ![r] = FALSE]
    /\ UNCHANGED <<stored, reads, from, page, toDelete, edits, failures, served, mishap>>

\* reindexZeroDowntime creates the new index, which must not be there yet.
CreateTarget(r) ==
    LET new == nextVersionName(from[r]) IN
    /\ command[r] = "create"
    /\ IF new \in indices
         THEN Becomes(r, "idle") /\ UNCHANGED <<search, target, since>>
         ELSE /\ Becomes(r, "fill")
              /\ target' = [target EXCEPT ![r] = new]
              /\ indices' = indices \cup {new} /\ mapped' = mapped \cup {new}
              /\ docs' = [docs EXCEPT ![new] = NoRows]
              /\ since' = [since EXCEPT ![new] = {}]
              /\ UNCHANGED alias
    /\ lastId' = [lastId EXCEPT ![r] = 0] /\ failed' = [failed EXCEPT ![r] = FALSE]
    /\ UNCHANGED <<stored, reads, from, page, toDelete, edits, failures, served, mishap>>

-----------------------------------------------------------------------------
\* Filling the index, a page at a time.

\* The rows after the last id, in the order of their ids.
Rest(r) == {s \in Segments : s > lastId[r] /\ stored[s] > 0}
NextPage(r) == {s \in Rest(r) : Cardinality({q \in Rest(r) : q < s}) < PageSize}

ReadPage(r) ==
    /\ command[r] = "fill"
    /\ IF Rest(r) = {}
         THEN /\ Becomes(r, IF failed[r] THEN "drop" ELSE "swap")
              /\ UNCHANGED page
         ELSE /\ Becomes(r, "write")
              /\ page' = [page EXCEPT ![r] =
                            [s \in Segments |-> IF s \in NextPage(r) THEN stored[s] ELSE 0]]
    /\ UNCHANGED <<stored, reads, search, from, target, lastId, failed, toDelete, edits,
                   failures, history>>

\* Elasticsearch takes the documents of the set, and creates the index if it is
\* gone, without its schema.
Takes(i, rows_, set) ==
    /\ docs' = [docs EXCEPT ![i] = [s \in Segments |-> IF s \in set THEN rows_[s] ELSE @[s]]]
    /\ indices' = indices \cup {i} /\ UNCHANGED <<mapped, alias>>

OnPage(r) == {s \in Segments : page[r][s] > 0}

\* Only a request that failed is a failure (a mutant).
countRequestsOnly(r) ==
    /\ command[r] = "write"
    /\ \E done \in SUBSET OnPage(r) :
         /\ Takes(target[r], page[r], done)
         /\ IF done = OnPage(r) THEN UNCHANGED failures ELSE Fault
    /\ lastId' = [lastId EXCEPT ![r] = Max(OnPage(r))]
    /\ page' = [page EXCEPT ![r] = NoRows]
    /\ Becomes(r, "fill")
    /\ UNCHANGED <<stored, reads, from, target, failed, toDelete, edits, history>>

\* bulkIndex: some documents may be refused, and the rebuild goes on to the end.
WritePage(r) ==
    /\ command[r] = "write"
    /\ \E done \in SUBSET OnPage(r) :
         /\ Takes(target[r], page[r], done)
         /\ IF done = OnPage(r) THEN UNCHANGED <<failed, failures>>
            ELSE Fault /\ failed' = [failed EXCEPT ![r] = TRUE]
    /\ lastId' = [lastId EXCEPT ![r] = Max(OnPage(r))]
    /\ page' = [page EXCEPT ![r] = NoRows]
    /\ Becomes(r, "fill")
    /\ UNCHANGED <<stored, reads, from, target, toDelete, edits, history>>

\* A query or a request fails as a whole, the request done or not.
FillFails(r) ==
    /\ command[r] \in {"fill", "write"}
    /\ Fault /\ Becomes(r, "drop")
    /\ IF command[r] = "write" THEN \E done \in {{}, OnPage(r)} : Takes(target[r], page[r], done)
       ELSE UNCHANGED search
    /\ page' = [page EXCEPT ![r] = NoRows]
    /\ UNCHANGED <<stored, reads, from, target, lastId, failed, toDelete, edits, history>>

\* Refresh, and both halves of the swap at once.
Swap(r) ==
    /\ command[r] = "swap"
    /\ IF MovesAlias(r)
         THEN /\ alias' = target[r] /\ served' = served \cup {target[r]}
              /\ \/ Becomes(r, "idle") /\ UNCHANGED <<failures, mishap>>
                 \* The answer is lost.
                 \/ Becomes(r, "drop") /\ Fault /\ mishap' = TRUE
         ELSE Becomes(r, "drop") /\ UNCHANGED <<alias, served, failures, mishap>>
    /\ UNCHANGED <<stored, reads, indices, mapped, docs, from, target, lastId, page,
                   failed, toDelete, edits, since>>

\* The refresh or the swap fails.
SwapFails(r) ==
    /\ command[r] = "swap" /\ Fault /\ Becomes(r, "drop")
    /\ UNCHANGED <<stored, reads, search, from, target, lastId, page, failed, toDelete,
                   edits, history>>

\* The index of a rebuild that failed is deleted, if that can be done.
Drop(r) ==
    /\ command[r] = "drop" /\ Becomes(r, "idle")
    /\ \/ DeleteIndex(target[r]) /\ UNCHANGED failures
       \/ Fault /\ UNCHANGED <<search, since, served>>
    /\ UNCHANGED <<stored, reads, from, target, lastId, page, failed, toDelete, edits,
                   mishap>>

-----------------------------------------------------------------------------
\* Going back, and cleaning up.

\* The newest index the alias is not on (a mutant).
newestOther(r) ==
    LET previous == indices \ {from[r]} IN
    /\ command[r] = "list"
    /\ IF previous = {} THEN Becomes(r, "idle") /\ UNCHANGED target
       ELSE Becomes(r, "rollback") /\ target' = [target EXCEPT ![r] = Max(previous)]
    /\ UNCHANGED <<stored, reads, search, from, lastId, page, failed, toDelete, edits,
                   failures, history>>

\* rollbackAlias goes to the newest index older than the one in use.
ListPrevious(r) ==
    LET previous == {i \in indices : i < from[r]} IN
    /\ command[r] = "list"
    /\ IF previous = {} THEN Becomes(r, "idle") /\ UNCHANGED target
       ELSE Becomes(r, "rollback") /\ target' = [target EXCEPT ![r] = Max(previous)]
    /\ UNCHANGED <<stored, reads, search, from, lastId, page, failed, toDelete, edits,
                   failures, history>>

rollbackAlias(r) ==
    /\ command[r] = "rollback" /\ Becomes(r, "idle")
    /\ IF MovesAlias(r) THEN alias' = target[r] ELSE UNCHANGED alias
    /\ UNCHANGED <<stored, reads, indices, mapped, docs, from, target, lastId, page,
                   failed, toDelete, edits, failures, history>>

\* cleanupOldIndices lists what it is to delete,
ListOthers(r) ==
    /\ command[r] = "others"
    /\ toDelete' = [toDelete EXCEPT ![r] = indices \ {from[r]}]
    /\ Becomes(r, IF toDelete'[r] = {} THEN "idle" ELSE "delete")
    /\ UNCHANGED <<stored, reads, search, from, target, lastId, page, failed, edits,
                   failures, history>>

\* and deletes them in turn, until one is not there any more.
cleanupOldIndices(r) ==
    LET i == Min(toDelete[r]) IN
    /\ command[r] = "delete"
    /\ toDelete' = [toDelete EXCEPT ![r] = IF i \in indices THEN @ \ {i} ELSE {}]
    /\ Becomes(r, IF toDelete'[r] = {} THEN "idle" ELSE "delete")
    /\ DeleteIndex(i)
    /\ UNCHANGED <<stored, reads, from, target, lastId, page, failed, edits, failures,
                   mishap>>

\* The process of the command dies.
CommandDies(r) ==
    /\ command[r] # "idle" /\ Fault /\ Becomes(r, "idle")
    /\ page' = [page EXCEPT ![r] = NoRows] /\ toDelete' = [toDelete EXCEPT ![r] = {}]
    /\ UNCHANGED <<stored, reads, search, from, target, lastId, failed, edits, history>>

IndexNext ==
    \/ \E s \in Segments : SiteStep(s)
    \/ \E r \in Runners :
         \/ resolvePhysicalIndex(r) \/ CreateTarget(r) \/ ReadPage(r) \/ WritePage(r)
         \/ FillFails(r) \/ Swap(r) \/ SwapFails(r) \/ Drop(r)
         \/ ListPrevious(r) \/ rollbackAlias(r) \/ ListOthers(r) \/ cleanupOldIndices(r)
         \/ CommandDies(r)

IndexSpec == IndexInit /\ [][IndexNext]_ivars

-----------------------------------------------------------------------------
\* Properties.  Two things break them, and are left to mishap: a swap that was done
\* and not answered is taken for a failure, and the index search is on deleted; and
\* a cleanup deletes what another command is filling or has just moved to.

\* There is an index with the schema under the alias, whatever fails, dies or
\* overlaps: in particular two rebuilds that chose the same name never clean up
\* after each other.  What it lacks of a row was edited after it was created, or
\* undone by a job that had read the row before an edit, and no job has written the
\* row to it as it is since: a rebuild that goes live has every row of the time it
\* began, and neither its pages nor the swap put back or leave out anything else.
AliasIsServed ==
    ~mishap => /\ alias \in mapped
               /\ \A s \in Segments : docs[alias][s] # stored[s] => s \in since[alias]

\* A rollback serves what was served before, never what a rebuild that died or is
\* still running has left half filled.
RollbackServesWhatWasServed ==
    [][\A r \in Runners :
         command[r] = "rollback" /\ command'[r] = "idle" /\ alias' # alias /\ ~mishap
         => alias' \in served]_ivars
=============================================================================
