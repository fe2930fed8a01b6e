--------------------------- MODULE MCPipelineJobs ---------------------------
(***************************************************************************)
(* SegmentPipeline for its liveness, one of two instances chosen at the    *)
(* start: in the first everybody edits and things fail, and no index       *)
(* worker runs; in the second segments are only uploaded, uploaded again   *)
(* and parsed, all of it succeeds, and two index workers follow, as the    *)
(* CREATE and UPDATE queues each have a worker of their own.               *)
(***************************************************************************)
EXTENDS SegmentPipeline, TLC

VARIABLE part

MCInit == Init /\ part \in {"parse", "index"}

MCNext ==
    /\ Next
    /\ part = "parse" => UNCHANGED <<docs, doc>>
    /\ part = "index" =>
         /\ faults' = 0 /\ \A e \in Editors : pc'[e] = "idle"
         /\ \A s \in Segments : row'[s] # NoRow => row'[s].status = "ACTIVE"
    /\ UNCHANGED part

MCSpec ==
    /\ MCInit /\ [][MCNext]_<<vars, part>>
    /\ \A e \in Editors : WF_vars(Edits(e)) /\ SF_vars(LockSegments(e))
    /\ \A x \in Sends : WF_vars(SendArrives(x))
    /\ \A p \in Parsers : WF_vars(Parses(p)) /\ SF_vars(WriteTokens(p))
    /\ \A i \in Indexers : WF_vars(part = "index" /\ Indexes(i))
    /\ WF_vars(handleTokenSweep)

\* No segment is in the hands of two index workers at once.
NoOverlap ==
    \A s \in Segments : \A i, j \in Indexers :
        s \in Fetched(i) \cap Fetched(j) => i = j

\* Search comes to show what is uploaded, uploaded again and parsed, in executions
\* in which a row is never with two index workers at once: every one of those writes
\* is followed by a sync that reads the row after it.  When it is with two, the later
\* write may be of the earlier reading (run index_race), and an edit's sync may read
\* the row before the edit commits (run stale_edit).
UploadsReachTheIndex == part = "index" => ([]NoOverlap => IndexCatchesUp)
=============================================================================
