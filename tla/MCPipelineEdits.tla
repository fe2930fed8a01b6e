-------------------------- MODULE MCPipelineEdits ---------------------------
(***************************************************************************)
(* SegmentPipeline for its safety, one of three instances chosen at the    *)
(* start: one segment that is edited, parsed and indexed, whose sentence   *)
(* changes; two segments of one sentence that are moderated and indexed;   *)
(* and two that are also uploaded again, with no worker at work.           *)
(***************************************************************************)
EXTENDS MCSegmentPipeline

VARIABLE part

MCInit == Init /\ part \in {"tokens", "history", "again"}

Touched == {s \in Segments : Exists(s) \/ \E e \in Editors : s \in tgt[e]}

Said == {row[s].ja : s \in Ingested} \cup
        UNION {{draft[e][s].ja : s \in {x \in Segments : draft[e][x] # NoRow}} : e \in Editors}

Tokens ==
    /\ Cardinality(Touched) <= 1
    /\ \A e \in Editors : op[e] # "moderate"
    /\ \A s \in Ingested : row[s].at = 0
    /\ \A e \in Editors, s \in Segments : draft[e][s] # NoRow => draft[e][s].at = 0

History ==
    /\ Cardinality(Said) <= 1 /\ parseq = {}
    /\ \A e \in Editors : op[e] # "create"

\* Only an upload counts as an edit and leaves every editor where it is.
UploadsOnce == edits' # edits /\ pc' = pc => \A s \in Ingested : row'[s] = row[s]

MCNext ==
    /\ Next
    /\ CASE part = "tokens"  -> Tokens' /\ UploadsOnce
         [] part = "history" -> History' /\ UploadsOnce
         [] part = "again"   -> History' /\ syncq' = {} /\ faults' = 0
    /\ UNCHANGED part

MCSpec == MCInit /\ [][MCNext]_<<vars, part>>
=============================================================================
