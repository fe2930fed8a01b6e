----------------------------- MODULE RevisionLog -----------------------------
(***************************************************************************)
(* What an editor is promised about the history of the segments: an edit   *)
(* and its revision happen together or not at all, the revision holds      *)
(* exactly what the edit replaced, and no revision is ever lost, changed   *)
(* or renumbered.  Ingestion replaces what a segment says without a trace. *)
(***************************************************************************)
EXTENDS Naturals, Sequences

CONSTANTS Segments, Snapshots, Nothing

VARIABLES
    says,   \* what each segment says now, or Nothing
    log     \* what each said before each of its edits, oldest first

promised == <<says, log>>

Init ==
    /\ says = [s \in Segments |-> Nothing]
    /\ log = [s \in Segments |-> <<>>]

\* The segments of S are edited together, each to what new has for it.
Record(S, new) ==
    /\ \A s \in S : says[s] # Nothing
    /\ says' = [s \in Segments |-> IF s \in S THEN new[s] ELSE says[s]]
    /\ log' = [s \in Segments |->
                 IF s \in S THEN Append(log[s], says[s]) ELSE log[s]]

Ingest(S, new) ==
    /\ says' = [s \in Segments |-> IF s \in S THEN new[s] ELSE says[s]]
    /\ UNCHANGED log

Next ==
    \E S \in SUBSET Segments : \E new \in [S -> Snapshots] :
        Record(S, new) \/ Ingest(S, new)

Spec == Init /\ [][Next]_promised
=============================================================================
