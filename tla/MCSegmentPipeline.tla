-------------------------- MODULE MCSegmentPipeline --------------------------
(***************************************************************************)
(* SegmentPipeline for TLC.  The constants are given their values by the   *)
(* .cfg files; a run leaves out the workers its question does not depend   *)
(* on.  The runs of safety properties take segments, sentences, editors    *)
(* and workers up to renaming: no definition tells one from another.       *)
(***************************************************************************)
EXTENDS SegmentPipeline, TLC

Symmetry == Permutations(Segments) \cup Permutations(Texts)
            \cup Permutations(Editors) \cup Permutations(Parsers)
            \cup Permutations(Indexers)
=============================================================================
