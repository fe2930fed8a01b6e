--------------------------- MODULE MCShirabeWaits ---------------------------
(***************************************************************************)
(* What waits for Shirabe, and whether it comes to an end: one of three    *)
(* instances, chosen at the start.  Two are ShirabeLink on one grant: in   *)
(* the first nothing fails and no key is changed; in the second calls are  *)
(* lost and workers die, no word is looked up and tokens fall due without  *)
(* expiring.  The third is ParseLimiter, with two calls at once.           *)
(***************************************************************************)
EXTENDS ShirabeLink, ParseLimiter, TLC

CONSTANTS c1, c2    \* a call of four chunks, and one of one

MCChunks == [c \in Calls |-> IF c = c1 THEN 4 ELSE 1]

VARIABLE part

MCInit == Init /\ LimiterInit /\ part \in {"marks", "deaths", "parses"}

LinkNext ==
    /\ part # "parses" /\ Next
    /\ part = "marks" => faults' = 0 /\ \A w \in Workers : op'[w] # "reencrypt"
    /\ part = "deaths" => /\ \A w \in Workers : op'[w] # "lookup"
                          /\ \A p \in Pair : age'[p] # "expired"
    /\ UNCHANGED pvars

ParsesNext == part = "parses" /\ LimiterNext /\ UNCHANGED vars

MCNext == (LinkNext \/ ParsesNext) /\ UNCHANGED part

MCSpec ==
    /\ MCInit /\ [][MCNext]_<<vars, pvars, part>>
    /\ \A w \in Workers : /\ WF_vars(part # "parses" /\ RunsFreely(w))
                          /\ SF_vars(part # "parses" /\ WaitsForRow(w))
    /\ \A l \in Lanes : WF_pvars(part = "parses" /\ (takeSlot(l) \/ ChunkIsParsed(l)))
=============================================================================
