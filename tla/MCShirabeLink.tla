---------------------------- MODULE MCShirabeLink ----------------------------
(***************************************************************************)
(* ShirabeLink on small instances, chosen by part at the start: "pair" has *)
(* two handlers that link, re-link, renew and re-read the stack at once,   *)
(* with faults, after which no further token expires; in "alone" nothing   *)
(* fails, tokens become due and are renewed before they expire, and one    *)
(* handler at a time links or unlinks, beside lookups and refreshes.       *)
(* Grants and handlers differ only by the order in which they are used, so *)
(* both may be permuted.                                                   *)
(* Nobody changes the key the tokens are sealed with: what the script that *)
(* does so undoes is no handler's promise (NoReseal).                      *)
(***************************************************************************)
EXTENDS ShirabeLink, TLC

VARIABLE part

Symmetry == Permutations(Grants) \cup Permutations(Workers)

Links(w) == op[w] \in {"complete", "unlink"}

MCInit == Init /\ part \in {"pair", "alone"}

MCNext ==
    /\ Next /\ UNCHANGED part
    /\ \A w \in Workers : op'[w] # "reencrypt"
    /\ part = "pair"  =>
         /\ \A w \in Workers : op'[w] \notin {"lookup", "unlink"}
         /\ faults > 0 => \A p \in Pair : age'[p] = "expired" => age[p] = "expired"
    /\ part = "alone" => /\ faults' = 0
                         /\ \A p \in Pair : age'[p] # "expired"
                         /\ \A v, w \in Workers : (Links(v) /\ Links(w))' => v = w

MCSpec == MCInit /\ [][MCNext]_<<vars, part>>

\* While links are made and undone one at a time and Shirabe answers, no grant is
\* live at Shirabe that nothing here refers to any more: a link that fails after the
\* code was redeemed gives its grant back (theorem NothingIsOrphaned).
AloneLeavesNoOrphan == part = "alone" => NoOrphanGrant
=============================================================================
