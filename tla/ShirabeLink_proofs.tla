-------------------------- MODULE ShirabeLink_proofs --------------------------
(***************************************************************************)
(* Proofs about ShirabeLink, for any number of handlers, grants, renewals  *)
(* and faults: the invariant IInv is preserved by every step (one lemma    *)
(* for each action, one step for each conjunct of IInv), and the           *)
(* properties of the token pair follow from it; so does the refinement of  *)
(* TokenLedger.  What a mark means, and that no grant is left behind, have *)
(* an invariant each on top of it.                                         *)
(*                                                                         *)
(* Everything is proved for a link that is not being re-encrypted:         *)
(* reencryptTokens saves an entity that may be out of date, and undoes a   *)
(* renewal that was stored after it was read.                              *)
(***************************************************************************)
EXTENDS ShirabeLink, TLAPS

NoReseal == "reencrypt" \notin Ops

\* A handler that finishes leaves every field of its own at its idle value.
LEMMA TypeOfFinish ==
    ASSUME TypeOK, NEW w \in Workers, Finish(w)
    PROVE  /\ pc' \in [Workers -> Steps]
           /\ op' \in [Workers -> Operations \cup {"none"}]
           /\ ent' \in [Workers -> Row \cup {NoRow}]
           /\ held' \in [Workers -> Pair \cup {NoPair}]
           /\ pair' \in [Workers -> Pair \cup {NoPair}]
BY DEF TypeOK, Finish, Go, Steps

\* A request that arrives holds nothing yet.
LEMMA StartLookupStep ==
    ASSUME TypeOK, IInv, NoReseal,
           NEW w \in Workers, StartLookup(w)
    PROVE  TypeOK' /\ IInv'
<1>1. TypeOK'
  BY DEF TypeOK, StartLookup, Start, Go, shirabe, history, Steps, Operations
<1>2. LockInv'
  BY DEF IInv, LockInv, StartLookup, Start, At, Go
<1>3. HandlerInv'
  BY DEF IInv, HandlerInv, StartLookup, Start, At, Go
<1>4. FreshInv'
  BY DEF IInv, FreshInv, Fresh, StartLookup, Start, Go, shirabe, history
<1>5. AdoptedInv'
  BY DEF IInv, AdoptedInv, StartLookup, Start, history
<1>6. NewestInv'
  BY DEF IInv, NewestInv, StoredPairIsNewest, StartLookup, Start, At, Go,
    shirabe, history
<1>7. ReplayOnlyAfterLoss'
  BY DEF IInv, ReplayOnlyAfterLoss, StartLookup, history
<1> QED BY <1>1, <1>2, <1>3, <1>4, <1>5, <1>6, <1>7 DEF IInv

\* A request that arrives holds nothing yet.
LEMMA StartRefreshStep ==
    ASSUME TypeOK, IInv, NoReseal,
           NEW w \in Workers, StartRefresh(w)
    PROVE  TypeOK' /\ IInv'
<1>1. TypeOK'
  BY DEF TypeOK, StartRefresh, Start, Go, shirabe, history, Steps, Operations
<1>2. LockInv'
  BY DEF IInv, LockInv, StartRefresh, Start, At, Go
<1>3. HandlerInv'
  BY DEF IInv, HandlerInv, StartRefresh, Start, At, Go
<1>4. FreshInv'
  BY DEF IInv, FreshInv, Fresh, StartRefresh, Start, Go, shirabe, history
<1>5. AdoptedInv'
  BY DEF IInv, AdoptedInv, StartRefresh, Start, history
<1>6. NewestInv'
  BY DEF IInv, NewestInv, StoredPairIsNewest, StartRefresh, Start, At, Go,
    shirabe, history
<1>7. ReplayOnlyAfterLoss'
  BY DEF IInv, ReplayOnlyAfterLoss, StartRefresh, history
<1> QED BY <1>1, <1>2, <1>3, <1>4, <1>5, <1>6, <1>7 DEF IInv

\* The pair a link is completed with is the first of its grant, whatever
\* becomes of the exchange.
LEMMA StartCompleteStep ==
    ASSUME TypeOK, IInv, NoReseal,
           NEW w \in Workers, NEW g \in Grants, StartComplete(w, g)
    PROVE  TypeOK' /\ IInv'
<1>1. TypeOK'
  BY LinkAssumption DEF TypeOK, StartComplete, Start, Go, First, Pair,
    history, Steps
<1>2. LockInv'
  BY DEF IInv, LockInv, StartComplete, Start, At, Go
<1>3. HandlerInv'
  BY LinkAssumption DEF TypeOK, IInv, HandlerInv, StartComplete, Start, Go,
    First, Pair
<1>4. FreshInv'
  BY DEF IInv, FreshInv, Fresh, StartComplete, Start, At, Go, history
<1>5. AdoptedInv'
  BY DEF IInv, AdoptedInv, StartComplete, Start, history
<1>6. NewestInv'
  BY DEF IInv, NewestInv, StoredPairIsNewest, StartComplete, Start, At, Go,
    history
<1>7. ReplayOnlyAfterLoss'
  BY DEF IInv, ReplayOnlyAfterLoss, StartComplete, history
<1> QED BY <1>1, <1>2, <1>3, <1>4, <1>5, <1>6, <1>7 DEF IInv

\* A request that arrives holds nothing yet.
LEMMA StartUnlinkStep ==
    ASSUME TypeOK, IInv, NoReseal,
           NEW w \in Workers, StartUnlink(w)
    PROVE  TypeOK' /\ IInv'
<1>1. TypeOK'
  BY DEF TypeOK, StartUnlink, Start, Go, shirabe, history, Steps, Operations
<1>2. LockInv'
  BY DEF IInv, LockInv, StartUnlink, Start, At, Go
<1>3. HandlerInv'
  BY DEF IInv, HandlerInv, StartUnlink, Start, At, Go
<1>4. FreshInv'
  BY DEF IInv, FreshInv, Fresh, StartUnlink, Start, Go, shirabe, history
<1>5. AdoptedInv'
  BY DEF IInv, AdoptedInv, StartUnlink, Start, history
<1>6. NewestInv'
  BY DEF IInv, NewestInv, StoredPairIsNewest, StartUnlink, Start, At, Go,
    shirabe, history
<1>7. ReplayOnlyAfterLoss'
  BY DEF IInv, ReplayOnlyAfterLoss, StartUnlink, history
<1> QED BY <1>1, <1>2, <1>3, <1>4, <1>5, <1>6, <1>7 DEF IInv

\* Cannot happen: NoReseal.
LEMMA StartReencryptStep ==
    ASSUME TypeOK, IInv, NoReseal,
           NEW w \in Workers, StartReencrypt(w)
    PROVE  TypeOK' /\ IInv'
<1>1. TypeOK'
  BY DEF StartReencrypt, Start, NoReseal
<1>2. LockInv'
  BY DEF LockInv, StartReencrypt, Start, NoReseal
<1>3. HandlerInv'
  BY DEF HandlerInv, StartReencrypt, Start, NoReseal
<1>4. FreshInv'
  BY DEF FreshInv, Fresh, StartReencrypt, Start, NoReseal
<1>5. AdoptedInv'
  BY DEF AdoptedInv, StartReencrypt, Start, NoReseal
<1>6. NewestInv'
  BY DEF NewestInv, StoredPairIsNewest, StartReencrypt, Start, NoReseal
<1>7. ReplayOnlyAfterLoss'
  BY DEF ReplayOnlyAfterLoss, StartReencrypt, Start, NoReseal
<1> QED BY <1>1, <1>2, <1>3, <1>4, <1>5, <1>6, <1>7 DEF IInv

\* The entity read is the row, whose grant was adopted.
LEMMA FindConnectionStep ==
    ASSUME TypeOK, IInv, NoReseal,
           NEW w \in Workers, FindConnection(w)
    PROVE  TypeOK' /\ IInv'
<1>1. TypeOK'
  BY DEF TypeOK, FindConnection, Finish, Go, shirabe, history, Steps
<1>2. LockInv'
  BY DEF TypeOK, IInv, LockInv, FindConnection, Finish, At, Go
<1>3. HandlerInv'
  BY DEF TypeOK, IInv, HandlerInv, FindConnection, Finish, Go
<1>4. FreshInv'
  BY DEF TypeOK, IInv, FreshInv, Fresh, FindConnection, Finish, Go, shirabe,
    history
<1>5. AdoptedInv'
  BY DEF TypeOK, IInv, AdoptedInv, FindConnection, Finish, history
<1>6. NewestInv'
  BY DEF TypeOK, IInv, NewestInv, StoredPairIsNewest, FindConnection, Finish,
    At, Go, shirabe, history
<1>7. ReplayOnlyAfterLoss'
  BY DEF IInv, ReplayOnlyAfterLoss, FindConnection, history
<1> QED BY <1>1, <1>2, <1>3, <1>4, <1>5, <1>6, <1>7 DEF IInv

\* Only a pair on the row is handed out or held back for the lock.
LEMMA FindTokenStep ==
    ASSUME TypeOK, IInv, NoReseal,
           NEW w \in Workers, FindToken(w)
    PROVE  TypeOK' /\ IInv'
<1>1. TypeOK'
  BY DEF TypeOK, FindToken, Finish, Go, HandOut, Connected, Row, shirabe,
    history, Steps
<1>2. LockInv'
  BY DEF TypeOK, IInv, LockInv, FindToken, Finish, At, Go, HandOut
<1>3. HandlerInv'
  BY LinkAssumption DEF TypeOK, IInv, HandlerInv, FindToken, Finish, Go,
    HandOut, Connected, Row
<1>4. FreshInv'
  BY LinkAssumption DEF TypeOK, IInv, FreshInv, Fresh, FindToken, Finish, Go,
    HandOut, shirabe, history
<1>5. AdoptedInv'
  BY DEF TypeOK, IInv, AdoptedInv, FindToken, Finish, HandOut, history
<1>6. NewestInv'
  BY DEF TypeOK, IInv, NewestInv, StoredPairIsNewest, FindToken, Finish, At,
    Go, HandOut, shirabe, history
<1>7. ReplayOnlyAfterLoss'
  BY DEF IInv, ReplayOnlyAfterLoss, FindToken, history
<1> QED BY <1>1, <1>2, <1>3, <1>4, <1>5, <1>6, <1>7 DEF IInv

\* The lock is taken with the pair of the row in hand, and that pair is the
\* newest of its grant unless its exchange was given up: presenting it is no
\* replay.
LEMMA LockRowStep ==
    ASSUME TypeOK, IInv, NoReseal,
           NEW w \in Workers, LockRow(w)
    PROVE  TypeOK' /\ IInv'
<1>1. TypeOK'
  BY DEF TypeOK, LockRow, Finish, Go, HandOut, Connected, Presented, Row,
    shirabe, history, Steps
<1>2. LockInv'
  BY LinkAssumption DEF TypeOK, IInv, LockInv, LockRow, Finish, Go, HandOut,
    Connected, Presented, RowIsFree
<1>3. HandlerInv'
  BY LinkAssumption DEF TypeOK, IInv, HandlerInv, LockRow, Finish, At, Go,
    HandOut, Connected, Presented, Row
<1>4. FreshInv'
  BY LinkAssumption DEF TypeOK, IInv, FreshInv, Fresh, LockRow, Finish, Go,
    HandOut, shirabe, history
<1>5. AdoptedInv'
  BY DEF TypeOK, IInv, AdoptedInv, LockRow, Finish, HandOut, history
<1>6. NewestInv'
  BY DEF TypeOK, IInv, NewestInv, StoredPairIsNewest, LockRow, Finish, Go,
    HandOut, RowIsFree, shirabe, history
<1>7. ReplayOnlyAfterLoss'
  BY DEF IInv, ReplayOnlyAfterLoss, LockRow, history
<1> QED BY <1>1, <1>2, <1>3, <1>4, <1>5, <1>6, <1>7 DEF IInv

\* The heart of the matter: a pair presented under the lock is either unspent,
\* and rotates, or was given up before.
LEMMA ShirabeRenewsStep ==
    ASSUME TypeOK, IInv, NoReseal,
           NEW w \in Workers, ShirabeRenews(w)
    PROVE  TypeOK' /\ IInv'
<1>1. TypeOK'
  BY LinkAssumption DEF IInv, TypeOK, LockInv, HandlerInv, FreshInv, Fresh,
    NewestInv, StoredPairIsNewest, ShirabeRenews, At, Go, Redeem, GrantOver,
    Rollback, Steps, Row
<1>2. LockInv'
  BY DEF TypeOK, IInv, LockInv, ShirabeRenews, At, Go, GrantOver, Rollback
<1>3. HandlerInv'
  BY DEF TypeOK, IInv, HandlerInv, ShirabeRenews, At, Go, GrantOver
<1>4. FreshInv'
  BY LinkAssumption DEF TypeOK, IInv, FreshInv, Fresh, LockInv, HandlerInv,
    AdoptedInv, ShirabeRenews, At, Go, Redeem, GrantOver, Rollback, Pair
<1>5. AdoptedInv'
  BY DEF IInv, AdoptedInv, ShirabeRenews, GrantOver
<1>6. NewestInv'
  BY LinkAssumption DEF TypeOK, IInv, NewestInv, StoredPairIsNewest, LockInv,
    ShirabeRenews, At, Go, Redeem, GrantOver
<1>7. ReplayOnlyAfterLoss'
  BY LinkAssumption DEF IInv, ReplayOnlyAfterLoss, LockInv, NewestInv,
    StoredPairIsNewest, ShirabeRenews, At, Redeem
<1> QED BY <1>1, <1>2, <1>3, <1>4, <1>5, <1>6, <1>7 DEF IInv

\* The successor goes on the row the lock has kept since its predecessor was
\* read from it.
LEMMA StoreRenewalStep ==
    ASSUME TypeOK, IInv, NoReseal,
           NEW w \in Workers, StoreRenewal(w)
    PROVE  TypeOK' /\ IInv'
<1>1. TypeOK'
  BY LinkAssumption DEF IInv, TypeOK, LockInv, NewestInv, StoredPairIsNewest,
    StoreRenewal, At, Go, HandOut, Pair, Row, shirabe, history, Steps
<1>2. LockInv'
  BY DEF TypeOK, IInv, LockInv, StoreRenewal, At, Go, HandOut
<1>3. HandlerInv'
  BY LinkAssumption DEF TypeOK, IInv, HandlerInv, NewestInv,
    StoredPairIsNewest, StoreRenewal, At, Go, HandOut, Pair
<1>4. FreshInv'
  BY LinkAssumption DEF TypeOK, IInv, FreshInv, Fresh, LockInv, StoreRenewal,
    At, Go, HandOut, Pair, Row, shirabe, history
<1>5. AdoptedInv'
  BY DEF TypeOK, IInv, AdoptedInv, HandlerInv, FreshInv, Fresh, NewestInv,
    StoredPairIsNewest, StoreRenewal, At, HandOut, Pair, history
<1>6. NewestInv'
  BY LinkAssumption DEF TypeOK, IInv, NewestInv, StoredPairIsNewest, LockInv,
    StoreRenewal, At, Go, HandOut, Pair, Row, shirabe, history
<1>7. ReplayOnlyAfterLoss'
  BY DEF IInv, ReplayOnlyAfterLoss, StoreRenewal, history
<1> QED BY <1>1, <1>2, <1>3, <1>4, <1>5, <1>6, <1>7 DEF IInv

\* The pair on the row is given up, since its successor is lost.
LEMMA StoreRenewalFailsStep ==
    ASSUME TypeOK, IInv, NoReseal,
           NEW w \in Workers, StoreRenewalFails(w)
    PROVE  TypeOK' /\ IInv'
<1>1. TypeOK'
  BY LinkAssumption DEF IInv, TypeOK, StoreRenewalFails, At, Go, HandOut,
    Rollback, Fault, HandlerInv, shirabe, Steps
<1>2. LockInv'
  BY DEF TypeOK, IInv, LockInv, StoreRenewalFails, At, Go, HandOut, Rollback
<1>3. HandlerInv'
  BY DEF IInv, HandlerInv, StoreRenewalFails, At, Go, HandOut
<1>4. FreshInv'
  BY DEF IInv, FreshInv, Fresh, StoreRenewalFails, At, Go, HandOut, shirabe
<1>5. AdoptedInv'
  BY LinkAssumption DEF IInv, AdoptedInv, LockInv, StoreRenewalFails, At,
    HandOut
<1>6. NewestInv'
  <2>1. /\ pc[w] = "renewed" /\ UNCHANGED <<row, gen, stray>>
        /\ abandoned' = abandoned \cup {pair[w]}
        /\ pc' = [pc EXCEPT ![w] = "use"]
        /\ pair' = [pair EXCEPT ![w] = held[w]]
    BY DEF StoreRenewalFails, At, Go, HandOut, shirabe
  <2>2. lock = w /\ row # NoRow /\ row.pair = pair[w] /\ pair[w].n \in Nat
    BY <2>1, LinkAssumption DEF TypeOK, IInv, LockInv, Row, Pair
  <2>3. \A v \in Workers : pc[v] = "renewed" => v = w
    BY <2>2 DEF IInv, LockInv
  <2>4. StoredPairIsNewest'
    BY <2>1, <2>2 DEF StoredPairIsNewest
  <2>5. \A v \in Workers : pc'[v] # "renewed"
    BY <2>1, <2>3 DEF TypeOK
  <2>6. \A p \in abandoned' : row' # NoRow /\ p.g = row'.pair.g => p.n <= row'.pair.n
    BY <2>1, <2>2 DEF IInv, NewestInv
  <2>7. stray' \subseteq abandoned'
    BY <2>1 DEF IInv, NewestInv
  <2> QED
    BY <2>4, <2>5, <2>6, <2>7 DEF NewestInv
<1>7. ReplayOnlyAfterLoss'
  BY DEF IInv, ReplayOnlyAfterLoss, StoreRenewalFails
<1> QED BY <1>1, <1>2, <1>3, <1>4, <1>5, <1>6, <1>7 DEF IInv

\* A refusal rotates nothing, so the pair on the row stays the newest.
LEMMA RenewalRefusedStep ==
    ASSUME TypeOK, IInv, NoReseal,
           NEW w \in Workers, RenewalRefused(w)
    PROVE  TypeOK' /\ IInv'
<1>1. TypeOK'
  BY LinkAssumption DEF TypeOK, RenewalRefused, Go, HandOut, Rollback, Fault,
    shirabe, history, Steps
<1>2. LockInv'
  BY DEF TypeOK, IInv, LockInv, RenewalRefused, At, Go, HandOut, Rollback
<1>3. HandlerInv'
  BY DEF IInv, HandlerInv, RenewalRefused, At, Go, HandOut
<1>4. FreshInv'
  BY DEF IInv, FreshInv, Fresh, RenewalRefused, At, Go, HandOut, shirabe,
    history
<1>5. AdoptedInv'
  BY DEF IInv, AdoptedInv, RenewalRefused, HandOut, history
<1>6. NewestInv'
  BY DEF IInv, NewestInv, StoredPairIsNewest, LockInv, RenewalRefused, At, Go,
    HandOut, shirabe, history
<1>7. ReplayOnlyAfterLoss'
  BY DEF IInv, ReplayOnlyAfterLoss, RenewalRefused, history
<1> QED BY <1>1, <1>2, <1>3, <1>4, <1>5, <1>6, <1>7 DEF IInv

\* The pair is recorded as given up before the lock is let go.
LEMMA RenewalTimesOutStep ==
    ASSUME TypeOK, IInv, NoReseal,
           NEW w \in Workers, RenewalTimesOut(w)
    PROVE  TypeOK' /\ IInv'
<1>1. TypeOK'
  BY LinkAssumption DEF IInv, TypeOK, RenewalTimesOut, At, Go, HandOut,
    Rollback, Fault, HandlerInv, shirabe, Steps
<1>2. LockInv'
  BY DEF TypeOK, IInv, LockInv, RenewalTimesOut, At, Go, HandOut, Rollback
<1>3. HandlerInv'
  BY DEF IInv, HandlerInv, RenewalTimesOut, At, Go, HandOut
<1>4. FreshInv'
  BY DEF IInv, FreshInv, Fresh, RenewalTimesOut, At, Go, HandOut, shirabe
<1>5. AdoptedInv'
  BY LinkAssumption DEF IInv, AdoptedInv, LockInv, RenewalTimesOut, At,
    HandOut
<1>6. NewestInv'
  BY LinkAssumption DEF TypeOK, IInv, NewestInv, StoredPairIsNewest, LockInv,
    AdoptedInv, RenewalTimesOut, At, Go, HandOut
<1>7. ReplayOnlyAfterLoss'
  BY DEF IInv, ReplayOnlyAfterLoss, RenewalTimesOut
<1> QED BY <1>1, <1>2, <1>3, <1>4, <1>5, <1>6, <1>7 DEF IInv

\* An answer to the access token says nothing about the refresh token.
LEMMA ShirabeAnswersStep ==
    ASSUME TypeOK, IInv, NoReseal,
           NEW w \in Workers, ShirabeAnswers(w)
    PROVE  TypeOK' /\ IInv'
<1>1. TypeOK'
  BY DEF TypeOK, ShirabeAnswers, Go, Finish, shirabe, history, Steps
<1>2. LockInv'
  BY DEF TypeOK, IInv, LockInv, ShirabeAnswers, At, Go, Finish
<1>3. HandlerInv'
  BY DEF TypeOK, IInv, HandlerInv, ShirabeAnswers, Go, Finish
<1>4. FreshInv'
  BY DEF TypeOK, IInv, FreshInv, Fresh, ShirabeAnswers, Go, Finish, shirabe,
    history
<1>5. AdoptedInv'
  BY DEF TypeOK, IInv, AdoptedInv, ShirabeAnswers, Finish, history
<1>6. NewestInv'
  BY DEF TypeOK, IInv, NewestInv, StoredPairIsNewest, ShirabeAnswers, At, Go,
    Finish, shirabe, history
<1>7. ReplayOnlyAfterLoss'
  BY DEF IInv, ReplayOnlyAfterLoss, ShirabeAnswers, history
<1> QED BY <1>1, <1>2, <1>3, <1>4, <1>5, <1>6, <1>7 DEF IInv

\* The column-scoped update leaves the pair on the row alone.
LEMMA PatchStackStep ==
    ASSUME TypeOK, IInv, NoReseal,
           NEW w \in Workers, PatchStack(w)
    PROVE  TypeOK' /\ IInv'
<1>1. TypeOK'
  BY DEF TypeOK, PatchStack, Go, Finish, StackPatch, Row, shirabe, history,
    Steps
<1>2. LockInv'
  BY DEF IInv, LockInv, PatchStack, Go, Finish, RowIsFree
<1>3. HandlerInv'
  BY DEF IInv, HandlerInv, PatchStack, At, Go, Finish
<1>4. FreshInv'
  BY DEF IInv, FreshInv, Fresh, PatchStack, At, Go, Finish, StackPatch,
    shirabe, history
<1>5. AdoptedInv'
  BY DEF IInv, AdoptedInv, PatchStack, Finish, StackPatch, history
<1>6. NewestInv'
  BY DEF IInv, NewestInv, StoredPairIsNewest, PatchStack, At, Go, Finish,
    StackPatch, shirabe, history
<1>7. ReplayOnlyAfterLoss'
  BY DEF IInv, ReplayOnlyAfterLoss, PatchStack, history
<1> QED BY <1>1, <1>2, <1>3, <1>4, <1>5, <1>6, <1>7 DEF IInv

\* The entity read is the row, whose grant was adopted.
LEMMA ReportRefusalStep ==
    ASSUME TypeOK, IInv, NoReseal,
           NEW w \in Workers, ReportRefusal(w)
    PROVE  TypeOK' /\ IInv'
<1>1. TypeOK'
  BY DEF TypeOK, ReportRefusal, Go, Finish, shirabe, history, Steps
<1>2. LockInv'
  BY DEF TypeOK, IInv, LockInv, ReportRefusal, At, Go, Finish
<1>3. HandlerInv'
  BY DEF TypeOK, IInv, HandlerInv, ReportRefusal, Go, Finish
<1>4. FreshInv'
  BY DEF TypeOK, IInv, FreshInv, Fresh, ReportRefusal, Go, Finish, shirabe,
    history
<1>5. AdoptedInv'
  BY DEF TypeOK, IInv, AdoptedInv, ReportRefusal, Finish, history
<1>6. NewestInv'
  BY DEF TypeOK, IInv, NewestInv, StoredPairIsNewest, ReportRefusal, At, Go,
    Finish, shirabe, history
<1>7. ReplayOnlyAfterLoss'
  BY DEF IInv, ReplayOnlyAfterLoss, ReportRefusal, history
<1> QED BY <1>1, <1>2, <1>3, <1>4, <1>5, <1>6, <1>7 DEF IInv

\* The mark leaves the pair on the row alone.
LEMMA MarkDisconnectedStep ==
    ASSUME TypeOK, IInv, NoReseal,
           NEW w \in Workers, MarkDisconnected(w)
    PROVE  TypeOK' /\ IInv'
<1>1. TypeOK'
  BY DEF TypeOK, MarkDisconnected, Go, Finish, Row, shirabe, history, Steps
<1>2. LockInv'
  BY DEF IInv, LockInv, MarkDisconnected, Go, Finish, RowIsFree
<1>3. HandlerInv'
  BY DEF IInv, HandlerInv, MarkDisconnected, At, Go, Finish
<1>4. FreshInv'
  BY DEF IInv, FreshInv, Fresh, MarkDisconnected, At, Go, Finish, shirabe,
    history
<1>5. AdoptedInv'
  BY DEF IInv, AdoptedInv, MarkDisconnected, Finish, history
<1>6. NewestInv'
  BY DEF IInv, NewestInv, StoredPairIsNewest, MarkDisconnected, At, Go,
    Finish, shirabe, history
<1>7. ReplayOnlyAfterLoss'
  BY DEF IInv, ReplayOnlyAfterLoss, MarkDisconnected, history
<1> QED BY <1>1, <1>2, <1>3, <1>4, <1>5, <1>6, <1>7 DEF IInv

\* A code redeems once, so the grant is new to the row and only this handler
\* has it.
LEMMA ShirabeGrantsStep ==
    ASSUME TypeOK, IInv, NoReseal,
           NEW w \in Workers, ShirabeGrants(w)
    PROVE  TypeOK' /\ IInv'
<1>1. TypeOK'
  BY DEF TypeOK, ShirabeGrants, Go, Finish, history, Steps
<1>2. LockInv'
  BY DEF TypeOK, IInv, LockInv, ShirabeGrants, At, Go, Finish
<1>3. HandlerInv'
  BY DEF TypeOK, IInv, HandlerInv, ShirabeGrants, At, Go, Finish
<1>4. FreshInv'
  BY DEF TypeOK, IInv, FreshInv, Fresh, HandlerInv, ShirabeGrants, At, Go,
    Finish, Pair, history
<1>5. AdoptedInv'
  BY DEF TypeOK, IInv, AdoptedInv, ShirabeGrants, Finish, history
<1>6. NewestInv'
  BY DEF TypeOK, IInv, NewestInv, StoredPairIsNewest, ShirabeGrants, At, Go,
    Finish, history
<1>7. ReplayOnlyAfterLoss'
  BY DEF IInv, ReplayOnlyAfterLoss, ShirabeGrants, history
<1> QED BY <1>1, <1>2, <1>3, <1>4, <1>5, <1>6, <1>7 DEF IInv

\* The fresh grant stays in the hands of the handler that redeemed its code.
LEMMA CheckGrantStep ==
    ASSUME TypeOK, IInv, NoReseal,
           NEW w \in Workers, CheckGrant(w)
    PROVE  TypeOK' /\ IInv'
<1>1. TypeOK'
  BY DEF TypeOK, CheckGrant, Go, GiveBack, shirabe, history, Steps
<1>2. LockInv'
  BY DEF TypeOK, IInv, LockInv, CheckGrant, At, Go, GiveBack
<1>3. HandlerInv'
  BY DEF TypeOK, IInv, HandlerInv, CheckGrant, At, Go, GiveBack
<1>4. FreshInv'
  BY DEF TypeOK, IInv, FreshInv, Fresh, CheckGrant, At, Go, GiveBack, shirabe,
    history
<1>5. AdoptedInv'
  BY DEF IInv, AdoptedInv, CheckGrant, GiveBack, history
<1>6. NewestInv'
  BY DEF TypeOK, IInv, NewestInv, StoredPairIsNewest, CheckGrant, At, Go,
    GiveBack, shirabe, history
<1>7. ReplayOnlyAfterLoss'
  BY DEF IInv, ReplayOnlyAfterLoss, CheckGrant, history
<1> QED BY <1>1, <1>2, <1>3, <1>4, <1>5, <1>6, <1>7 DEF IInv

\* The entity read is the row, whose grant was adopted.
LEMMA LoadConnectionStep ==
    ASSUME TypeOK, IInv, NoReseal,
           NEW w \in Workers, LoadConnection(w)
    PROVE  TypeOK' /\ IInv'
<1>1. TypeOK'
  BY DEF TypeOK, LoadConnection, Go, shirabe, history, Steps
<1>2. LockInv'
  BY DEF IInv, LockInv, LoadConnection, At, Go
<1>3. HandlerInv'
  BY DEF IInv, HandlerInv, LoadConnection, At, Go
<1>4. FreshInv'
  BY DEF IInv, FreshInv, Fresh, LoadConnection, At, Go, shirabe, history
<1>5. AdoptedInv'
  BY DEF IInv, AdoptedInv, LoadConnection, history
<1>6. NewestInv'
  BY DEF IInv, NewestInv, StoredPairIsNewest, LoadConnection, At, Go, shirabe,
    history
<1>7. ReplayOnlyAfterLoss'
  BY DEF IInv, ReplayOnlyAfterLoss, LoadConnection, history
<1> QED BY <1>1, <1>2, <1>3, <1>4, <1>5, <1>6, <1>7 DEF IInv

\* A fresh grant goes on the row while nobody holds the lock; the one it
\* replaces, or itself if it is not stored, is next to be revoked.
LEMMA SaveConnectionStep ==
    ASSUME TypeOK, IInv, NoReseal,
           NEW w \in Workers, SaveConnection(w)
    PROVE  TypeOK' /\ IInv'
<1>1. TypeOK'
  <2>1. pair[w] \in Pair /\ pair[w].g \in Grants
    BY LinkAssumption DEF TypeOK, IInv, HandlerInv, SaveConnection, At, Pair
  <2>2. ent[w] # NoRow => ent[w].id \in Grants /\ ent[w].pair \in Pair
    BY DEF TypeOK, Row
  <2>3. row' \in Row \cup {NoRow}
    <3>1. \/ UNCHANGED row
          \/ \E i \in Grants : row' = [id |-> i, pair |-> pair[w], marked |-> FALSE]
      BY <2>1, <2>2 DEF SaveConnection, SaveEntity
    <3>2. \A i \in Grants : [id |-> i, pair |-> pair[w], marked |-> FALSE] \in Row
      BY <2>1 DEF Row
    <3> QED
      BY <3>1, <3>2 DEF TypeOK
  <2>4. adopted' \subseteq Grants
    BY <2>1 DEF TypeOK, SaveConnection
  <2>5. pair' \in [Workers -> Pair \cup {NoPair}]
    BY <2>2, TypeOfFinish DEF TypeOK, SaveConnection, GiveBack, Replaced
  <2> QED
    BY <2>3, <2>4, <2>5, TypeOfFinish
    DEF TypeOK, SaveConnection, GiveBack, Go, Steps, shirabe
<1>2. LockInv'
  BY DEF TypeOK, IInv, LockInv, SaveConnection, At, Go, Finish, SaveEntity,
    RowIsFree, GiveBack
<1>3. HandlerInv'
  BY LinkAssumption DEF TypeOK, IInv, HandlerInv, SaveConnection, At, Go,
    Finish, GiveBack, Replaced, Row
<1>4. FreshInv'
  BY LinkAssumption DEF TypeOK, IInv, FreshInv, Fresh, LockInv, HandlerInv,
    AdoptedInv, NewestInv, StoredPairIsNewest, SaveConnection, At, Go, Finish,
    SaveEntity, Saves, RowIsFree, GiveBack, Replaced, Row, shirabe
<1>5. AdoptedInv'
  BY DEF TypeOK, IInv, AdoptedInv, SaveConnection, Finish, SaveEntity,
    GiveBack
<1>6. NewestInv'
  BY DEF TypeOK, IInv, NewestInv, StoredPairIsNewest, LockInv, HandlerInv,
    FreshInv, Fresh, AdoptedInv, SaveConnection, At, Go, Finish, SaveEntity,
    Saves, GiveBack, Pair, shirabe
<1>7. ReplayOnlyAfterLoss'
  BY DEF IInv, ReplayOnlyAfterLoss, SaveConnection
<1> QED BY <1>1, <1>2, <1>3, <1>4, <1>5, <1>6, <1>7 DEF IInv

\* The fresh grant stays fresh, and is next to be revoked.
LEMMA SaveFailsStep ==
    ASSUME TypeOK, IInv, NoReseal,
           NEW w \in Workers, SaveFails(w)
    PROVE  TypeOK' /\ IInv'
<1>1. TypeOK'
  BY LinkAssumption DEF TypeOK, SaveFails, Go, Fault, GiveBack, shirabe,
    history, Steps
<1>2. LockInv'
  BY DEF IInv, LockInv, SaveFails, At, Go, GiveBack
<1>3. HandlerInv'
  BY DEF IInv, HandlerInv, SaveFails, At, Go, GiveBack
<1>4. FreshInv'
  BY DEF IInv, FreshInv, Fresh, SaveFails, At, Go, GiveBack, shirabe, history
<1>5. AdoptedInv'
  BY DEF IInv, AdoptedInv, SaveFails, GiveBack, history
<1>6. NewestInv'
  BY DEF IInv, NewestInv, StoredPairIsNewest, SaveFails, At, Go, GiveBack,
    shirabe, history
<1>7. ReplayOnlyAfterLoss'
  BY DEF IInv, ReplayOnlyAfterLoss, SaveFails, history
<1> QED BY <1>1, <1>2, <1>3, <1>4, <1>5, <1>6, <1>7 DEF IInv

\* Revoking a grant changes no pair.
LEMMA ReleaseGrantStep ==
    ASSUME TypeOK, IInv, NoReseal,
           NEW w \in Workers, ReleaseGrant(w)
    PROVE  TypeOK' /\ IInv'
<1>1. TypeOK'
  BY DEF TypeOK, ReleaseGrant, Go, Finish, Revoke, history, Steps
<1>2. LockInv'
  BY DEF IInv, LockInv, ReleaseGrant, At, Go, Finish
<1>3. HandlerInv'
  BY DEF TypeOK, IInv, HandlerInv, ReleaseGrant, Go, Finish
<1>4. FreshInv'
  BY DEF TypeOK, IInv, FreshInv, Fresh, ReleaseGrant, Go, Finish, Revoke,
    history
<1>5. AdoptedInv'
  BY DEF IInv, AdoptedInv, ReleaseGrant, Finish, history
<1>6. NewestInv'
  BY DEF IInv, NewestInv, StoredPairIsNewest, ReleaseGrant, At, Go, Finish,
    history
<1>7. ReplayOnlyAfterLoss'
  BY DEF IInv, ReplayOnlyAfterLoss, ReleaseGrant, history
<1> QED BY <1>1, <1>2, <1>3, <1>4, <1>5, <1>6, <1>7 DEF IInv

\* Revoking a grant changes no pair.
LEMMA UnlinkRevokesStep ==
    ASSUME TypeOK, IInv, NoReseal,
           NEW w \in Workers, UnlinkRevokes(w)
    PROVE  TypeOK' /\ IInv'
<1>1. TypeOK'
  BY DEF TypeOK, UnlinkRevokes, Go, Revoke, history, Steps
<1>2. LockInv'
  BY DEF IInv, LockInv, UnlinkRevokes, At, Go
<1>3. HandlerInv'
  BY DEF IInv, HandlerInv, UnlinkRevokes, At, Go
<1>4. FreshInv'
  BY DEF IInv, FreshInv, Fresh, UnlinkRevokes, Go, Revoke, history
<1>5. AdoptedInv'
  BY DEF IInv, AdoptedInv, UnlinkRevokes, history
<1>6. NewestInv'
  BY DEF IInv, NewestInv, StoredPairIsNewest, UnlinkRevokes, At, Go, history
<1>7. ReplayOnlyAfterLoss'
  BY DEF IInv, ReplayOnlyAfterLoss, UnlinkRevokes, history
<1> QED BY <1>1, <1>2, <1>3, <1>4, <1>5, <1>6, <1>7 DEF IInv

\* A grant that is not revoked is not on the row either.
LEMMA RevokeFailsStep ==
    ASSUME TypeOK, IInv, NoReseal,
           NEW w \in Workers, RevokeFails(w)
    PROVE  TypeOK' /\ IInv'
<1>1. TypeOK'
  BY LinkAssumption DEF TypeOK, RevokeFails, Go, Finish, Fault, shirabe,
    history, Steps
<1>2. LockInv'
  BY DEF TypeOK, IInv, LockInv, RevokeFails, At, Go, Finish
<1>3. HandlerInv'
  BY DEF TypeOK, IInv, HandlerInv, RevokeFails, At, Go, Finish
<1>4. FreshInv'
  BY DEF TypeOK, IInv, FreshInv, Fresh, RevokeFails, Go, Finish, shirabe,
    history
<1>5. AdoptedInv'
  BY DEF TypeOK, IInv, AdoptedInv, RevokeFails, Finish, history
<1>6. NewestInv'
  BY DEF TypeOK, IInv, NewestInv, StoredPairIsNewest, RevokeFails, At, Go,
    Finish, shirabe, history
<1>7. ReplayOnlyAfterLoss'
  BY DEF IInv, ReplayOnlyAfterLoss, RevokeFails, history
<1> QED BY <1>1, <1>2, <1>3, <1>4, <1>5, <1>6, <1>7 DEF IInv

\* The row goes while nobody holds the lock.
LEMMA RemoveConnectionStep ==
    ASSUME TypeOK, IInv, NoReseal,
           NEW w \in Workers, RemoveConnection(w)
    PROVE  TypeOK' /\ IInv'
<1>1. TypeOK'
  BY DEF TypeOK, RemoveConnection, Go, Finish, shirabe, history, Steps
<1>2. LockInv'
  BY DEF IInv, LockInv, RemoveConnection, Go, Finish, RowIsFree
<1>3. HandlerInv'
  BY DEF TypeOK, IInv, HandlerInv, RemoveConnection, Go, Finish
<1>4. FreshInv'
  BY DEF IInv, FreshInv, Fresh, RemoveConnection, At, Go, Finish, shirabe,
    history
<1>5. AdoptedInv'
  BY DEF IInv, AdoptedInv, RemoveConnection, Finish, history
<1>6. NewestInv'
  BY DEF IInv, NewestInv, StoredPairIsNewest, RemoveConnection, At, Go,
    Finish, shirabe, history
<1>7. ReplayOnlyAfterLoss'
  BY DEF IInv, ReplayOnlyAfterLoss, RemoveConnection, history
<1> QED BY <1>1, <1>2, <1>3, <1>4, <1>5, <1>6, <1>7 DEF IInv

\* Cannot happen: NoReseal.
LEMMA ReencryptTokensStep ==
    ASSUME TypeOK, IInv, NoReseal,
           NEW w \in Workers, ReencryptTokens(w)
    PROVE  TypeOK' /\ IInv'
<1>1. TypeOK'
  BY DEF IInv, HandlerInv, ReencryptTokens, At, NoReseal
<1>2. LockInv'
  BY DEF IInv, LockInv, HandlerInv, ReencryptTokens, At, NoReseal
<1>3. HandlerInv'
  BY DEF IInv, HandlerInv, ReencryptTokens, At, NoReseal
<1>4. FreshInv'
  BY DEF IInv, FreshInv, Fresh, HandlerInv, ReencryptTokens, At, NoReseal
<1>5. AdoptedInv'
  BY DEF IInv, AdoptedInv, HandlerInv, ReencryptTokens, At, NoReseal
<1>6. NewestInv'
  BY DEF IInv, NewestInv, StoredPairIsNewest, HandlerInv, ReencryptTokens, At,
    NoReseal
<1>7. ReplayOnlyAfterLoss'
  BY DEF IInv, ReplayOnlyAfterLoss, ReencryptTokens, history
<1> QED BY <1>1, <1>2, <1>3, <1>4, <1>5, <1>6, <1>7 DEF IInv

\* A grant nobody knows of is never adopted.
LEMMA ExchangeLostStep ==
    ASSUME TypeOK, IInv, NoReseal,
           NEW w \in Workers, ExchangeLost(w)
    PROVE  TypeOK' /\ IInv'
<1>1. TypeOK'
  BY LinkAssumption DEF TypeOK, ExchangeLost, Go, Finish, Fault, history,
    Steps
<1>2. LockInv'
  BY DEF IInv, LockInv, ExchangeLost, At, Go, Finish
<1>3. HandlerInv'
  BY DEF TypeOK, IInv, HandlerInv, ExchangeLost, Go, Finish
<1>4. FreshInv'
  BY DEF TypeOK, IInv, FreshInv, Fresh, HandlerInv, ExchangeLost, Go, Finish,
    Pair, history
<1>5. AdoptedInv'
  BY DEF IInv, AdoptedInv, ExchangeLost, Finish, history
<1>6. NewestInv'
  BY DEF IInv, NewestInv, StoredPairIsNewest, ExchangeLost, At, Go, Finish,
    history
<1>7. ReplayOnlyAfterLoss'
  BY DEF IInv, ReplayOnlyAfterLoss, ExchangeLost, history
<1> QED BY <1>1, <1>2, <1>3, <1>4, <1>5, <1>6, <1>7 DEF IInv

\* What the handler had sent counts as given up, and its lock goes with its
\* transaction.
LEMMA CrashStep ==
    ASSUME TypeOK, IInv, NoReseal,
           NEW w \in Workers, Crash(w)
    PROVE  TypeOK' /\ IInv'
<1>1. TypeOK'
  BY LinkAssumption DEF IInv, TypeOK, HandlerInv, Crash, At, Go, Finish,
    Fault, shirabe, Steps
<1>2. LockInv'
  BY DEF TypeOK, IInv, LockInv, Crash, Go, Finish
<1>3. HandlerInv'
  BY DEF TypeOK, IInv, HandlerInv, Crash, Go, Finish
<1>4. FreshInv'
  BY DEF TypeOK, IInv, FreshInv, Fresh, Crash, Go, Finish, shirabe
<1>5. AdoptedInv'
  BY LinkAssumption DEF IInv, AdoptedInv, LockInv, Crash, At, Finish
<1>6. NewestInv'
  BY LinkAssumption DEF TypeOK, IInv, NewestInv, StoredPairIsNewest, LockInv,
    Crash, At, Go, Finish, Pair, Row, shirabe
<1>7. ReplayOnlyAfterLoss'
  BY DEF IInv, ReplayOnlyAfterLoss, Crash
<1> QED BY <1>1, <1>2, <1>3, <1>4, <1>5, <1>6, <1>7 DEF IInv

\* A request that was given up is the only one that may find its pair spent.
LEMMA StrayArrivesStep ==
    ASSUME TypeOK, IInv, NoReseal,
           NEW p \in Pair, StrayArrives(p)
    PROVE  TypeOK' /\ IInv'
<1>1. TypeOK'
  BY LinkAssumption DEF TypeOK, HandlerInv, StrayArrives, Redeem, handlers
<1>2. LockInv'
  BY DEF IInv, LockInv, StrayArrives, handlers
<1>3. HandlerInv'
  BY DEF IInv, HandlerInv, StrayArrives, handlers
<1>4. FreshInv'
  BY DEF TypeOK, IInv, FreshInv, Fresh, HandlerInv, AdoptedInv, NewestInv,
    StoredPairIsNewest, StrayArrives, Redeem, Pair, handlers
<1>5. AdoptedInv'
  BY DEF IInv, AdoptedInv, StrayArrives, handlers
<1>6. NewestInv'
  BY LinkAssumption DEF TypeOK, IInv, NewestInv, StoredPairIsNewest, LockInv,
    StrayArrives, Redeem, Pair, At, Row, handlers
<1>7. ReplayOnlyAfterLoss'
  BY DEF IInv, ReplayOnlyAfterLoss, NewestInv, StoredPairIsNewest,
    StrayArrives, Redeem
<1> QED BY <1>1, <1>2, <1>3, <1>4, <1>5, <1>6, <1>7 DEF IInv

\* A grant that ends keeps its number of renewals.
LEMMA ReaderRevokesStep ==
    ASSUME TypeOK, IInv, NoReseal,
           NEW g \in Grants, ReaderRevokes(g)
    PROVE  TypeOK' /\ IInv'
<1>1. TypeOK'
  BY DEF TypeOK, ReaderRevokes, handlers, history
<1>2. LockInv'
  BY DEF IInv, LockInv, ReaderRevokes, handlers
<1>3. HandlerInv'
  BY DEF IInv, HandlerInv, ReaderRevokes, handlers
<1>4. FreshInv'
  BY DEF IInv, FreshInv, Fresh, ReaderRevokes, handlers, history
<1>5. AdoptedInv'
  BY DEF IInv, AdoptedInv, ReaderRevokes, handlers, history
<1>6. NewestInv'
  BY DEF IInv, NewestInv, StoredPairIsNewest, ReaderRevokes, At, handlers,
    history
<1>7. ReplayOnlyAfterLoss'
  BY DEF IInv, ReplayOnlyAfterLoss, ReaderRevokes, history
<1> QED BY <1>1, <1>2, <1>3, <1>4, <1>5, <1>6, <1>7 DEF IInv

\* The clock touches nothing but the age of a token.
LEMMA TokenBecomesDueStep ==
    ASSUME TypeOK, IInv, NoReseal,
           NEW p \in Pair, TokenBecomesDue(p)
    PROVE  TypeOK' /\ IInv'
<1>1. TypeOK'
  BY DEF TypeOK, TokenBecomesDue, handlers, history
<1>2. LockInv'
  BY DEF IInv, LockInv, TokenBecomesDue, handlers
<1>3. HandlerInv'
  BY DEF IInv, HandlerInv, TokenBecomesDue, handlers
<1>4. FreshInv'
  BY DEF IInv, FreshInv, Fresh, TokenBecomesDue, handlers, history
<1>5. AdoptedInv'
  BY DEF IInv, AdoptedInv, TokenBecomesDue, handlers, history
<1>6. NewestInv'
  BY DEF IInv, NewestInv, StoredPairIsNewest, TokenBecomesDue, At, handlers,
    history
<1>7. ReplayOnlyAfterLoss'
  BY DEF IInv, ReplayOnlyAfterLoss, TokenBecomesDue, history
<1> QED BY <1>1, <1>2, <1>3, <1>4, <1>5, <1>6, <1>7 DEF IInv

\* The clock touches nothing but the age of a token.
LEMMA TokenExpiresStep ==
    ASSUME TypeOK, IInv, NoReseal,
           NEW p \in Pair, TokenExpires(p)
    PROVE  TypeOK' /\ IInv'
<1>1. TypeOK'
  BY DEF TypeOK, TokenExpires, handlers, history
<1>2. LockInv'
  BY DEF IInv, LockInv, TokenExpires, handlers
<1>3. HandlerInv'
  BY DEF IInv, HandlerInv, TokenExpires, handlers
<1>4. FreshInv'
  BY DEF IInv, FreshInv, Fresh, TokenExpires, handlers, history
<1>5. AdoptedInv'
  BY DEF IInv, AdoptedInv, TokenExpires, handlers, history
<1>6. NewestInv'
  BY DEF IInv, NewestInv, StoredPairIsNewest, TokenExpires, At, handlers,
    history
<1>7. ReplayOnlyAfterLoss'
  BY DEF IInv, ReplayOnlyAfterLoss, TokenExpires, history
<1> QED BY <1>1, <1>2, <1>3, <1>4, <1>5, <1>6, <1>7 DEF IInv

\* The empty database, with nothing in flight, satisfies the invariant.
LEMMA InitInv == Init => TypeOK /\ IInv
<1> SUFFICES ASSUME Init PROVE TypeOK /\ IInv
  OBVIOUS
<1>1. TypeOK
  BY LinkAssumption DEF Init, TypeOK, Steps
<1>2. LockInv /\ HandlerInv
  BY LinkAssumption DEF Init, LockInv, HandlerInv
<1>3. FreshInv /\ AdoptedInv
  BY DEF Init, FreshInv, Fresh, AdoptedInv
<1>4. NewestInv /\ ReplayOnlyAfterLoss
  BY DEF Init, NewestInv, StoredPairIsNewest, ReplayOnlyAfterLoss
<1> QED
  BY <1>1, <1>2, <1>3, <1>4 DEF IInv

\* So does every state after a step from one that does.
LEMMA NextInv ==
    ASSUME TypeOK, IInv, NoReseal, [Next]_vars
    PROVE  TypeOK' /\ IInv'
<1>1. CASE UNCHANGED vars
  <2> USE <1>1 DEF vars, handlers, shirabe, history
  <2>1. TypeOK'
    BY DEF TypeOK
  <2>2. LockInv' /\ HandlerInv' /\ FreshInv' /\ AdoptedInv'
    BY DEF IInv, LockInv, HandlerInv, FreshInv, Fresh, AdoptedInv
  <2>3. NewestInv' /\ ReplayOnlyAfterLoss'
    BY DEF IInv, NewestInv, StoredPairIsNewest, At, ReplayOnlyAfterLoss
  <2> QED
    BY <2>1, <2>2, <2>3 DEF IInv
<1>2. ASSUME NEW w \in Workers, Arrives(w) PROVE TypeOK' /\ IInv'
  BY <1>2, StartLookupStep, StartRefreshStep, StartCompleteStep,
     StartUnlinkStep, StartReencryptStep DEF Arrives
<1>3. ASSUME NEW w \in Workers, RunsFreely(w) PROVE TypeOK' /\ IInv'
  BY <1>3, FindConnectionStep, FindTokenStep, ShirabeRenewsStep,
     StoreRenewalStep, ShirabeAnswersStep, ReportRefusalStep,
     ShirabeGrantsStep, CheckGrantStep, LoadConnectionStep, ReleaseGrantStep,
     UnlinkRevokesStep DEF RunsFreely
<1>4. ASSUME NEW w \in Workers, WaitsForRow(w) PROVE TypeOK' /\ IInv'
  BY <1>4, LockRowStep, PatchStackStep, MarkDisconnectedStep,
     SaveConnectionStep, RemoveConnectionStep, ReencryptTokensStep
     DEF WaitsForRow
<1>5. ASSUME NEW w \in Workers, Fails(w) PROVE TypeOK' /\ IInv'
  BY <1>5, StoreRenewalFailsStep, RenewalRefusedStep, RenewalTimesOutStep, SaveFailsStep,
     RevokeFailsStep, ExchangeLostStep, CrashStep DEF Fails
<1>6. CASE Environment
  BY <1>6, StrayArrivesStep, TokenBecomesDueStep, TokenExpiresStep,
     ReaderRevokesStep DEF Environment
<1> QED
  BY <1>1, <1>2, <1>3, <1>4, <1>5, <1>6 DEF Next

\* Without re-encryption every state the handlers reach is of the right type,
\* and the invariant behind the properties below holds in it.
THEOREM Invariance == ASSUME NoReseal PROVE Spec => [](TypeOK /\ IInv)
<1>1. TypeOK /\ IInv /\ [Next]_vars => (TypeOK /\ IInv)'
  BY NextInv
<1> QED
  BY InitInv, <1>1, PTL DEF Spec

\* No variable of the link ever leaves its type; in particular no stored pair
\* is numbered past what Shirabe issues.
THEOREM TypeCorrect == ASSUME NoReseal PROVE Spec => []TypeOK
BY Invariance, PTL

\* However many handlers run, the refresh token Shirabe sees spent twice is one
\* whose first exchange was given up without an answer.
THEOREM NeverReplayed == ASSUME NoReseal PROVE Spec => []ReplayOnlyAfterLoss
<1>1. IInv => ReplayOnlyAfterLoss
  BY DEF IInv
<1> QED
  BY Invariance, <1>1, PTL

\* The row never falls behind the pair Shirabe issued last, lost answers apart.
THEOREM NewestIsStored == ASSUME NoReseal PROVE Spec => []StoredPairIsNewest
<1>1. IInv => StoredPairIsNewest
  BY DEF IInv, NewestInv
<1> QED
  BY Invariance, <1>1, PTL

\* What completing a link revokes, replaced or not stored, is never the grant
\* the row lives on at that moment.
THEOREM LinkIsSpared == ASSUME NoReseal PROVE Spec => ReleaseSparesTheLink
<1>1. ASSUME TypeOK, IInv, NEW w \in Workers, ReleaseGrant(w), row # NoRow
      PROVE  row.pair.g # pair[w].g
  <2>1. CASE Fresh(w)
    BY <1>1, <2>1 DEF IInv, AdoptedInv, Fresh
  <2>2. CASE ~Fresh(w)
    BY <1>1, <2>2 DEF IInv, FreshInv, ReleaseGrant, At
  <2> QED
    BY <2>1, <2>2
<1>2. TypeOK /\ IInv =>
        \A w \in Workers : ReleaseGrant(w) =>
          row = NoRow \/ row.pair.g # pair[w].g \/ grant[pair[w].g] # "live"
  BY <1>1
<1> QED
  BY Invariance, <1>2, PTL DEF ReleaseSparesTheLink

-----------------------------------------------------------------------------
(***************************************************************************)
(* The handlers of ShirabeLink implement TokenLedger: every step of theirs *)
(* is a step of the ledger or leaves it alone.                             *)
(***************************************************************************)

\* The ledger does not see a step that leaves alone what it is made of.
LEMMA LedgerStutters ==
    ASSUME UNCHANGED <<lock, gen, abandoned, adopted>>, Stored' = Stored,
           lock # NoWorker => pair'[lock] = pair[lock]
    PROVE  UNCHANGED Ledger!ledger
BY DEF Ledger!ledger, Sent, Spent

\* A handler between two steps of its own that do not hold the row lock.
LEMMA NotTheHolder ==
    ASSUME TypeOK, IInv, NEW w \in Workers, pc[w] \notin {"renew", "renewed"}
    PROVE  lock # w
BY LinkAssumption DEF TypeOK, IInv, LockInv

\* What the handlers that never touch the token on file do is invisible.
LEMMA BystandersStutter ==
    ASSUME TypeOK, IInv, NoReseal, NEW w \in Workers,
           \/ Arrives(w)
           \/ FindConnection(w) \/ FindToken(w) \/ ShirabeAnswers(w)
           \/ ReportRefusal(w) \/ ShirabeGrants(w) \/ CheckGrant(w)
           \/ LoadConnection(w) \/ ReleaseGrant(w) \/ UnlinkRevokes(w)
           \/ PatchStack(w) \/ MarkDisconnected(w) \/ ReencryptTokens(w)
           \/ SaveFails(w) \/ RevokeFails(w) \/ ExchangeLost(w)
    PROVE  UNCHANGED Ledger!ledger
<1>1. pc[w] \notin {"renew", "renewed"}
  BY DEF Arrives, StartLookup, StartRefresh, StartUnlink, StartReencrypt,
         StartComplete, Start, FindConnection, FindToken, ShirabeAnswers,
         ReportRefusal, ShirabeGrants, CheckGrant, LoadConnection,
         ReleaseGrant, UnlinkRevokes, PatchStack, MarkDisconnected,
         ReencryptTokens, SaveFails, RevokeFails, ExchangeLost, At
<1>2. UNCHANGED <<lock, gen, abandoned, adopted>>
  BY DEF Arrives, StartLookup, StartRefresh, StartUnlink, StartReencrypt,
         StartComplete, FindConnection, FindToken, ShirabeAnswers,
         ReportRefusal, ShirabeGrants, CheckGrant, LoadConnection,
         ReleaseGrant, UnlinkRevokes, PatchStack, MarkDisconnected,
         ReencryptTokens, SaveFails, RevokeFails, ExchangeLost,
         shirabe, history
<1>3. ~ReencryptTokens(w)
  BY DEF IInv, HandlerInv, NoReseal, ReencryptTokens, At
<1>4. Stored' = Stored
  <2>1. CASE PatchStack(w) \/ MarkDisconnected(w)
    <3>1. CASE row = NoRow
      BY <2>1, <3>1 DEF PatchStack, StackPatch, MarkDisconnected, Stored
    <3>2. CASE row # NoRow
      <4>1. \E b \in BOOLEAN : row' = [row EXCEPT !.marked = b]
        BY <2>1, <3>2 DEF PatchStack, StackPatch, MarkDisconnected
      <4>2. row' \in Row /\ row'.pair = row.pair
        BY <3>2, <4>1 DEF TypeOK, Row
      <4> QED
        BY <3>2, <4>2, LinkAssumption DEF Stored
    <3> QED
      BY <3>1, <3>2
  <2>2. CASE ~(PatchStack(w) \/ MarkDisconnected(w))
    BY <1>3, <2>2
    DEF Arrives, StartLookup, StartRefresh, StartUnlink, StartReencrypt,
        StartComplete, FindConnection, FindToken, ShirabeAnswers,
        ReportRefusal, ShirabeGrants, CheckGrant, LoadConnection,
        ReleaseGrant, UnlinkRevokes, SaveFails, RevokeFails, ExchangeLost,
        Stored
  <2> QED
    BY <2>1, <2>2
<1>5. \A v \in Workers : v # w => pair'[v] = pair[v]
  BY DEF TypeOK, Arrives, StartLookup, StartRefresh, StartUnlink,
         StartReencrypt, StartComplete, FindConnection, FindToken, HandOut,
         ShirabeAnswers, ReportRefusal, ShirabeGrants, CheckGrant, GiveBack,
         LoadConnection, ReleaseGrant, UnlinkRevokes, PatchStack,
         MarkDisconnected, ReencryptTokens, SaveFails, RevokeFails,
         ExchangeLost, Finish, handlers
<1>6. lock # NoWorker => pair'[lock] = pair[lock]
  BY <1>1, <1>5, NotTheHolder DEF TypeOK
<1> QED
  BY <1>2, <1>4, <1>6, LedgerStutters

\* When nobody is between an answer and its commit, a pair on file that Shirabe
\* has already traded is one whose exchange was given up.
LEMMA OnFileIsUnspent ==
    ASSUME TypeOK, IInv, row # NoRow, lock # NoWorker => pc[lock] = "renew"
    PROVE  row.pair \in Spent => row.pair \in abandoned
BY DEF TypeOK, Row, Pair, IInv, NewestInv, StoredPairIsNewest, At, Spent

\* The holder of the lock has sent the pair on file.
LEMMA HolderSentTheRow ==
    ASSUME TypeOK, IInv, NEW w \in Workers, pc[w] \in {"renew", "renewed"}
    PROVE  /\ lock = w /\ row # NoRow /\ row.pair = pair[w] /\ pair[w] \in Pair
           /\ Sent = pair[w] /\ Stored = pair[w] /\ Sent # NoPair
BY LinkAssumption DEF TypeOK, Row, IInv, LockInv, Sent, Stored

\* Redeeming a pair makes it the only one newly spent.
LEMMA RedeemedIsSpent ==
    ASSUME TypeOK, NEW p \in Pair, Redeem(p)
    PROVE  \/ UNCHANGED gen
           \/ p \notin Spent /\ Spent' = Spent \cup {p} /\ gen'[p.g] = p.n + 1
<1>1. p.g \in Grants /\ p.n \in 0 .. MaxRenewals
  BY DEF Pair
<1>2. ASSUME p.n = gen[p.g], gen' = [gen EXCEPT ![p.g] = @ + 1]
      PROVE  p \notin Spent /\ Spent' = Spent \cup {p} /\ gen'[p.g] = p.n + 1
  <2>1. gen[p.g] \in 0 .. MaxRenewals /\ gen'[p.g] = p.n + 1 /\ p \notin Spent
    BY <1>1, <1>2 DEF TypeOK, Spent
  <2>2. ASSUME NEW q \in Pair PROVE q.n < gen'[q.g] <=> q.n < gen[q.g] \/ q = p
    <3>1. q = [g |-> q.g, n |-> q.n] /\ p = [g |-> p.g, n |-> p.n]
          /\ q.g \in Grants /\ q.n \in 0 .. MaxRenewals
      BY DEF Pair
    <3>2. CASE q.g = p.g
      BY <1>1, <1>2, <2>1, <3>1, <3>2, LinkAssumption DEF TypeOK
    <3>3. CASE q.g # p.g
      BY <1>1, <1>2, <3>1, <3>3 DEF TypeOK
    <3> QED
      BY <3>2, <3>3
  <2> QED
    BY <2>1, <2>2 DEF Spent
<1> QED
  BY <1>2 DEF Redeem

\* The pair the lock is taken with is sent, as the ledger's Send.
LEMMA LockRowSends ==
    ASSUME TypeOK, IInv, NEW w \in Workers, LockRow(w)
    PROVE  Ledger!Send \/ UNCHANGED Ledger!ledger
<1>1. lock = NoWorker /\ UNCHANGED <<row, gen, abandoned, adopted>>
  BY DEF LockRow, RowIsFree, shirabe, history
<1>2. CASE UNCHANGED lock
  BY <1>1, <1>2, LedgerStutters DEF Stored
<1>3. CASE ~UNCHANGED lock
  <2>1. lock' = w /\ row # NoRow /\ pair'[w] = row.pair /\ row.pair \in Pair
    BY <1>3 DEF LockRow, Connected, Presented, TypeOK, Row
  <2>2. Sent = NoPair /\ Sent' = row.pair /\ Stored = row.pair /\ row.pair # NoPair
    BY <1>1, <2>1, LinkAssumption DEF Sent, Stored
  <2>3. Stored \in Spent => Stored \in abandoned
    BY <1>1, <2>1, <2>2, OnFileIsUnspent
  <2>4. UNCHANGED <<Stored, Spent, abandoned, adopted>>
    BY <1>1 DEF Stored, Spent
  <2> QED
    BY <2>2, <2>3, <2>4 DEF Ledger!Send
<1> QED
  BY <1>2, <1>3

\* An answered renewal spends the pair that was sent, or gives it up.
LEMMA ShirabeRenewsSpends ==
    ASSUME TypeOK, IInv, NEW w \in Workers, ShirabeRenews(w)
    PROVE  (\E t \in Ledger!Token : Ledger!Spend(t)) \/ Ledger!GiveUp
<1>1. pc[w] = "renew" /\ Redeem(pair[w]) /\ UNCHANGED <<row, abandoned, adopted>>
  BY DEF ShirabeRenews, At
<1>2. lock = w /\ row # NoRow /\ row.pair = pair[w] /\ pair[w] \in Pair
      /\ Sent = pair[w] /\ Stored = pair[w] /\ Sent # NoPair
  BY <1>1, HolderSentTheRow
<1>3. CASE gen' = gen
  <2>1. lock' = NoWorker
    BY <1>3 DEF ShirabeRenews, Rollback
  <2>2. Sent \in Spent => Sent \in abandoned
    BY <1>1, <1>2, OnFileIsUnspent
  <2> QED
    BY <1>1, <1>2, <1>3, <2>1, <2>2 DEF Ledger!GiveUp, Sent, Stored, Spent
<1>4. CASE gen' # gen
  <2>1. UNCHANGED <<lock, pair>>
    BY <1>4 DEF ShirabeRenews
  <2>2. pair[w] \notin Spent /\ Spent' = Spent \cup {pair[w]}
    BY <1>1, <1>2, <1>4, RedeemedIsSpent
  <2>3. UNCHANGED <<Sent, Stored>>
    BY <1>1, <2>1 DEF Sent, Stored
  <2>4. Ledger!Spend(pair[w])
    BY <1>1, <1>2, <2>2, <2>3 DEF Ledger!Spend
  <2> QED
    BY <1>2, <2>4 DEF Ledger!Token, Pair
<1> QED
  BY <1>3, <1>4

\* The commit of a renewal puts the successor on file.
LEMMA StoreRenewalRotates ==
    ASSUME TypeOK, IInv, NEW w \in Workers, StoreRenewal(w)
    PROVE  Ledger!Rotate
<1>1. pc[w] = "renewed" /\ lock' = NoWorker /\ UNCHANGED <<gen, abandoned, adopted>>
  BY DEF StoreRenewal, At, shirabe, history
<1>2. row # NoRow /\ pair[w] \in Pair /\ Sent = pair[w] /\ Sent # NoPair
  BY <1>1, HolderSentTheRow
<1>3. pair[w].g \in Grants /\ pair[w].n \in Nat /\ gen[pair[w].g] = pair[w].n + 1
  BY <1>1, <1>2, LinkAssumption DEF Pair, IInv, NewestInv
<1>4. DEFINE next == [pair[w] EXCEPT !.n = @ + 1]
<1>5. next.g = pair[w].g /\ next.n = pair[w].n + 1
  BY <1>2 DEF Pair
<1>6. row' # NoRow /\ row'.pair = next
  <2>1. row' = [row EXCEPT !.pair = next] /\ row \in Row
    BY <1>2 DEF StoreRenewal, TypeOK
  <2>2. row'.pair = next
    BY <2>1 DEF Row
  <2>3. next \in Pair
    BY <1>2, <1>3, LinkAssumption DEF TypeOK, Pair
  <2>4. row' \in Row
    BY <2>1, <2>3 DEF Row
  <2> QED
    BY <2>2, <2>4, LinkAssumption
<1>7. Stored' = next /\ next = [Sent EXCEPT !.n = @ + 1] /\ Sent' = NoPair
  BY <1>1, <1>2, <1>6 DEF Stored, Sent
<1>8. Sent \in Spent /\ Stored' \notin Spent
  <2> HIDE DEF next
  <2>1. gen[next.g] = next.n
    BY <1>3, <1>5
  <2> QED
    BY <1>2, <1>3, <1>7, <2>1, LinkAssumption DEF TypeOK, Pair, Spent
<1> QED
  BY <1>1, <1>2, <1>7, <1>8 DEF Ledger!Rotate, Spent

\* A renewal without a good answer gives up the pair that was sent.
LEMMA RenewalGivenUp ==
    ASSUME TypeOK, IInv, NEW w \in Workers,
           RenewalRefused(w) \/ RenewalTimesOut(w)
    PROVE  Ledger!GiveUp
<1>1. /\ pc[w] = "renew" /\ lock' = NoWorker /\ UNCHANGED <<row, gen, adopted>>
      /\ UNCHANGED abandoned \/ abandoned' = abandoned \cup {pair[w]}
  BY DEF RenewalRefused, RenewalTimesOut, Rollback, At, shirabe, history
<1>2. row # NoRow /\ row.pair = pair[w] /\ Sent = pair[w] /\ Sent # NoPair
      /\ lock = w
  BY <1>1, HolderSentTheRow
<1>3. Sent \in Spent => Sent \in abandoned
  BY <1>1, <1>2, OnFileIsUnspent
<1>4. Sent' = NoPair /\ UNCHANGED <<Stored, Spent>>
  BY <1>1 DEF Sent, Stored, Spent
<1> QED
  BY <1>1, <1>2, <1>3, <1>4 DEF Ledger!GiveUp

\* A renewal that cannot be stored gives up the pair that was sent as well.
LEMMA UnstoredRenewalGivenUp ==
    ASSUME TypeOK, IInv, NEW w \in Workers, StoreRenewalFails(w)
    PROVE  Ledger!GiveUp
<1>1. /\ pc[w] = "renewed" /\ lock' = NoWorker /\ UNCHANGED <<row, gen, adopted>>
      /\ abandoned' = abandoned \cup {pair[w]}
  BY DEF StoreRenewalFails, Rollback, At, shirabe
<1>2. Sent = pair[w] /\ Sent # NoPair
  BY <1>1, HolderSentTheRow
<1>3. Sent' = NoPair /\ UNCHANGED <<Stored, Spent>>
  BY <1>1 DEF Sent, Stored, Spent
<1> QED
  BY <1>1, <1>2, <1>3 DEF Ledger!GiveUp

\* A new link is adopted, or nothing on file changes.
LEMMA SaveConnectionAdopts ==
    ASSUME TypeOK, IInv, NEW w \in Workers, SaveConnection(w)
    PROVE  (\E g \in Grants : Ledger!Adopt(g)) \/ UNCHANGED Ledger!ledger
<1>1. pc[w] = "save" /\ UNCHANGED <<lock, gen, abandoned>>
  BY DEF SaveConnection, At, shirabe
<1>2. lock # w /\ \A v \in Workers : v # w => pair'[v] = pair[v]
  BY <1>1, NotTheHolder DEF SaveConnection, Finish, GiveBack, TypeOK
<1>3. pair[w] \in Pair /\ pair[w].g \notin adopted /\ pair[w].n = 0
  BY <1>1 DEF TypeOK, IInv, HandlerInv, FreshInv, Fresh
<1>4. pair[w].g \in Grants /\ pair[w] = [g |-> pair[w].g, n |-> 0]
  BY <1>3 DEF Pair
<1>5. CASE UNCHANGED <<row, adopted>>
  <2>1. lock # NoWorker => pair'[lock] = pair[lock]
    BY <1>2 DEF TypeOK
  <2> QED
    BY <1>1, <1>5, <2>1, LedgerStutters DEF Stored
<1>6. CASE ~UNCHANGED <<row, adopted>>
  <2>1. RowIsFree /\ adopted' = adopted \cup {pair[w].g}
    BY <1>6 DEF SaveConnection, SaveEntity
  <2>2. \E i \in Grants : row' = [id |-> i, pair |-> pair[w], marked |-> FALSE]
    <3>1. ent[w] # NoRow => ent[w].id \in Grants
      BY DEF TypeOK, Row
    <3> QED
      BY <1>4, <1>6, <3>1 DEF SaveConnection, SaveEntity
  <2>3. row' # NoRow /\ row'.pair = pair[w]
    <3>1. \A i \in Grants : [id |-> i, pair |-> pair[w], marked |-> FALSE] \in Row
      BY <1>3 DEF Row
    <3> QED
      BY <2>2, <3>1, LinkAssumption
  <2>4. Sent = NoPair /\ Sent' = NoPair /\ Stored' = pair[w]
        /\ UNCHANGED <<Spent, abandoned>>
    BY <1>1, <2>1, <2>3 DEF RowIsFree, Sent, Stored, Spent
  <2>5. pair[w] \notin Spent
    BY <1>3, <1>4 DEF IInv, FreshInv, Spent
  <2>6. Ledger!Adopt(pair[w].g)
    BY <1>3, <1>4, <2>1, <2>4, <2>5 DEF Ledger!Adopt
  <2> QED
    BY <1>4, <2>6
<1> QED
  BY <1>5, <1>6

\* Unlinking forgets the pair on file, or finds another row in its place.
LEMMA RemoveConnectionForgets ==
    ASSUME NEW w \in Workers, RemoveConnection(w)
    PROVE  Ledger!Forget \/ UNCHANGED Ledger!ledger
<1>1. lock = NoWorker /\ UNCHANGED <<lock, gen, abandoned, adopted>>
  BY DEF RemoveConnection, RowIsFree, shirabe, history
<1>2. row' = NoRow \/ row' = row
  BY DEF RemoveConnection
<1>3. Sent = NoPair /\ Sent' = NoPair
  BY <1>1 DEF Sent
<1> QED
  BY <1>1, <1>2, <1>3 DEF Ledger!Forget, Ledger!ledger, Stored, Spent

\* A crash gives up what the dead handler had sent, if it held the lock.
LEMMA CrashGivesUp ==
    ASSUME TypeOK, IInv, NEW w \in Workers, Crash(w)
    PROVE  Ledger!GiveUp \/ UNCHANGED Ledger!ledger
<1>1. UNCHANGED <<row, gen, adopted>>
  BY DEF Crash, shirabe
<1>2. CASE pc[w] \in {"renew", "renewed"}
  <2>1. lock = w /\ Sent = pair[w] /\ Sent # NoPair
    BY <1>2, HolderSentTheRow
  <2>2. lock' = NoWorker /\ abandoned' = abandoned \cup {Sent}
    BY <1>2, <2>1 DEF Crash, At
  <2> QED
    BY <1>1, <2>1, <2>2 DEF Ledger!GiveUp, Sent, Stored, Spent
<1>3. CASE pc[w] \notin {"renew", "renewed"}
  <2>1. lock # w
    BY <1>3, NotTheHolder
  <2>2. UNCHANGED <<lock, abandoned>>
    BY <1>3, <2>1 DEF Crash, At
  <2>3. lock # NoWorker => pair'[lock] = pair[lock]
    BY <2>1 DEF TypeOK, Crash, Finish
  <2> QED
    BY <1>1, <2>2, <2>3, LedgerStutters DEF Stored
<1> QED
  BY <1>2, <1>3

\* A request that was given up and is acted on after all spends its pair.
LEMMA StrayArrivesSpends ==
    ASSUME TypeOK, IInv, NEW p \in Pair, StrayArrives(p)
    PROVE  Ledger!Spend(p) \/ UNCHANGED Ledger!ledger
<1>1. p \in abandoned /\ Redeem(p) /\ UNCHANGED <<row, lock, pair, abandoned, adopted>>
  BY DEF StrayArrives, IInv, NewestInv, handlers
<1>2. UNCHANGED <<Stored, Sent>>
  BY <1>1 DEF Stored, Sent
<1>3. CASE UNCHANGED gen
  BY <1>1, <1>2, <1>3 DEF Ledger!ledger, Spent
<1>4. CASE ~UNCHANGED gen
  BY <1>1, <1>2, <1>4, RedeemedIsSpent DEF Ledger!Spend
<1> QED
  BY <1>3, <1>4

\* The rest of the environment acts on what the ledger does not see.
LEMMA EnvironmentStutters ==
    ASSUME \/ \E g \in Grants : ReaderRevokes(g)
           \/ \E p \in Pair : TokenBecomesDue(p) \/ TokenExpires(p)
    PROVE  UNCHANGED Ledger!ledger
<1>1. UNCHANGED <<row, lock, pair, gen, abandoned, adopted>>
  BY DEF ReaderRevokes, TokenBecomesDue, TokenExpires, handlers, history
<1> QED
  BY <1>1, LedgerStutters DEF Stored

\* Every step of the handlers, of Shirabe or of the clock is a ledger step.
LEMMA LedgerStep ==
    ASSUME TypeOK, IInv, NoReseal, [Next]_vars
    PROVE  [Ledger!Next]_(Ledger!ledger)
<1>1. CASE UNCHANGED vars
  BY <1>1, LedgerStutters DEF vars, handlers, shirabe, history, Stored
<1>2. ASSUME NEW w \in Workers, Arrives(w) \/ RunsFreely(w)
      PROVE  Ledger!Next \/ UNCHANGED Ledger!ledger
  BY <1>2, BystandersStutter, ShirabeRenewsSpends, StoreRenewalRotates
     DEF RunsFreely, Ledger!Next
<1>3. ASSUME NEW w \in Workers, WaitsForRow(w)
      PROVE  Ledger!Next \/ UNCHANGED Ledger!ledger
  BY <1>3, BystandersStutter, LockRowSends, SaveConnectionAdopts,
     RemoveConnectionForgets DEF WaitsForRow, Ledger!Next
<1>4. ASSUME NEW w \in Workers, Fails(w)
      PROVE  Ledger!Next \/ UNCHANGED Ledger!ledger
  BY <1>4, BystandersStutter, RenewalGivenUp, UnstoredRenewalGivenUp,
     CrashGivesUp
     DEF Fails, Ledger!Next
<1>5. CASE Environment
  <2>1. ASSUME NEW p \in Pair, StrayArrives(p)
        PROVE  Ledger!Next \/ UNCHANGED Ledger!ledger
    BY <2>1, StrayArrivesSpends DEF Ledger!Next, Ledger!Token, Pair
  <2> QED
    BY <1>5, <2>1, EnvironmentStutters DEF Environment
<1> QED
  BY <1>1, <1>2, <1>3, <1>4, <1>5 DEF Next

\* Whatever their number and interleaving, the handlers of one reader's link
\* keep the promise of the ledger: a token Shirabe has traded is sent again only
\* after a lost answer, and a grant once replaced or unlinked never comes back.
THEOREM LedgerImplemented == ASSUME NoReseal PROVE Spec => ImplementsLedger
<1>1. Init => Ledger!Init
  BY LinkAssumption DEF Init, Ledger!Init, Stored, Sent, Spent, Pair
<1>2. TypeOK /\ IInv /\ [Next]_vars => [Ledger!Next]_(Ledger!ledger)
  BY LedgerStep
<1> QED
  BY Invariance, <1>1, <1>2, PTL DEF Spec, ImplementsLedger, Ledger!Spec

-----------------------------------------------------------------------------
(***************************************************************************)
(* A link marked as disconnected is over, if there is one grant to have    *)
(* and no call is lost.                                                    *)
(*                                                                         *)
(* A handler uses a token it found with time left, or one it has just been *)
(* issued, and nobody has had that one before: it is not late when Shirabe *)
(* refuses it.  So the grant is over, and over for good.                   *)
(***************************************************************************)

OneGrant == \A g, h \in Grants : g = h

\* Shirabe has issued p, and it is not the one about to be stored.
Issued(p) ==
    /\ p.n <= gen[p.g]
    /\ \A w \in Workers : pc[w] = "renewed" /\ pair[w].g = p.g => p.n < gen[p.g]

\* Nobody has a pair that was not, nor has its age been seen.
OnlyIssued ==
    /\ row # NoRow => Issued(row.pair)
    /\ \A w \in Workers : ent[w] # NoRow => Issued(ent[w].pair)
    /\ \A w \in Workers : pair[w] # NoPair => Issued(pair[w])
    /\ \A w \in Workers : held[w] # NoPair => Issued(held[w])
    /\ \A p \in Pair : age[p] # "fresh" => Issued(p)

AllOver == \A g \in Grants : grant[g] = "over"

\* A token is used in time, for a grant that was on the row.
UsedInTime ==
    \A w \in Workers : pc[w] = "use" =>
        held[w] = NoPair /\ age[pair[w]] # "expired" /\ pair[w].g \in adopted

\* A refusal that is about to be recorded, or was, is for good.
MarksAreTrue ==
    /\ \A w \in Workers : pc[w] \in {"report", "mark"} => AllOver
    /\ row # NoRow /\ row.marked => AllOver

MarkInv == OnlyIssued /\ (faults = 0 => UsedInTime /\ MarksAreTrue)

\* The handlers but w are where they were.
OthersKeep(w) ==
    \A v \in Workers \ {w} :
        /\ pc'[v] = pc[v] /\ op'[v] = op[v] /\ ent'[v] = ent[v]
        /\ held'[v] = held[v] /\ pair'[v] = pair[v]

LEMMA HandlersAreApart ==
    ASSUME TypeOK, NEW w \in Workers, Arrives(w) \/ RunsFreely(w) \/ WaitsForRow(w) \/ Fails(w)
    PROVE  OthersKeep(w)
<1>1. CASE Arrives(w)
  BY <1>1 DEF TypeOK, OthersKeep, Arrives, StartLookup, StartRefresh, StartUnlink,
     StartReencrypt, StartComplete, Start, Go
<1>2. CASE RunsFreely(w)
  BY <1>2 DEF TypeOK, OthersKeep, RunsFreely, FindConnection, FindToken, ShirabeRenews,
     StoreRenewal, ShirabeAnswers, ReportRefusal, ShirabeGrants, CheckGrant, LoadConnection,
     ReleaseGrant, UnlinkRevokes, HandOut, GrantOver, GiveBack, Finish, Go
<1>3. CASE WaitsForRow(w)
  BY <1>3 DEF TypeOK, OthersKeep, WaitsForRow, LockRow, PatchStack, MarkDisconnected,
     SaveConnection, RemoveConnection, ReencryptTokens, HandOut, GiveBack, Finish, Go
<1>4. CASE Fails(w)
  BY <1>4 DEF TypeOK, OthersKeep, Fails, StoreRenewalFails, RenewalRefused, RenewalTimesOut,
     SaveFails, RevokeFails, ExchangeLost, Crash, HandOut, GiveBack, Finish, Go
<1> QED  BY <1>1, <1>2, <1>3, <1>4

\* Renewals are counted up, and a handler comes to store one by being answered.
LEMMA RenewalsCount ==
    ASSUME TypeOK, IInv, NoReseal, [Next]_vars
    PROVE  /\ \A g \in Grants : gen[g] <= gen'[g]
           /\ \A w \in Workers : pc'[w] = "renewed" =>
                /\ pair'[w] = pair[w]
                /\ pc[w] = "renewed" \/ (pair[w] \in Pair /\ gen[pair[w].g] < gen'[pair[w].g])
<1>1. \A g \in Grants : gen[g] \in Nat /\ gen[g] <= gen[g]
  BY LinkAssumption DEF TypeOK
<1>2. ASSUME NEW w \in Workers, ShirabeRenews(w)
      PROVE  /\ \A g \in Grants : gen[g] <= gen'[g]
             /\ pc'[w] = "renewed" => pair'[w] = pair[w] /\ pair[w] \in Pair /\ gen[pair[w].g] < gen'[pair[w].g]
  <2>1. pair[w] \in Pair
    BY <1>2 DEF TypeOK, IInv, HandlerInv, ShirabeRenews, At
  <2>2. gen' = gen \/ gen' = [gen EXCEPT ![pair[w].g] = @ + 1]
    BY <1>2 DEF ShirabeRenews, Redeem
  <2>3. pc'[w] = "renewed" => pair' = pair /\ gen' # gen
    BY <1>2 DEF TypeOK, ShirabeRenews, GrantOver, Go
  <2> QED  BY <1>1, <2>1, <2>2, <2>3 DEF TypeOK, Pair
<1>3. ASSUME NEW w \in Workers,
             Arrives(w) \/ RunsFreely(w) \/ WaitsForRow(w) \/ Fails(w), ~ShirabeRenews(w)
      PROVE  gen' = gen /\ pc'[w] # "renewed"
  <2>1. CASE Arrives(w)
    BY <2>1 DEF TypeOK, Arrives, StartLookup, StartRefresh, StartUnlink,
       StartReencrypt, StartComplete, Start, Go, shirabe
  <2>2. CASE RunsFreely(w)
    BY <1>3, <2>2 DEF TypeOK, RunsFreely, FindConnection, FindToken,
       StoreRenewal, ShirabeAnswers, ReportRefusal, ShirabeGrants, CheckGrant, LoadConnection,
       ReleaseGrant, UnlinkRevokes, HandOut, GiveBack, Finish, Go, shirabe
  <2>3. CASE WaitsForRow(w)
    BY <2>3 DEF TypeOK, WaitsForRow, LockRow, PatchStack, MarkDisconnected,
       SaveConnection, RemoveConnection, ReencryptTokens, HandOut, GiveBack, Finish, Go, shirabe
  <2>4. CASE Fails(w)
    BY <2>4 DEF TypeOK, Fails, StoreRenewalFails, RenewalRefused, RenewalTimesOut,
       SaveFails, RevokeFails, ExchangeLost, Crash, HandOut, GiveBack, Finish, Go, At, shirabe
  <2> QED  BY <1>3, <2>1, <2>2, <2>3, <2>4
<1>4. ASSUME NEW w \in Workers, Arrives(w) \/ RunsFreely(w) \/ WaitsForRow(w) \/ Fails(w)
      PROVE  /\ \A g \in Grants : gen[g] <= gen'[g]
             /\ \A v \in Workers : pc'[v] = "renewed" =>
                  /\ pair'[v] = pair[v]
                  /\ pc[v] = "renewed" \/ (pair[v] \in Pair /\ gen[pair[v].g] < gen'[pair[v].g])
  BY <1>1, <1>2, <1>3, <1>4, HandlersAreApart DEF OthersKeep
<1>5. CASE Environment
  <2>1. pc' = pc /\ pair' = pair
    BY <1>5 DEF Environment, StrayArrives, TokenBecomesDue, TokenExpires, ReaderRevokes, handlers
  <2>2. \A g \in Grants : gen[g] <= gen'[g]
    <3>1. CASE gen' = gen
      BY <1>1, <3>1
    <3>2. ASSUME NEW p \in Pair, gen' = [gen EXCEPT ![p.g] = @ + 1]
          PROVE \A g \in Grants : gen[g] <= gen'[g]
      BY <1>1, <3>2 DEF TypeOK, Pair
    <3> QED  BY <1>5, <3>1, <3>2 DEF Environment, StrayArrives, Redeem, TokenBecomesDue,
        TokenExpires, ReaderRevokes
  <2> QED  BY <2>1, <2>2
<1>6. CASE UNCHANGED vars
  BY <1>1, <1>6 DEF vars, handlers, shirabe
<1> QED  BY <1>4, <1>5, <1>6 DEF Next

LEMMA IssuedStays ==
    ASSUME TypeOK, IInv, NoReseal, [Next]_vars, NEW p \in Pair, Issued(p)
    PROVE  Issued(p)'
<1>1. p.g \in Grants /\ p.n \in Nat /\ gen[p.g] \in Nat /\ gen'[p.g] \in Nat
  BY LinkAssumption, NextInv DEF TypeOK, Pair
<1>2. p.n <= gen[p.g] /\ gen[p.g] <= gen'[p.g]
  BY <1>1, RenewalsCount DEF Issued
<1>3. ASSUME NEW w \in Workers, pc'[w] = "renewed", pair'[w].g = p.g PROVE p.n < gen'[p.g]
  <2>1. pair'[w] = pair[w] /\ (pc[w] = "renewed" \/ gen[p.g] < gen'[p.g])
    BY <1>3, RenewalsCount
  <2>2. CASE pc[w] = "renewed"
    <3>1. p.n < gen[p.g]
      BY <1>3, <2>1, <2>2 DEF Issued
    <3> QED  BY <1>1, <1>2, <3>1
  <2> QED  BY <1>1, <1>2, <2>1, <2>2
<1>4. p.n <= gen'[p.g]
  BY <1>1, <1>2
<1> QED  BY <1>3, <1>4 DEF Issued

\* The first pair of a grant counts as issued from the start.
LEMMA FirstIsIssued ==
    ASSUME TypeOK, IInv, NEW p \in Pair, p.n = 0
    PROVE  Issued(p)
<1>1. p.g \in Grants /\ gen[p.g] \in Nat
  BY LinkAssumption DEF TypeOK, Pair
<1>2. ASSUME NEW w \in Workers, pc[w] = "renewed", pair[w].g = p.g PROVE 0 < gen[p.g]
  <2>1. gen[p.g] = pair[w].n + 1 /\ pair[w] \in Pair
    BY <1>2 DEF TypeOK, IInv, HandlerInv, NewestInv
  <2>2. pair[w].n \in Nat
    BY <2>1, LinkAssumption DEF Pair
  <2> QED  BY <2>1, <2>2
<1> QED  BY <1>1, <1>2 DEF Issued

\* The pair a renewal comes back with is that of nobody yet, and issued once it is stored.
LEMMA StoredIsIssued ==
    ASSUME TypeOK, IInv, NoReseal, NEW w \in Workers, StoreRenewal(w),
           NEW p, p = [pair[w] EXCEPT !.n = @ + 1]
    PROVE  /\ p \in Pair /\ p.g = row.pair.g /\ ~Issued(p) /\ Issued(p)'
           /\ row # NoRow /\ row' \in Row /\ row'.pair = p /\ row'.marked = row.marked
           /\ pair' = [pair EXCEPT ![w] = p]
<1> DEFINE new == [row EXCEPT !.pair = p]
<1>1. pc[w] = "renewed" /\ row' = new /\ pair' = [pair EXCEPT ![w] = p] /\ gen' = gen
      /\ pc' = [pc EXCEPT ![w] = "use"]
  BY DEF StoreRenewal, HandOut, At, Go, shirabe
<1>2. pair[w] \in Pair /\ gen[pair[w].g] = pair[w].n + 1 /\ gen[pair[w].g] \in 0 .. MaxRenewals
  BY <1>1 DEF TypeOK, IInv, HandlerInv, NewestInv, Pair
<1>3. p \in Pair /\ p.g = pair[w].g /\ p.n = gen[p.g] /\ p.n \in Nat
  BY <1>2, LinkAssumption DEF Pair
<1>4. lock = w /\ row # NoRow /\ row.pair = pair[w] /\ row \in Row
  BY <1>1, LinkAssumption DEF TypeOK, IInv, LockInv
<1>5. new \in Row /\ new.pair = p /\ new.marked = row.marked
  BY <1>3, <1>4 DEF Row
<1> HIDE DEF new
<1>6. ~Issued(p)
  BY <1>1, <1>3 DEF Issued
<1>7. \A v \in Workers : pc'[v] # "renewed"
  BY <1>1, <1>4 DEF TypeOK, IInv, LockInv
<1>8. p.n <= gen'[p.g]
  BY <1>1, <1>3
<1>9. Issued(p)'
  BY <1>7, <1>8 DEF Issued
<1> QED  BY <1>1, <1>3, <1>4, <1>5, <1>6, <1>9

\* Pairs move between the row and the handlers; the clock sees those in use.
LEMMA OnlyIssuedNext ==
    ASSUME TypeOK, IInv, NoReseal, OnlyIssued, [Next]_vars
    PROVE  OnlyIssued'
<1>0. TypeOK' /\ IInv'
  BY NextInv
<1>1. \A p \in Pair : Issued(p) => Issued(p)'
  BY IssuedStays
<1>2. /\ row # NoRow => row.pair \in Pair /\ Issued(row.pair)
      /\ \A w \in Workers : ent[w] # NoRow => ent[w].pair \in Pair /\ Issued(ent[w].pair)
      /\ \A w \in Workers : pair[w] # NoPair => pair[w] \in Pair /\ Issued(pair[w])
      /\ \A w \in Workers : held[w] # NoPair => held[w] \in Pair /\ Issued(held[w])
      /\ \A p \in Pair : age[p] # "fresh" => Issued(p)
  BY DEF TypeOK, OnlyIssued, Row
<1> DEFINE Known == {p \in Pair : Issued(p)}
           Kept  == {p \in Pair : Issued(p)'}
<1>3. Known \subseteq Kept
  BY <1>1
<1>4. /\ row # NoRow => row.pair \in Known
      /\ \A w \in Workers : ent[w] # NoRow => ent[w].pair \in Known
      /\ \A w \in Workers : pair[w] # NoPair => pair[w] \in Known
      /\ \A w \in Workers : held[w] # NoPair => held[w] \in Known
      /\ \A p \in Pair : age[p] # "fresh" => p \in Known
  BY <1>2
<1> HIDE DEF Known, Kept
<1>5. ASSUME /\ row' # NoRow => row'.pair \in Kept
             /\ \A w \in Workers : ent'[w] # NoRow => ent'[w].pair \in Kept
             /\ \A w \in Workers : pair'[w] # NoPair => pair'[w] \in Kept
             /\ \A w \in Workers : held'[w] # NoPair => held'[w] \in Kept
             /\ \A p \in Pair : age'[p] # "fresh" => p \in Kept
      PROVE  OnlyIssued'
  BY <1>5 DEF OnlyIssued, Kept
<1>6. ASSUME NEW w \in Workers, OthersKeep(w), age' = age,
             row' # NoRow => row'.pair \in Kept,
             ent'[w] # NoRow => ent'[w].pair \in Kept,
             pair'[w] # NoPair => pair'[w] \in Kept,
             held'[w] # NoPair => held'[w] \in Kept
      PROVE  OnlyIssued'
  BY <1>3, <1>4, <1>5, <1>6 DEF OthersKeep
<1>7. ASSUME NEW w \in Workers, Arrives(w) PROVE OnlyIssued'
  <2>1. /\ OthersKeep(w) /\ age' = age /\ row' = row /\ ent' = ent /\ held' = held
        /\ \A v \in Workers : pair'[v] = pair[v] \/ \E g \in Grants : pair'[v] = First(g)
    BY <1>7, HandlersAreApart DEF TypeOK, Arrives, StartLookup, StartRefresh, StartUnlink,
       StartReencrypt, StartComplete, Start, shirabe
  <2>2. \A g \in Grants : First(g) \in Known
    BY FirstIsIssued, LinkAssumption DEF First, Pair, Known
  <2>3. pair'[w] # NoPair => pair'[w] \in Kept
    BY <1>3, <1>4, <2>1, <2>2
  <2> QED  BY <1>3, <1>4, <1>6, <2>1, <2>3
<1>8. ASSUME NEW w \in Workers, StoreRenewal(w) PROVE OnlyIssued'
  <2>1. PICK p : p = [pair[w] EXCEPT !.n = @ + 1]
    OBVIOUS
  <2>2. p \in Kept /\ row'.pair = p /\ pair'[w] = p
    BY <1>8, <2>1, StoredIsIssued DEF TypeOK, Kept
  <2>3. OthersKeep(w) /\ age' = age /\ ent' = ent /\ held'[w] = NoPair
    BY <1>8, HandlersAreApart DEF TypeOK, RunsFreely, StoreRenewal, HandOut, shirabe
  <2> QED  BY <1>3, <1>4, <1>6, <2>2, <2>3
<1>9. ASSUME NEW w \in Workers, RunsFreely(w) \/ Fails(w), ~StoreRenewal(w) PROVE OnlyIssued'
  <2>1. OthersKeep(w)
    BY <1>9, HandlersAreApart
  <2>2. age' = age /\ row' = row
    BY <1>9 DEF RunsFreely, Fails, FindConnection, FindToken, ShirabeRenews,
       ShirabeAnswers, ReportRefusal, ShirabeGrants, CheckGrant, LoadConnection,
       ReleaseGrant, UnlinkRevokes, StoreRenewalFails, RenewalRefused, RenewalTimesOut,
       SaveFails, RevokeFails, ExchangeLost, Crash, shirabe
  <2>3. ent'[w] \in {ent[w], row, NoRow}
    BY <1>9 DEF TypeOK, RunsFreely, Fails, FindConnection, FindToken, ShirabeRenews,
       ShirabeAnswers, ReportRefusal, ShirabeGrants, CheckGrant, LoadConnection,
       ReleaseGrant, UnlinkRevokes, StoreRenewalFails, RenewalRefused, RenewalTimesOut,
       SaveFails, RevokeFails, ExchangeLost, Crash, HandOut, GrantOver, GiveBack, Finish
  <2>4. \/ pair'[w] \in {pair[w], held[w], NoPair}
        \/ row # NoRow /\ pair'[w] = row.pair
    BY <1>9 DEF TypeOK, RunsFreely, Fails, FindConnection, FindToken, ShirabeRenews,
       ShirabeAnswers, ReportRefusal, ShirabeGrants, CheckGrant, LoadConnection,
       ReleaseGrant, UnlinkRevokes, StoreRenewalFails, RenewalRefused, RenewalTimesOut,
       SaveFails, RevokeFails, ExchangeLost, Crash, HandOut, GrantOver, GiveBack, Finish, Connected
  <2>5. \/ held'[w] \in {held[w], NoPair}
        \/ row # NoRow /\ held'[w] = row.pair
    BY <1>9 DEF TypeOK, RunsFreely, Fails, FindConnection, FindToken, ShirabeRenews,
       ShirabeAnswers, ReportRefusal, ShirabeGrants, CheckGrant, LoadConnection,
       ReleaseGrant, UnlinkRevokes, StoreRenewalFails, RenewalRefused, RenewalTimesOut,
       SaveFails, RevokeFails, ExchangeLost, Crash, HandOut, GrantOver, GiveBack, Finish, Connected
  <2> QED  BY <1>3, <1>4, <1>6, <2>1, <2>2, <2>3, <2>4, <2>5
<1>10. ASSUME NEW w \in Workers, WaitsForRow(w) PROVE OnlyIssued'
  <2>1. OthersKeep(w)
    BY <1>10, HandlersAreApart
  <2>2. age' = age /\ ~ReencryptTokens(w)
    BY <1>10 DEF IInv, HandlerInv, NoReseal, At, WaitsForRow, LockRow, PatchStack,
       MarkDisconnected, SaveConnection, RemoveConnection, ReencryptTokens, shirabe
  <2>3. ent'[w] \in {ent[w], NoRow} /\ held'[w] \in {held[w], NoPair}
    BY <1>10, <2>2 DEF TypeOK, WaitsForRow, LockRow, PatchStack,
       MarkDisconnected, SaveConnection, RemoveConnection, HandOut, GiveBack, Finish
  <2>4. \/ pair'[w] \in {pair[w], NoPair}
        \/ row # NoRow /\ pair'[w] = row.pair
        \/ ent[w] # NoRow /\ pair'[w] = ent[w].pair
    BY <1>10, <2>2 DEF TypeOK, WaitsForRow, LockRow, PatchStack, Connected, Presented, Replaced,
       MarkDisconnected, SaveConnection, RemoveConnection, HandOut, GiveBack, Finish
  <2>5. row' # NoRow =>
          (row # NoRow /\ row'.pair = row.pair) \/ (pair[w] # NoPair /\ row'.pair = pair[w])
    <3>1. CASE LockRow(w) \/ RemoveConnection(w)
      BY <3>1 DEF LockRow, RemoveConnection
    <3>2. CASE PatchStack(w) \/ MarkDisconnected(w)
      BY <3>2 DEF TypeOK, Row, PatchStack, StackPatch, MarkDisconnected
    <3>3. CASE SaveConnection(w)
      BY <3>3 DEF IInv, HandlerInv, SaveConnection, SaveEntity, At, LockInv, TypeOK
    <3> QED  BY <1>10, <2>2, <3>1, <3>2, <3>3 DEF WaitsForRow
  <2> QED  BY <1>3, <1>4, <1>6, <2>1, <2>2, <2>3, <2>4, <2>5
<1>11. CASE Environment
  <2>1. UNCHANGED <<row, ent, pair, held>>
    BY <1>11 DEF Environment, StrayArrives, TokenBecomesDue, TokenExpires, ReaderRevokes, handlers
  <2>2. ASSUME NEW q \in Pair, age'[q] # "fresh" PROVE q \in Known
    <3>1. CASE age[q] # "fresh"
      BY <1>4, <3>1
    <3>2. CASE age[q] = "fresh"
      <4>1. InUse(q)
        BY <1>11, <2>2, <3>2 DEF TypeOK, Environment, StrayArrives, TokenBecomesDue,
           TokenExpires, ReaderRevokes
      <4>2. q # NoPair
        BY LinkAssumption
      <4> QED  BY <1>4, <4>1, <4>2 DEF InUse
    <3> QED  BY <3>1, <3>2
  <2> QED  BY <1>3, <1>4, <1>5, <2>1, <2>2
<1>12. CASE UNCHANGED vars
  <2>1. UNCHANGED <<row, ent, pair, held, age>>
    BY <1>12 DEF vars, handlers, shirabe
  <2> QED  BY <1>3, <1>4, <1>5, <2>1
<1> QED  BY <1>7, <1>8, <1>9, <1>10, <1>11, <1>12 DEF Next

\* What is over stays over.
LEMMA OverIsForGood ==
    ASSUME TypeOK, [Next]_vars, NEW g \in Grants, grant[g] = "over"
    PROVE  grant'[g] = "over"
<1>1. ASSUME NEW w \in Workers, Arrives(w) PROVE grant'[g] = "over"
  BY <1>1 DEF TypeOK, Arrives, StartLookup, StartRefresh, StartUnlink, StartReencrypt,
     StartComplete, shirabe
<1>2. ASSUME NEW w \in Workers, RunsFreely(w) PROVE grant'[g] = "over"
  BY <1>2 DEF TypeOK, RunsFreely, FindConnection, FindToken, ShirabeRenews, StoreRenewal,
     ShirabeAnswers, ReportRefusal, ShirabeGrants, CheckGrant, LoadConnection, ReleaseGrant,
     UnlinkRevokes, Redeem, Revoke, shirabe
<1>3. ASSUME NEW w \in Workers, WaitsForRow(w) PROVE grant'[g] = "over"
  BY <1>3 DEF WaitsForRow, LockRow, PatchStack, MarkDisconnected, SaveConnection,
     RemoveConnection, ReencryptTokens, shirabe
<1>4. ASSUME NEW w \in Workers, Fails(w) PROVE grant'[g] = "over"
  BY <1>4 DEF TypeOK, Fails, StoreRenewalFails, RenewalRefused, RenewalTimesOut, SaveFails,
     RevokeFails, ExchangeLost, Crash, shirabe
<1>5. CASE Environment
  BY <1>5 DEF TypeOK, Environment, StrayArrives, Redeem, TokenBecomesDue, TokenExpires,
     ReaderRevokes
<1>6. CASE UNCHANGED vars
  BY <1>6 DEF vars, shirabe
<1> QED  BY <1>1, <1>2, <1>3, <1>4, <1>5, <1>6 DEF Next

\* Without faults a token is handed out with time left, or fresh from Shirabe.
LEMMA UsedInTimeNext ==
    ASSUME TypeOK, IInv, NoReseal, OnlyIssued, UsedInTime, [Next]_vars, faults' = 0
    PROVE  UsedInTime'
<1>1. ASSUME NEW w \in Workers, OthersKeep(w), age' = age, adopted \subseteq adopted',
             pc'[w] = "use" =>
               held'[w] = NoPair /\ age[pair'[w]] # "expired" /\ pair'[w].g \in adopted
      PROVE  UsedInTime'
  BY <1>1 DEF UsedInTime, OthersKeep
<1>2. row # NoRow => row.pair \in Pair /\ row.pair.g \in adopted
  BY DEF TypeOK, IInv, AdoptedInv, Row
<1>3. ASSUME NEW w \in Workers, Fails(w) PROVE FALSE
  BY <1>3 DEF TypeOK, Fails, StoreRenewalFails, RenewalRefused, RenewalTimesOut, SaveFails,
     RevokeFails, ExchangeLost, Crash, Fault
<1>4. ASSUME NEW w \in Workers, Arrives(w) PROVE UsedInTime'
  <2>1. OthersKeep(w)
    BY <1>4, HandlersAreApart
  <2>2. age' = age /\ adopted' = adopted /\ pc'[w] # "use"
    BY <1>4 DEF TypeOK, Arrives, StartLookup, StartRefresh, StartUnlink,
       StartReencrypt, StartComplete, Start, Go, shirabe, history
  <2> QED  BY <1>1, <2>1, <2>2
<1>5. ASSUME NEW w \in Workers, StoreRenewal(w) PROVE UsedInTime'
  <2>1. PICK p : p = [pair[w] EXCEPT !.n = @ + 1]
    OBVIOUS
  <2>2. p \in Pair /\ p.g = row.pair.g /\ ~Issued(p) /\ row # NoRow /\ pair'[w] = p
    BY <1>5, <2>1, StoredIsIssued DEF TypeOK
  <2>3. OthersKeep(w) /\ age' = age /\ adopted' = adopted /\ held'[w] = NoPair
    BY <1>5, HandlersAreApart DEF TypeOK, RunsFreely, StoreRenewal, HandOut, shirabe, history
  <2>4. age[p] = "fresh"
    BY <2>2 DEF OnlyIssued
  <2> QED  BY <1>1, <1>2, <2>2, <2>3, <2>4
<1>6. ASSUME NEW w \in Workers, RunsFreely(w) \/ WaitsForRow(w), ~StoreRenewal(w)
      PROVE  UsedInTime'
  <2>1. OthersKeep(w)
    BY <1>6, HandlersAreApart
  <2>2. age' = age /\ adopted \subseteq adopted'
    BY <1>6 DEF RunsFreely, WaitsForRow, FindConnection, FindToken, ShirabeRenews,
       ShirabeAnswers, ReportRefusal, ShirabeGrants, CheckGrant, LoadConnection,
       ReleaseGrant, UnlinkRevokes, LockRow, PatchStack,
       MarkDisconnected, SaveConnection, RemoveConnection, ReencryptTokens, shirabe, history
  <2>3. pc'[w] = "use" => FindToken(w) \/ LockRow(w)
    BY <1>6 DEF TypeOK, RunsFreely, WaitsForRow, FindConnection, ShirabeRenews,
       ShirabeAnswers, ReportRefusal, ShirabeGrants, CheckGrant, LoadConnection,
       ReleaseGrant, UnlinkRevokes, PatchStack, MarkDisconnected, SaveConnection,
       RemoveConnection, ReencryptTokens, GrantOver, GiveBack, Finish, Go
  <2>4. pc'[w] = "use" =>
          row # NoRow /\ age[row.pair] = "fresh" /\ pair'[w] = row.pair /\ held'[w] = NoPair
    BY <2>3 DEF TypeOK, FindToken, LockRow, HandOut, Finish, Go, Connected, accessTokenIsDue
  <2> QED  BY <1>1, <1>2, <2>1, <2>2, <2>4
<1>7. CASE Environment
  <2>1. UNCHANGED <<pc, held, pair, adopted>>
    BY <1>7 DEF Environment, StrayArrives, TokenBecomesDue, TokenExpires, ReaderRevokes,
       handlers, history
  <2>2. ASSUME NEW w \in Workers, pc[w] = "use" PROVE age'[pair[w]] # "expired"
    <3>1. held[w] = NoPair /\ age[pair[w]] # "expired" /\ pair[w] \in Pair
      BY <2>2 DEF TypeOK, IInv, HandlerInv, UsedInTime
    <3>2. ASSUME NEW p \in Pair, TokenExpires(p) PROVE p # pair[w]
      BY <2>2, <3>1, <3>2 DEF TokenExpires, At
    <3> QED  BY <1>7, <3>1, <3>2 DEF TypeOK, Environment, StrayArrives, TokenBecomesDue,
       TokenExpires, ReaderRevokes
  <2> QED  BY <2>1, <2>2 DEF UsedInTime
<1>8. CASE UNCHANGED vars
  BY <1>8 DEF vars, handlers, shirabe, history, UsedInTime
<1> QED  BY <1>3, <1>4, <1>5, <1>6, <1>7, <1>8 DEF Next

\* A token that was used in time is refused because its grant is over.
LEMMA MarksAreTrueNext ==
    ASSUME TypeOK, IInv, NoReseal, OneGrant, UsedInTime, MarksAreTrue, [Next]_vars, faults' = 0
    PROVE  MarksAreTrue'
<1>1. AllOver => AllOver'
  BY OverIsForGood DEF AllOver
<1>2. ASSUME NEW g \in Grants, grant[g] = "over" PROVE AllOver
  BY <1>2 DEF OneGrant, AllOver
<1>3. ASSUME NEW w \in Workers, Fails(w) PROVE FALSE
  BY <1>3 DEF TypeOK, Fails, StoreRenewalFails, RenewalRefused, RenewalTimesOut, SaveFails,
     RevokeFails, ExchangeLost, Crash, Fault
<1>4. ASSUME NEW w \in Workers, Arrives(w) \/ RunsFreely(w) \/ WaitsForRow(w),
             pc'[w] \in {"report", "mark"} => AllOver',
             row' # NoRow /\ row'.marked => AllOver'
      PROVE  MarksAreTrue'
  BY <1>1, <1>4, HandlersAreApart DEF MarksAreTrue, OthersKeep
<1>5. ASSUME NEW w \in Workers, Arrives(w) \/ RunsFreely(w) \/ WaitsForRow(w),
             pc'[w] \in {"report", "mark"}
      PROVE  AllOver'
  <2>1. ShirabeRenews(w) \/ ShirabeAnswers(w) \/ ReportRefusal(w)
    BY <1>5 DEF TypeOK, Arrives, StartLookup, StartRefresh, StartUnlink,
       StartReencrypt, StartComplete, Start, RunsFreely, WaitsForRow, FindConnection, FindToken, LockRow,
       StoreRenewal, ShirabeGrants, CheckGrant, LoadConnection,
       ReleaseGrant, UnlinkRevokes, PatchStack, MarkDisconnected, SaveConnection,
       RemoveConnection, ReencryptTokens, HandOut, GiveBack, Finish, Go
  <2>2. CASE ReportRefusal(w)
    BY <1>1, <2>2 DEF MarksAreTrue, ReportRefusal, At
  <2>3. CASE ShirabeAnswers(w)
    <3>1. pc[w] = "use" /\ ~Accepted(pair[w])
      BY <1>5, <2>3 DEF TypeOK, ShirabeAnswers, Unauthorized, Finish, Go, At
    <3>2. /\ pair[w] \in Pair /\ pair[w].g \in Grants
          /\ age[pair[w]] # "expired" /\ pair[w].g \in adopted
      BY <3>1 DEF TypeOK, IInv, HandlerInv, UsedInTime, Pair
    <3>3. grant[pair[w].g] = "over"
      BY <3>1, <3>2 DEF TypeOK, IInv, FreshInv, Accepted
    <3> QED  BY <1>1, <1>2, <3>2, <3>3
  <2>4. CASE ShirabeRenews(w)
    <3>1. pc[w] = "renew" /\ Redeem(pair[w]) /\ gen' = gen
      BY <1>5, <2>4 DEF TypeOK, ShirabeRenews, Go, At
    <3>2. pair[w] \in Pair /\ pair[w].g \in Grants /\ pair[w].g \in adopted
      BY <3>1, LinkAssumption DEF TypeOK, IInv, HandlerInv, LockInv, AdoptedInv, Pair
    <3>3. grant[pair[w].g] \in {"live", "over"}
      BY <3>2 DEF TypeOK, IInv, FreshInv
    <3>4. gen[pair[w].g] + 1 # gen[pair[w].g]
      BY <3>2, LinkAssumption DEF TypeOK
    <3>5. grant'[pair[w].g] = "over"
      BY <3>1, <3>2, <3>3, <3>4 DEF TypeOK, Redeem
    <3>6. AllOver'
      BY <3>2, <3>5 DEF OneGrant, AllOver
    <3> QED  BY <3>6
  <2> QED  BY <2>1, <2>2, <2>3, <2>4
<1>6. ASSUME NEW w \in Workers, Arrives(w) \/ RunsFreely(w) \/ WaitsForRow(w),
             row' # NoRow, row'.marked
      PROVE  AllOver'
  <2>1. CASE MarkDisconnected(w)
    BY <1>1, <2>1 DEF MarksAreTrue, MarkDisconnected, At
  <2>2. ASSUME row # NoRow, row.marked PROVE AllOver'
    BY <1>1, <2>2 DEF MarksAreTrue
  <2>3. CASE StoreRenewal(w)
    <3>1. PICK p : p = [pair[w] EXCEPT !.n = @ + 1]
      OBVIOUS
    <3> QED  BY <1>6, <2>2, <2>3, <3>1, StoredIsIssued
  <2>4. CASE PatchStack(w)
    BY <1>6, <2>4 DEF TypeOK, PatchStack, StackPatch, Row
  <2>5. CASE SaveConnection(w)
    BY <1>6, <2>2, <2>5 DEF SaveConnection, SaveEntity
  <2>6. CASE RemoveConnection(w)
    BY <1>6, <2>2, <2>6 DEF RemoveConnection
  <2>7. ~ReencryptTokens(w)
    BY DEF IInv, HandlerInv, NoReseal, ReencryptTokens, At
  <2>8. \/ MarkDisconnected(w) \/ StoreRenewal(w) \/ PatchStack(w) \/ SaveConnection(w)
        \/ RemoveConnection(w) \/ row' = row
    BY <1>6, <2>7 DEF Arrives, StartLookup, StartRefresh, StartUnlink,
       StartReencrypt, StartComplete, RunsFreely, WaitsForRow, FindConnection, FindToken, LockRow,
       ShirabeRenews, ShirabeAnswers, ReportRefusal, ShirabeGrants, CheckGrant, LoadConnection,
       ReleaseGrant, UnlinkRevokes
  <2>9. CASE row' = row
    BY <1>6, <2>2, <2>9
  <2> QED  BY <2>1, <2>3, <2>4, <2>5, <2>6, <2>8, <2>9
<1>7. ASSUME NEW w \in Workers, Arrives(w) \/ RunsFreely(w) \/ WaitsForRow(w)
      PROVE  MarksAreTrue'
  BY <1>4, <1>5, <1>6, <1>7
<1>8. CASE UNCHANGED <<row, pc>>
  BY <1>1, <1>8 DEF MarksAreTrue
<1>9. CASE Environment \/ UNCHANGED vars
  <2>1. UNCHANGED <<row, pc>>
    BY <1>9 DEF Environment, StrayArrives, TokenBecomesDue, TokenExpires, ReaderRevokes,
       handlers, vars
  <2> QED  BY <1>8, <2>1
<1> QED  BY <1>3, <1>7, <1>9 DEF Next

\* Faults are never forgotten.
LEMMA FaultsStay ==
    ASSUME TypeOK, [Next]_vars, faults' = 0
    PROVE  faults = 0
<1>1. faults \in Nat /\ (Fault => faults' # 0)
  BY LinkAssumption DEF TypeOK, Fault
<1>2. ASSUME NEW w \in Workers, Fails(w) PROVE Fault
  BY <1>2 DEF Fails, StoreRenewalFails, RenewalRefused, RenewalTimesOut, SaveFails,
     RevokeFails, ExchangeLost, Crash
<1>3. ASSUME NEW w \in Workers, Arrives(w) \/ RunsFreely(w) \/ WaitsForRow(w)
      PROVE  faults' = faults
  BY <1>3 DEF Arrives, RunsFreely, WaitsForRow, StartLookup, StartRefresh, StartUnlink,
     StartReencrypt, StartComplete, FindConnection, FindToken, LockRow, ShirabeRenews,
     StoreRenewal, ShirabeAnswers, ReportRefusal, PatchStack, MarkDisconnected, ShirabeGrants,
     CheckGrant, LoadConnection, SaveConnection, ReleaseGrant, UnlinkRevokes, RemoveConnection,
     ReencryptTokens
<1>4. CASE Environment \/ UNCHANGED vars
  BY <1>4 DEF Environment, StrayArrives, TokenBecomesDue, TokenExpires, ReaderRevokes, vars
<1> QED  BY <1>1, <1>2, <1>3, <1>4 DEF Next

\* With one grant to have and nothing lost, a link is only ever marked as disconnected
\* when Shirabe has ended its grant, however many handlers renew and use its tokens.
THEOREM MarksAreForTheOver ==
    ASSUME NoReseal, OneGrant PROVE Spec => []MarkedLinkIsOver
<1>1. Init => MarkInv
  BY DEF Init, MarkInv, OnlyIssued, UsedInTime, MarksAreTrue
<1>2. TypeOK /\ IInv /\ MarkInv /\ [Next]_vars => MarkInv'
  BY OnlyIssuedNext, UsedInTimeNext, MarksAreTrueNext, FaultsStay DEF MarkInv
<1>3. TypeOK /\ MarkInv => MarkedLinkIsOver
  BY DEF TypeOK, MarkInv, MarksAreTrue, AllOver, MarkedLinkIsOver, Row, Pair
<1> QED
  BY Invariance, <1>1, <1>2, <1>3, PTL DEF Spec

-----------------------------------------------------------------------------
(***************************************************************************)
(* No grant is orphaned while links are made and undone one at a time, no  *)
(* call is lost and a spent token still revokes its grant.                 *)
(*                                                                         *)
(* The handler that is linking or unlinking is then the only one that puts *)
(* another grant on the row or takes the row away, so the entity it has    *)
(* loaded stays that of the row, and what it replaces or removes is the    *)
(* grant it revokes.                                                       *)
(***************************************************************************)

OneLinkAtATime == (\A v, w \in LinkWorkers : v = w) /\ SpentRevokes

LinkSteps == {"exchange", "profile", "load", "save", "release", "revoke", "remove"}

\* Only a handler that may link or unlink does.
LinkersOnly ==
    \A w \in Workers : op[w] \in {"complete", "unlink"} \/ pc[w] \in LinkSteps => w \in LinkWorkers

SameLink(e) ==
    /\ e = NoRow <=> row = NoRow
    /\ e # NoRow => e.id = row.id /\ e.pair.g = row.pair.g

\* What is being replaced or removed is what is there, and is revoked before it goes.
LinkIsKnown ==
    /\ \A w \in Workers : pc[w] \in {"save", "revoke", "remove"} => SameLink(ent[w])
    /\ \A w \in Workers : pc[w] = "remove" => grant[ent[w].pair.g] # "live"
    /\ NoOrphanGrant

OrphanInv == LinkersOnly /\ (faults = 0 => LinkIsKnown)

NoneGoesLive == \A g \in Grants : grant'[g] = "live" => grant[g] = "live"

\* The row is of the link it was of.
LinkStays ==
    /\ row = NoRow <=> row' = NoRow
    /\ row # NoRow => row'.id = row.id /\ row'.pair.g = row.pair.g

\* A step of a handler that is neither linking nor unlinking.
LEMMA OthersLeaveTheLink ==
    ASSUME TypeOK, IInv, LinkIsKnown, NEW w \in Workers,
           OthersKeep(w), NoneGoesLive, LinkStays,
           pc[w] \notin {"profile", "load", "save", "release"},
           pc'[w] \notin {"save", "revoke", "remove"}
    PROVE  LinkIsKnown'
<1>1. ASSUME NEW v \in Workers, pc'[v] \in {"save", "revoke", "remove"}
      PROVE  SameLink(ent[v])' /\ (pc'[v] = "remove" => grant'[ent'[v].pair.g] # "live")
  <2>1. v \in Workers \ {w} /\ pc'[v] = pc[v] /\ ent'[v] = ent[v]
    BY <1>1 DEF OthersKeep
  <2>2. SameLink(ent[v])
    BY <1>1, <2>1 DEF LinkIsKnown
  <2>3. SameLink(ent[v])'
    BY <2>1, <2>2 DEF SameLink, LinkStays
  <2>4. ASSUME pc'[v] = "remove" PROVE grant'[ent'[v].pair.g] # "live"
    <3>1. ent[v] \in Row
      BY <2>1, <2>4 DEF TypeOK, IInv, HandlerInv
    <3>2. ent[v].pair.g \in Grants
      BY <3>1 DEF Row, Pair
    <3> QED  BY <2>1, <2>4, <3>2 DEF LinkIsKnown, NoneGoesLive
  <2> QED  BY <2>3, <2>4
<1>2. ASSUME NEW g \in Grants, grant'[g] = "live"
      PROVE  \/ row' # NoRow /\ row'.pair.g = g
             \/ \E v \in Workers : InHand(v, g)'
  <2>1. grant[g] = "live"
    BY <1>2 DEF NoneGoesLive
  <2>2. CASE row # NoRow /\ row.pair.g = g
    BY <2>2 DEF LinkStays
  <2>3. ASSUME NEW v \in Workers, InHand(v, g) PROVE InHand(v, g)'
    <3>1. v \in Workers \ {w}
      BY <2>3 DEF InHand
    <3> QED  BY <2>3, <3>1 DEF OthersKeep, InHand
  <2> QED  BY <2>1, <2>2, <2>3 DEF LinkIsKnown, NoOrphanGrant
<1> QED  BY <1>1, <1>2 DEF LinkIsKnown, NoOrphanGrant

\* A handler that starts, reads, looks a word up or renews a token.
LEMMA ReadersLeaveTheLink ==
    ASSUME TypeOK, IInv, NoReseal, LinkersOnly, LinkIsKnown, NEW w \in Workers,
           \/ Arrives(w) \/ FindConnection(w) \/ FindToken(w) \/ ShirabeRenews(w)
           \/ StoreRenewal(w) \/ ShirabeAnswers(w) \/ ReportRefusal(w)
           \/ LockRow(w) \/ PatchStack(w) \/ MarkDisconnected(w)
    PROVE  LinkIsKnown'
<1>1. CASE Arrives(w)
  <2>1. OthersKeep(w)
    BY <1>1 DEF TypeOK, OthersKeep, Arrives, StartLookup, StartRefresh, StartUnlink,
       StartReencrypt, StartComplete, Start, Go
  <2>2. NoneGoesLive
    BY <1>1 DEF TypeOK, NoneGoesLive, Arrives, StartLookup, StartRefresh, StartUnlink,
       StartReencrypt, StartComplete, shirabe
  <2>3. LinkStays
    BY <1>1 DEF LinkStays, Arrives, StartLookup, StartRefresh, StartUnlink,
       StartReencrypt, StartComplete
  <2>4. pc[w] = "idle" /\ pc'[w] \in {"find", "seek", "exchange"}
    BY <1>1 DEF TypeOK, Arrives, StartLookup, StartRefresh, StartUnlink,
       StartReencrypt, StartComplete, Start, At, Go
  <2> QED  BY <2>1, <2>2, <2>3, <2>4, OthersLeaveTheLink
<1>2. CASE FindConnection(w)
  <2>1. OthersKeep(w)
    BY <1>2 DEF TypeOK, OthersKeep, FindConnection, Finish, Go
  <2>2. NoneGoesLive /\ LinkStays
    BY <1>2 DEF NoneGoesLive, LinkStays, FindConnection, shirabe
  <2>3. pc[w] = "seek"
    BY <1>2 DEF FindConnection, At
  <2>4. CASE pc'[w] \notin {"save", "revoke", "remove"}
    BY <2>1, <2>2, <2>3, <2>4, OthersLeaveTheLink
  <2>5. CASE pc'[w] \in {"save", "revoke", "remove"}
    <3>1. /\ row # NoRow /\ ent' = [ent EXCEPT ![w] = row] /\ pc' = [pc EXCEPT ![w] = "revoke"]
          /\ UNCHANGED <<row, grant, pair>>
      BY <1>2, <2>5 DEF TypeOK, FindConnection, Finish, Go, shirabe
    <3>2. \A v \in Workers : pc'[v] \in {"save", "revoke", "remove"} => SameLink(ent[v])'
      BY <3>1 DEF TypeOK, LinkIsKnown, SameLink
    <3>3. \A v \in Workers : pc'[v] = "remove" => grant'[ent'[v].pair.g] # "live"
      BY <3>1 DEF TypeOK, LinkIsKnown
    <3>4. NoOrphanGrant'
      BY <3>1, <2>3 DEF TypeOK, LinkIsKnown, NoOrphanGrant, InHand
    <3> QED  BY <3>2, <3>3, <3>4 DEF LinkIsKnown
  <2> QED  BY <2>4, <2>5
<1>3. CASE FindToken(w) \/ LockRow(w)
  <2>1. OthersKeep(w) /\ pc[w] \in {"find", "lock"} /\ pc'[w] \in {"idle", "use", "lock", "renew"}
    BY <1>3 DEF TypeOK, OthersKeep, FindToken, LockRow, HandOut, Finish, Go, At
  <2>2. NoneGoesLive /\ LinkStays
    BY <1>3 DEF NoneGoesLive, LinkStays, FindToken, LockRow, shirabe
  <2> QED  BY <2>1, <2>2, OthersLeaveTheLink
<1>4. CASE ShirabeRenews(w)
  <2>1. OthersKeep(w) /\ pc[w] = "renew" /\ pc'[w] \in {"renewed", "mark"}
    BY <1>4 DEF TypeOK, OthersKeep, ShirabeRenews, GrantOver, Go, At
  <2>2. NoneGoesLive /\ LinkStays
    BY <1>4 DEF TypeOK, NoneGoesLive, LinkStays, ShirabeRenews, Redeem
  <2> QED  BY <2>1, <2>2, OthersLeaveTheLink
<1>5. CASE StoreRenewal(w)
  <2>1. OthersKeep(w) /\ pc[w] = "renewed" /\ pc'[w] = "use"
    BY <1>5 DEF TypeOK, OthersKeep, StoreRenewal, HandOut, Go, At
  <2>2. row # NoRow /\ row.pair = pair[w] /\ row \in Row /\ row.pair \in Pair
    BY <1>5, LinkAssumption DEF TypeOK, IInv, LockInv, StoreRenewal, At, Row
  <2>3. LinkStays
    <3> DEFINE next == [pair[w] EXCEPT !.n = @ + 1]
               new  == [row EXCEPT !.pair = next]
    <3>1. row' = new
      BY <1>5 DEF StoreRenewal
    <3>2. next.g = row.pair.g
      BY <2>2 DEF Pair
    <3>3. new.id = row.id /\ new.pair = next
      BY <2>2 DEF Row
    <3>4. row' # NoRow
      <4>1. next \in Pair
        <5>1. gen[pair[w].g] = pair[w].n + 1 /\ pair[w] \in Pair /\ gen[pair[w].g] \in 0 .. MaxRenewals
          BY <1>5, <2>2 DEF TypeOK, IInv, NewestInv, StoreRenewal, At, Pair
        <5> QED  BY <5>1, LinkAssumption DEF Pair
      <4>2. new \in Row
        BY <2>2, <4>1 DEF Row
      <4> QED  BY <3>1, <4>2, LinkAssumption
    <3> QED  BY <2>2, <3>1, <3>2, <3>3, <3>4 DEF LinkStays
  <2>4. NoneGoesLive
    BY <1>5 DEF NoneGoesLive, StoreRenewal, shirabe
  <2> QED  BY <2>1, <2>3, <2>4, OthersLeaveTheLink
<1>6. CASE ShirabeAnswers(w) \/ ReportRefusal(w)
  <2>1. OthersKeep(w) /\ pc[w] \in {"use", "report"} /\ pc'[w] \in {"idle", "patch", "report", "mark"}
    BY <1>6 DEF TypeOK, OthersKeep, ShirabeAnswers, ReportRefusal, Finish, Go, At
  <2>2. NoneGoesLive /\ LinkStays
    BY <1>6 DEF NoneGoesLive, LinkStays, ShirabeAnswers, ReportRefusal, shirabe
  <2> QED  BY <2>1, <2>2, OthersLeaveTheLink
<1>7. CASE PatchStack(w) \/ MarkDisconnected(w)
  <2>1. OthersKeep(w) /\ pc[w] \in {"patch", "mark"} /\ pc'[w] = "idle"
    BY <1>7 DEF TypeOK, OthersKeep, PatchStack, MarkDisconnected, Finish, Go, At
  <2>2. NoneGoesLive
    BY <1>7 DEF NoneGoesLive, PatchStack, MarkDisconnected, shirabe
  <2>3. LinkStays
    <3>1. CASE row = NoRow
      BY <1>7, <3>1 DEF LinkStays, PatchStack, StackPatch, MarkDisconnected
    <3>2. ASSUME row # NoRow PROVE LinkStays
      <4>1. PICK b \in BOOLEAN : row' = [row EXCEPT !.marked = b]
        BY <1>7, <3>2 DEF PatchStack, StackPatch, MarkDisconnected
      <4>2. row \in Row
        BY <3>2 DEF TypeOK
      <4>3. row' \in Row /\ row'.id = row.id /\ row'.pair = row.pair
        BY <4>1, <4>2 DEF Row
      <4> QED  BY <3>2, <4>3, LinkAssumption DEF LinkStays
    <3> QED  BY <3>1, <3>2
  <2> QED  BY <2>1, <2>2, <2>3, OthersLeaveTheLink
<1> QED  BY <1>1, <1>2, <1>3, <1>4, <1>5, <1>6, <1>7

\* While a handler is linking or unlinking, no other one is.
LEMMA NobodyElseLinks ==
    ASSUME TypeOK, OneLinkAtATime, LinkersOnly, NEW w \in Workers, pc[w] \in LinkSteps,
           NEW v \in Workers, pc[v] \in LinkSteps
    PROVE  v = w
BY DEF OneLinkAtATime, LinkersOnly

\* What the linking handler itself has to show.
LEMMA LinkerSuffices ==
    ASSUME TypeOK, OneLinkAtATime, LinkersOnly, NEW w \in Workers, pc[w] \in LinkSteps,
           OthersKeep(w), NoOrphanGrant',
           pc'[w] \in {"save", "revoke", "remove"} => SameLink(ent[w])',
           pc'[w] = "remove" => grant'[ent'[w].pair.g] # "live"
    PROVE  LinkIsKnown'
<1>1. ASSUME NEW v \in Workers, pc'[v] \in {"save", "revoke", "remove"} PROVE v = w
  <2>1. ASSUME v # w PROVE FALSE
    <3>1. pc[v] \in LinkSteps
      BY <1>1, <2>1 DEF OthersKeep, LinkSteps
    <3> QED  BY <2>1, <3>1, NobodyElseLinks
  <2> QED  BY <2>1
<1> QED  BY <1>1 DEF LinkIsKnown

\* The code is exchanged, the grant checked and the entity loaded: the grant stays in
\* the hands of the handler.
LEMMA GrantStaysInHand ==
    ASSUME TypeOK, IInv, OneLinkAtATime, LinkersOnly, LinkIsKnown, NEW w \in Workers,
           ShirabeGrants(w) \/ CheckGrant(w) \/ LoadConnection(w)
    PROVE  LinkIsKnown'
<1>1. /\ pc[w] \in {"exchange", "profile", "load"} /\ OthersKeep(w) /\ row' = row
      /\ pc'[w] \in {"idle", "profile", "load", "save", "release"}
  BY DEF TypeOK, OthersKeep, ShirabeGrants, CheckGrant, LoadConnection, Finish, GiveBack, Go, At
<1>2. pc[w] \in {"profile", "load"} => pc'[w] \in {"load", "save", "release"} /\ pair'[w] = pair[w]
  BY DEF TypeOK, ShirabeGrants, CheckGrant, LoadConnection, Finish, GiveBack, Go, At
<1>3. \A g \in Grants : grant'[g] = "live" /\ grant[g] # "live" =>
         pc'[w] = "profile" /\ pair'[w].g = g
  BY DEF TypeOK, ShirabeGrants, CheckGrant, LoadConnection, Finish, Go, At, shirabe
<1>4. pc'[w] = "save" => SameLink(ent[w])'
  BY DEF TypeOK, ShirabeGrants, CheckGrant, LoadConnection, Finish, GiveBack, Go, At, SameLink
<1>5. NoOrphanGrant'
  <2>1. ASSUME NEW g \in Grants, grant'[g] = "live"
        PROVE  (row' # NoRow /\ row'.pair.g = g) \/ \E v \in Workers : InHand(v, g)'
    <3>1. CASE grant[g] # "live"
      BY <1>3, <2>1, <3>1 DEF InHand
    <3>2. CASE row # NoRow /\ row.pair.g = g
      BY <1>1, <3>2
    <3>3. ASSUME NEW v \in Workers, InHand(v, g) PROVE InHand(v, g)'
      <4>1. CASE v = w
        BY <1>1, <1>2, <3>3, <4>1 DEF InHand
      <4>2. CASE v # w
        BY <1>1, <3>3, <4>2 DEF InHand, OthersKeep
      <4> QED  BY <4>1, <4>2
    <3> QED  BY <3>1, <3>2, <3>3 DEF LinkIsKnown, NoOrphanGrant
  <2> QED  BY <2>1 DEF NoOrphanGrant
<1> QED  BY <1>1, <1>4, <1>5, LinkerSuffices DEF LinkSteps

\* The new grant is on the row, and the one that was there is in hand.
LEMMA ReplacedStaysInHand ==
    ASSUME TypeOK, IInv, OneLinkAtATime, LinkersOnly, LinkIsKnown, NEW w \in Workers,
           SaveConnection(w)
    PROVE  LinkIsKnown'
<1> DEFINE new == [id |-> IF ent[w] = NoRow THEN pair[w].g ELSE ent[w].id,
                   pair |-> pair[w], marked |-> FALSE]
<1>1. pc[w] = "save" /\ OthersKeep(w) /\ UNCHANGED grant /\ pc'[w] \in {"idle", "release"}
  BY DEF TypeOK, OthersKeep, SaveConnection, GiveBack, Finish, Go, At, shirabe
<1>2. SameLink(ent[w])
  BY <1>1 DEF LinkIsKnown
<1>3. pair[w] \in Pair /\ ent[w] \in Row \cup {NoRow}
  BY <1>1 DEF TypeOK, IInv, HandlerInv
<1>4. new \in Row /\ new.pair = pair[w]
  BY <1>3, LinkAssumption DEF Row, Pair
<1>5. Saves(new)
  BY <1>2 DEF Saves, SameLink
<1>6. /\ row' = new
      /\ ent[w] # NoRow => pc'[w] = "release" /\ pair'[w] = ent[w].pair
  BY <1>5 DEF TypeOK, SaveConnection, SaveEntity, Finish, Go, Replaced
<1> HIDE DEF new
<1>7. row' # NoRow /\ row'.pair.g = pair[w].g
  BY <1>4, <1>6, LinkAssumption
<1>8. NoOrphanGrant'
  <2>1. ASSUME NEW g \in Grants, grant'[g] = "live", g # pair[w].g
        PROVE  \E v \in Workers : InHand(v, g)'
    <3>1. CASE row # NoRow /\ row.pair.g = g
      <4>1. ent[w] # NoRow /\ ent[w].pair.g = g
        BY <1>2, <3>1 DEF SameLink
      <4> QED  BY <1>6, <4>1 DEF InHand
    <3>2. ASSUME NEW v \in Workers, InHand(v, g) PROVE InHand(v, g)'
      BY <1>1, <2>1, <3>2 DEF InHand, OthersKeep
    <3> QED  BY <1>1, <2>1, <3>1, <3>2 DEF LinkIsKnown, NoOrphanGrant
  <2> QED  BY <1>7, <2>1 DEF NoOrphanGrant
<1> QED  BY <1>1, <1>8, LinkerSuffices DEF LinkSteps

\* A grant that leaves the handler is revoked, by whatever token of it there is.
LEMMA ReleasedIsRevoked ==
    ASSUME TypeOK, IInv, OneLinkAtATime, LinkersOnly, LinkIsKnown, NEW w \in Workers,
           ReleaseGrant(w)
    PROVE  LinkIsKnown'
<1>1. pc[w] = "release" /\ OthersKeep(w) /\ row' = row /\ pc'[w] = "idle"
  BY DEF TypeOK, OthersKeep, ReleaseGrant, Finish, Go, At
<1>2. pair[w] \in Pair
  BY <1>1 DEF TypeOK, IInv, HandlerInv
<1>3. \A g \in Grants : grant'[g] = "live" => grant[g] = "live" /\ g # pair[w].g
  BY <1>2 DEF TypeOK, OneLinkAtATime, ReleaseGrant, Revoke, Pair
<1>4. NoOrphanGrant'
  <2>1. ASSUME NEW g \in Grants, grant'[g] = "live"
        PROVE  (row' # NoRow /\ row'.pair.g = g) \/ \E v \in Workers : InHand(v, g)'
    <3>1. grant[g] = "live" /\ g # pair[w].g
      BY <1>3, <2>1
    <3>2. ASSUME NEW v \in Workers, InHand(v, g) PROVE InHand(v, g)'
      BY <1>1, <3>1, <3>2 DEF InHand, OthersKeep
    <3> QED  BY <1>1, <3>1, <3>2 DEF LinkIsKnown, NoOrphanGrant
  <2> QED  BY <2>1 DEF NoOrphanGrant
<1> QED  BY <1>1, <1>4, LinkerSuffices DEF LinkSteps

\* The grant of the row is revoked before the row is removed.
LEMMA UnlinkedIsRevoked ==
    ASSUME TypeOK, IInv, OneLinkAtATime, LinkersOnly, LinkIsKnown, NEW w \in Workers,
           UnlinkRevokes(w) \/ RemoveConnection(w)
    PROVE  LinkIsKnown'
<1>1. pc[w] \in {"revoke", "remove"} /\ OthersKeep(w)
  BY DEF TypeOK, OthersKeep, UnlinkRevokes, RemoveConnection, Finish, Go, At
<1>2. ent[w] \in Row /\ ent[w].pair \in Pair /\ SameLink(ent[w])
  BY <1>1 DEF TypeOK, IInv, HandlerInv, LinkIsKnown, Row
<1>3. CASE UnlinkRevokes(w)
  <2>1. pc'[w] = "remove" /\ UNCHANGED <<row, ent>>
    BY <1>3 DEF TypeOK, UnlinkRevokes, Go
  <2>2. NoneGoesLive /\ grant'[ent[w].pair.g] # "live"
    BY <1>2, <1>3 DEF TypeOK, OneLinkAtATime, NoneGoesLive, UnlinkRevokes, Revoke, Pair
  <2>3. NoOrphanGrant'
    <3>1. \A v \in Workers, g \in Grants : InHand(v, g) => InHand(v, g)'
      BY <1>1 DEF InHand, OthersKeep
    <3> QED  BY <2>1, <2>2, <3>1 DEF LinkIsKnown, NoOrphanGrant, NoneGoesLive
  <2>4. SameLink(ent[w])'
    BY <1>2, <2>1 DEF SameLink
  <2> QED  BY <1>1, <2>1, <2>2, <2>3, <2>4, LinkerSuffices DEF LinkSteps
<1>4. CASE RemoveConnection(w)
  <2>1. pc[w] = "remove" /\ pc'[w] = "idle" /\ UNCHANGED grant
    BY <1>4 DEF TypeOK, RemoveConnection, Finish, Go, At, shirabe
  <2>2. grant[ent[w].pair.g] # "live" /\ row # NoRow /\ row.pair.g = ent[w].pair.g
    BY <1>2, <2>1, LinkAssumption DEF LinkIsKnown, SameLink
  <2>3. NoOrphanGrant'
    <3>1. \A v \in Workers, g \in Grants : InHand(v, g) => InHand(v, g)'
      BY <1>1, <2>1 DEF InHand, OthersKeep
    <3> QED  BY <2>1, <2>2, <3>1 DEF LinkIsKnown, NoOrphanGrant
  <2> QED  BY <1>1, <2>1, <2>3, LinkerSuffices DEF LinkSteps
<1> QED  BY <1>3, <1>4

LEMMA LinkersNext ==
    ASSUME TypeOK, IInv, NoReseal, LinkersOnly, [Next]_vars
    PROVE  LinkersOnly'
<1>1. ASSUME NEW w \in Workers, OthersKeep(w),
             op'[w] \in {"complete", "unlink"} \/ pc'[w] \in LinkSteps => w \in LinkWorkers
      PROVE  LinkersOnly'
  BY <1>1 DEF LinkersOnly, OthersKeep
<1>2. ASSUME NEW w \in Workers, Arrives(w) PROVE LinkersOnly'
  BY <1>1, <1>2, LinkAssumption DEF TypeOK, Arrives, StartLookup, StartRefresh, StartUnlink,
     StartReencrypt, StartComplete, Start, Go, At, OthersKeep, LinkSteps
<1>3. ASSUME NEW w \in Workers,
             \/ FindToken(w) \/ LockRow(w) \/ ShirabeRenews(w) \/ StoreRenewal(w)
             \/ ShirabeAnswers(w) \/ ReportRefusal(w) \/ PatchStack(w) \/ MarkDisconnected(w)
             \/ StoreRenewalFails(w) \/ RenewalRefused(w) \/ RenewalTimesOut(w)
             \/ Crash(w) \/ ExchangeLost(w) \/ RemoveConnection(w) \/ ReleaseGrant(w)
             \/ ReencryptTokens(w)
      PROVE  LinkersOnly'
  <2>1. OthersKeep(w)
    BY <1>3 DEF TypeOK, OthersKeep, FindToken, LockRow, ShirabeRenews, StoreRenewal,
       ShirabeAnswers, ReportRefusal, PatchStack, MarkDisconnected, StoreRenewalFails,
       RenewalRefused, RenewalTimesOut, Crash, ExchangeLost, RemoveConnection, ReleaseGrant,
       ReencryptTokens, HandOut, GrantOver, Finish, Go
  <2>2. pc'[w] \notin LinkSteps /\ (op'[w] = op[w] \/ op'[w] = "none")
    BY <1>3 DEF TypeOK, FindToken, LockRow, ShirabeRenews, StoreRenewal,
       ShirabeAnswers, ReportRefusal, PatchStack, MarkDisconnected, StoreRenewalFails,
       RenewalRefused, RenewalTimesOut, Crash, ExchangeLost, RemoveConnection, ReleaseGrant,
       ReencryptTokens, HandOut, GrantOver, Finish, Go, LinkSteps
  <2> QED  BY <1>1, <2>1, <2>2 DEF LinkersOnly
<1>4. ASSUME NEW w \in Workers,
             \/ FindConnection(w) \/ ShirabeGrants(w) \/ CheckGrant(w) \/ LoadConnection(w)
             \/ SaveConnection(w) \/ UnlinkRevokes(w) \/ SaveFails(w) \/ RevokeFails(w)
      PROVE  LinkersOnly'
  <2>1. OthersKeep(w)
    BY <1>4 DEF TypeOK, OthersKeep, FindConnection, ShirabeGrants, CheckGrant,
       LoadConnection, SaveConnection, UnlinkRevokes, SaveFails, RevokeFails, GiveBack,
       Finish, Go
  <2>2. /\ op'[w] = op[w] \/ op'[w] = "none"
        /\ pc'[w] \in LinkSteps => pc[w] \in LinkSteps \/ op[w] = "unlink"
    BY <1>4 DEF TypeOK, FindConnection, ShirabeGrants, CheckGrant,
       LoadConnection, SaveConnection, UnlinkRevokes, SaveFails, RevokeFails, GiveBack,
       Finish, Go, At, LinkSteps
  <2> QED  BY <1>1, <2>1, <2>2 DEF LinkersOnly
<1>5. CASE UNCHANGED handlers
  BY <1>5 DEF handlers, LinkersOnly
<1>6. CASE Environment
  BY <1>5, <1>6 DEF Environment, StrayArrives, TokenBecomesDue, TokenExpires, ReaderRevokes
<1> QED  BY <1>2, <1>3, <1>4, <1>5, <1>6
    DEF Next, RunsFreely, WaitsForRow, Fails, vars

LEMMA OrphanNext ==
    ASSUME TypeOK, IInv, NoReseal, OneLinkAtATime, OrphanInv, [Next]_vars
    PROVE  OrphanInv'
<1>1. LinkersOnly /\ LinkersOnly'
  BY LinkersNext DEF OrphanInv
<1> SUFFICES ASSUME faults' = 0 PROVE LinkIsKnown'
  BY <1>1 DEF OrphanInv
<1>2. ASSUME NEW w \in Workers, Fails(w) PROVE FALSE
  BY <1>2 DEF TypeOK, Fails, StoreRenewalFails, RenewalRefused, RenewalTimesOut, SaveFails,
     RevokeFails, ExchangeLost, Crash, Fault
<1>3. ASSUME NEW w \in Workers, Arrives(w) \/ RunsFreely(w) \/ WaitsForRow(w)
      PROVE  LinkIsKnown'
  <2>1. ~ReencryptTokens(w)
    BY DEF IInv, HandlerInv, NoReseal, ReencryptTokens, At
  <2>2. faults = 0
    BY FaultsStay
  <2>3. LinkIsKnown
    BY <2>2 DEF OrphanInv
  <2> QED  BY <1>1, <1>3, <2>1, <2>3, ReadersLeaveTheLink, GrantStaysInHand, ReplacedStaysInHand,
     ReleasedIsRevoked, UnlinkedIsRevoked DEF RunsFreely, WaitsForRow
<1>4. CASE UNCHANGED <<row, handlers>> /\ NoneGoesLive /\ faults = 0
  BY <1>4 DEF OrphanInv, LinkIsKnown, SameLink, NoOrphanGrant, InHand, handlers, NoneGoesLive,
     TypeOK, IInv, HandlerInv, Row, Pair
<1>5. CASE Environment
  <2>1. UNCHANGED <<row, handlers, faults>>
    BY <1>5 DEF Environment, StrayArrives, TokenBecomesDue, TokenExpires, ReaderRevokes
  <2>2. NoneGoesLive
    BY <1>5 DEF TypeOK, NoneGoesLive, Environment, StrayArrives, Redeem, TokenBecomesDue, TokenExpires, ReaderRevokes
  <2> QED  BY <1>4, <2>1, <2>2
<1>6. CASE UNCHANGED vars
  BY <1>4, <1>6 DEF vars, shirabe, NoneGoesLive
<1> QED  BY <1>2, <1>3, <1>5, <1>6 DEF Next

\* As long as links are made and undone one at a time, no call is lost and no worker
\* dies, every grant that is live at Shirabe is on the row or in the hands of the
\* handler that will store or revoke it.
THEOREM NothingIsOrphaned ==
    ASSUME NoReseal, OneLinkAtATime PROVE Spec => [](faults = 0 => NoOrphanGrant)
<1>1. Init => OrphanInv
  BY DEF Init, OrphanInv, LinkersOnly, LinkIsKnown, LinkSteps, NoOrphanGrant
<1>2. TypeOK /\ IInv /\ OrphanInv /\ [Next]_vars => OrphanInv'
  BY OrphanNext
<1>3. OrphanInv => (faults = 0 => NoOrphanGrant)
  BY DEF OrphanInv, LinkIsKnown
<1> QED
  BY Invariance, <1>1, <1>2, <1>3, PTL DEF Spec
=============================================================================
