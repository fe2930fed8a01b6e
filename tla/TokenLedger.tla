----------------------------- MODULE TokenLedger -----------------------------
(***************************************************************************)
(* What the handling of a reader's Shirabe tokens promises, without rows,  *)
(* locks or requests: at most one refresh token is on file, it is sent by  *)
(* one party at a time, a token Shirabe has already taken is never sent    *)
(* again unless the answer to it was lost, and a grant that was let go of  *)
(* never comes back on file.                                               *)
(***************************************************************************)
EXTENDS Naturals

CONSTANTS Grants, MaxRenewals, NoPair

Token == [g : Grants, n : 0 .. MaxRenewals]

VARIABLES
    stored,   \* the token on file, or NoPair
    sent,     \* the token being exchanged, or NoPair
    spent,    \* tokens Shirabe has traded for their successor
    doubted,  \* tokens whose exchange was given up without an answer
    adopted   \* grants that have been on file

ledger == <<stored, sent, spent, doubted, adopted>>

Init ==
    /\ stored = NoPair /\ sent = NoPair
    /\ spent = {} /\ doubted = {} /\ adopted = {}

\* A grant the reader has just approved takes the place of whatever was there.
Adopt(g) ==
    /\ sent = NoPair
    /\ g \notin adopted
    /\ [g |-> g, n |-> 0] \notin spent
    /\ stored' = [g |-> g, n |-> 0]
    /\ adopted' = adopted \cup {g}
    /\ UNCHANGED <<sent, spent, doubted>>

Forget ==
    /\ sent = NoPair
    /\ stored' = NoPair
    /\ UNCHANGED <<sent, spent, doubted, adopted>>

\* The token on file is sent to be exchanged.
Send ==
    /\ sent = NoPair /\ stored # NoPair
    /\ stored \in spent => stored \in doubted
    /\ sent' = stored
    /\ UNCHANGED <<stored, spent, doubted, adopted>>

Spend(t) ==
    /\ t \notin spent
    /\ t = sent \/ t \in doubted
    /\ spent' = spent \cup {t}
    /\ UNCHANGED <<stored, sent, doubted, adopted>>

\* The successor of the token that was sent is put on file.
Rotate ==
    /\ sent # NoPair /\ sent \in spent
    /\ stored' = [sent EXCEPT !.n = @ + 1]
    /\ stored' \notin spent
    /\ sent' = NoPair
    /\ UNCHANGED <<spent, doubted, adopted>>

\* The exchange ends with nothing to put on file.
GiveUp ==
    /\ sent # NoPair
    /\ sent' = NoPair
    /\ \/ /\ sent \in spent => sent \in doubted
          /\ UNCHANGED doubted
       \/ doubted' = doubted \cup {sent}
    /\ UNCHANGED <<stored, spent, adopted>>

Next ==
    \/ \E g \in Grants : Adopt(g)
    \/ \E t \in Token : Spend(t)
    \/ Forget \/ Send \/ Rotate \/ GiveUp

Spec == Init /\ [][Next]_ledger
=============================================================================
