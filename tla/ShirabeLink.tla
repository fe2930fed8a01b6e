----------------------------- MODULE ShirabeLink -----------------------------
(***************************************************************************)
(* One reader's link to their Shirabe account: the row shirabe_connections *)
(* keeps for them, the handlers of the backend's workers that read and     *)
(* write it concurrently, and Shirabe's side of every call they make       *)
(* (backend/app/services/shirabe/connection.ts and its controller).        *)
(*                                                                         *)
(* A token pair is named by the grant it was issued under and by how often *)
(* that grant had been renewed; what is sealed in it, scopes, the stack    *)
(* copy and every log line are left out.  Between two steps of a handler   *)
(* (one database statement or one HTTP call) the others may run.           *)
(***************************************************************************)
EXTENDS Naturals, FiniteSets

CONSTANTS
    Workers,       \* handlers in flight at the same time, in whatever process
    LinkWorkers,   \* those that may be completing or undoing a link
    Grants,        \* the approvals the reader may give at Shirabe
    MaxRenewals,   \* bound: Shirabe ends a grant renewed more often
    MaxFaults,     \* bound: calls that get no good answer, and crashes
    Ops,           \* the operations handlers may run
    SpentRevokes,  \* does Shirabe end a grant handed back by a spent token?
    NoRow, NoPair, NoWorker

Operations == {"lookup", "refresh", "complete", "unlink", "reencrypt"}

Pair == [g : Grants, n : 0 .. MaxRenewals]
Row  == [id : Grants, pair : Pair, marked : BOOLEAN]

ASSUME LinkAssumption ==
    /\ Workers # {} /\ LinkWorkers \subseteq Workers
    /\ MaxRenewals \in Nat /\ MaxFaults \in Nat
    /\ Ops \subseteq Operations
    /\ SpentRevokes \in BOOLEAN
    /\ NoRow \notin Row /\ NoPair \notin Pair /\ NoWorker \notin Workers

VARIABLES
    row,       \* the reader's row, or NoRow; a row is named by its first grant
    lock,      \* the handler whose transaction holds the row FOR UPDATE
    pc, op,    \* each handler's next step and the operation it runs
    ent,       \* the entity the operation's own findOne returned
    held,      \* the due pair getReaderAccessToken would fall back on
    pair,      \* the token pair the handler is using
    grant,     \* at Shirabe: what became of each grant
    gen,       \* at Shirabe: renewals so far, so the one unspent refresh token
    age,       \* the clock, seen from each pair's access token
    stray,     \* renewals nobody waits for that may still reach Shirabe
    abandoned, \* history: pairs whose renewal nobody waited for
    replayed,  \* history: pairs Shirabe saw presented after they were spent
    adopted,   \* history: grants the row has held
    faults     \* how many faults there have been

handlers == <<pc, op, ent, held, pair>>
shirabe  == <<grant, gen, age>>
history  == <<stray, abandoned, replayed, adopted>>
vars     == <<row, lock, handlers, shirabe, history, faults>>

Steps == {"idle", "seek", "find", "lock", "renew", "renewed", "use", "report",
          "mark", "patch", "exchange", "profile", "load", "save", "release",
          "revoke", "remove", "reseal"}

TypeOK ==
    /\ row \in Row \cup {NoRow}
    /\ lock \in Workers \cup {NoWorker}
    /\ pc \in [Workers -> Steps]
    /\ op \in [Workers -> Operations \cup {"none"}]
    /\ ent \in [Workers -> Row \cup {NoRow}]
    /\ held \in [Workers -> Pair \cup {NoPair}]
    /\ pair \in [Workers -> Pair \cup {NoPair}]
    /\ grant \in [Grants -> {"unused", "approved", "live", "over"}]
    /\ gen \in [Grants -> 0 .. MaxRenewals]
    /\ age \in [Pair -> {"fresh", "due", "expired"}]
    /\ stray \subseteq Pair /\ abandoned \subseteq Pair /\ replayed \subseteq Pair
    /\ adopted \subseteq Grants
    /\ faults \in 0 .. MaxFaults

Init ==
    /\ row = NoRow /\ lock = NoWorker
    /\ pc = [w \in Workers |-> "idle"]
    /\ op = [w \in Workers |-> "none"]
    /\ ent = [w \in Workers |-> NoRow]
    /\ held = [w \in Workers |-> NoPair]
    /\ pair = [w \in Workers |-> NoPair]
    /\ grant = [g \in Grants |-> "unused"]
    /\ gen = [g \in Grants |-> 0]
    /\ age = [p \in Pair |-> "fresh"]
    /\ stray = {} /\ abandoned = {} /\ replayed = {} /\ adopted = {}
    /\ faults = 0

-----------------------------------------------------------------------------
\* Helpers.

\* The first pair of a grant, what the code exchange returns.
First(g) == [g |-> g, n |-> 0]

\* There is a link, and nobody has recorded its end.
Connected == row # NoRow /\ ~row.marked

\* Is the pair's access token within a minute of running out?
accessTokenIsDue(p) == age[p] # "fresh"

\* Would Shirabe take the pair's access token now?
Accepted(p) == grant[p.g] = "live" /\ age[p] # "expired"

At(w, step) == pc[w] = step
Go(w, step) == pc' = [pc EXCEPT ![w] = step]

\* The handler answers its request and forgets everything.
Finish(w) ==
    /\ Go(w, "idle")
    /\ op' = [op EXCEPT ![w] = "none"]
    /\ ent' = [ent EXCEPT ![w] = NoRow]
    /\ held' = [held EXCEPT ![w] = NoPair]
    /\ pair' = [pair EXCEPT ![w] = NoPair]

\* A row lock outlives the exchange that failed under it (a mutant).
RollbackForgotten == UNCHANGED lock

\* The transaction of a renewal ends without a write.
Rollback == lock' = NoWorker

\* Nothing is locked: readers and writers of the row overtake (a mutant).
RowIsNeverLocked == TRUE

\* A statement that writes the row waits for whoever holds it locked.
RowIsFree == lock = NoWorker

Fault == faults < MaxFaults /\ faults' = faults + 1

-----------------------------------------------------------------------------
\* A request arrives.

Start(w, o, step) ==
    /\ o \in Ops /\ At(w, "idle")
    /\ op' = [op EXCEPT ![w] = o]
    /\ Go(w, step)
    /\ UNCHANGED <<ent, held>>

\* A word lookup on a cache miss fetches the reader's credential.
StartLookup(w) ==
    /\ Start(w, "lookup", "find")
    /\ UNCHANGED <<row, lock, pair, shirabe, history, faults>>

\* The settings page, a stale session read, a drifted fingerprint or a 403
\* report: each finds the row and re-reads the stack.
StartRefresh(w) ==
    /\ Start(w, "refresh", "seek")
    /\ UNCHANGED <<row, lock, pair, shirabe, history, faults>>

\* The reader comes back from the consent screen with a code, perhaps again.
StartComplete(w, g) ==
    /\ w \in LinkWorkers
    /\ Start(w, "complete", "exchange")
    /\ pair' = [pair EXCEPT ![w] = First(g)]
    /\ grant' = [grant EXCEPT ![g] = IF @ = "unused" THEN "approved" ELSE @]
    /\ UNCHANGED <<row, lock, gen, age, history, faults>>

StartUnlink(w) ==
    /\ w \in LinkWorkers
    /\ Start(w, "unlink", "seek")
    /\ UNCHANGED <<row, lock, pair, shirabe, history, faults>>

\* bin/reencryptShirabeTokens reaches the reader's row.
StartReencrypt(w) ==
    /\ Start(w, "reencrypt", "seek")
    /\ UNCHANGED <<row, lock, pair, shirabe, history, faults>>

\* findConnection, or the script's find: an unlocked read of the row.
FindConnection(w) ==
    /\ At(w, "seek")
    /\ \/ /\ row = NoRow
          /\ Finish(w)
       \/ /\ row # NoRow
          /\ ent' = [ent EXCEPT ![w] = row]
          /\ \/ op[w] = "refresh"   /\ Go(w, "find")
             \/ op[w] = "unlink"    /\ Go(w, "revoke")
             \/ op[w] = "reencrypt" /\ Go(w, "reseal")
          /\ UNCHANGED <<op, held, pair>>
    /\ UNCHANGED <<row, lock, shirabe, history, faults>>

-----------------------------------------------------------------------------
\* getReaderAccessToken and renewAccessToken.

\* The token in hand goes to its caller; fallback is the due pair behind it.
HandOut(w, p, fallback) ==
    /\ pair' = [pair EXCEPT ![w] = p]
    /\ held' = [held EXCEPT ![w] = fallback]
    /\ Go(w, "use")
    /\ UNCHANGED <<op, ent>>

\* The unlocked read: nothing to hand out, a token with time left, or a renewal.
FindToken(w) ==
    /\ At(w, "find")
    /\ \/ /\ ~Connected
          /\ Finish(w)
       \/ /\ Connected
          /\ ~accessTokenIsDue(row.pair)
          /\ HandOut(w, row.pair, NoPair)
       \/ /\ Connected
          /\ accessTokenIsDue(row.pair)
          /\ held' = [held EXCEPT ![w] = row.pair]
          /\ Go(w, "lock")
          /\ UNCHANGED <<op, ent, pair>>
    /\ UNCHANGED <<row, lock, shirabe, history, faults>>

\* The token read before the lock was granted is sent (a mutant).
PresentedFromBeforeTheLock(w) == held[w]

\* The refresh token a renewal sends: the one on the row it has just locked.
Presented(w) == row.pair

\* The row, read again under its lock.  Only a pair that is still due is sent.
LockRow(w) ==
    /\ At(w, "lock") /\ RowIsFree
    /\ \/ /\ ~Connected
          /\ Finish(w)
          /\ UNCHANGED lock
       \/ /\ Connected
          /\ ~accessTokenIsDue(row.pair)
          /\ HandOut(w, row.pair, NoPair)
          /\ UNCHANGED lock
       \/ /\ Connected
          /\ accessTokenIsDue(row.pair)
          /\ lock' = w
          /\ pair' = [pair EXCEPT ![w] = Presented(w)]
          /\ Go(w, "renew")
          /\ UNCHANGED <<op, ent, held>>
    /\ UNCHANGED <<row, shirabe, history, faults>>

\* Shirabe reads a renewal request: the unspent token rotates, a spent one
\* ends the grant.
Redeem(p) ==
    \/ /\ grant[p.g] # "live"
       /\ UNCHANGED <<grant, gen, replayed>>
    \/ /\ grant[p.g] = "live" /\ p.n = gen[p.g] /\ p.n < MaxRenewals
       /\ gen' = [gen EXCEPT ![p.g] = @ + 1]
       /\ UNCHANGED <<grant, replayed>>
    \/ /\ grant[p.g] = "live" /\ (p.n # gen[p.g] \/ p.n = MaxRenewals)
       /\ grant' = [grant EXCEPT ![p.g] = "over"]
       /\ replayed' = IF p.n # gen[p.g] THEN replayed \cup {p} ELSE replayed
       /\ UNCHANGED gen

\* A grant found over is not recorded on the row (a mutant).
GrantOverUnrecorded(w) == Finish(w)

\* ShirabeGrantOverError: the link will be marked, outside the transaction.
GrantOver(w) == Go(w, "mark") /\ UNCHANGED <<op, ent, held, pair>>

\* The renewal is answered: with the next pair, or with invalid_grant, which
\* rolls the transaction back and leaves the mark to be made afterwards.
ShirabeRenews(w) ==
    /\ At(w, "renew")
    /\ Redeem(pair[w])
    /\ IF gen' # gen
       THEN Go(w, "renewed") /\ UNCHANGED <<lock, op, ent, held, pair>>
       ELSE GrantOver(w) /\ Rollback
    /\ UNCHANGED <<row, age, stray, abandoned, adopted, faults>>

\* applyTokens, save and commit.
StoreRenewal(w) ==
    /\ At(w, "renewed")
    /\ LET next == [pair[w] EXCEPT !.n = @ + 1] IN
       /\ row' = [row EXCEPT !.pair = next]
       /\ HandOut(w, next, NoPair)
    /\ lock' = NoWorker
    /\ UNCHANGED <<shirabe, history, faults>>

\* The new pair cannot be stored: it is lost, and the one it replaced stays.
StoreRenewalFails(w) ==
    /\ At(w, "renewed") /\ Fault
    /\ Rollback
    /\ abandoned' = abandoned \cup {pair[w]}
    /\ HandOut(w, held[w], held[w])
    /\ UNCHANGED <<row, shirabe, stray, replayed, adopted>>

\* Any other refusal: roll back and make do with the token we hold.
RenewalRefused(w) ==
    /\ At(w, "renew") /\ Fault
    /\ Rollback
    /\ HandOut(w, held[w], held[w])
    /\ UNCHANGED <<row, shirabe, history>>

\* No answer in time.  The request may be acted on yet, or may have been.
RenewalTimesOut(w) ==
    /\ At(w, "renew") /\ Fault
    /\ Rollback
    /\ stray' = stray \cup {pair[w]}
    /\ abandoned' = abandoned \cup {pair[w]}
    /\ HandOut(w, held[w], held[w])
    /\ UNCHANGED <<row, shirabe, replayed, adopted>>

-----------------------------------------------------------------------------
\* What the token is used for, and what its answer does to the row.

\* Any refusal is taken to be about the key (a mutant).
AnyRefusal(p) == TRUE

\* The one refusal that is about the key: revoked, or past its time.
Unauthorized(p) == ~Accepted(p)

\* The lookup, or the stack read, is answered.  A 401 is acted on, and so is
\* the stack; a lookup's report may get lost, and any other failure is ignored.
ShirabeAnswers(w) ==
    /\ At(w, "use")
    /\ \/ Finish(w)
       \/ /\ op[w] = "refresh" /\ Accepted(pair[w])
          /\ Go(w, "patch")
          /\ UNCHANGED <<op, ent, held, pair>>
       \/ /\ Unauthorized(pair[w])
          /\ \/ op[w] = "lookup" /\ Go(w, "report")
             \/ op[w] = "refresh" /\ ~ent[w].marked /\ Go(w, "mark")
          /\ UNCHANGED <<op, ent, held, pair>>
    /\ UNCHANGED <<row, lock, shirabe, history, faults>>

\* The stack is stored by saving the entity the refresh began with (a mutant).
StackPatchOfTheEntity(w) == [ent[w] EXCEPT !.marked = FALSE]

\* refreshStack's column-scoped update, which also clears the mark.
StackPatch(w) == IF row = NoRow THEN row ELSE [row EXCEPT !.marked = FALSE]

PatchStack(w) ==
    /\ At(w, "patch") /\ RowIsFree
    /\ row' = StackPatch(w)
    /\ Finish(w)
    /\ UNCHANGED <<lock, shirabe, history, faults>>

\* reportShirabeRefusal finds the row the refusal will be recorded on.
ReportRefusal(w) ==
    /\ At(w, "report")
    /\ \/ /\ ~Connected
          /\ Finish(w)
       \/ /\ Connected
          /\ ent' = [ent EXCEPT ![w] = row]
          /\ Go(w, "mark")
          /\ UNCHANGED <<op, held, pair>>
    /\ UNCHANGED <<row, lock, shirabe, history, faults>>

\* markDisconnected's update, keyed on the reader alone.
MarkDisconnected(w) ==
    /\ At(w, "mark") /\ RowIsFree
    /\ row' = IF row = NoRow THEN row ELSE [row EXCEPT !.marked = TRUE]
    /\ Finish(w)
    /\ UNCHANGED <<lock, shirabe, history, faults>>

-----------------------------------------------------------------------------
\* completeLink, saveConnection, unlink and reencryptTokens.

\* The code is redeemed once; a second redemption is refused.
ShirabeGrants(w) ==
    /\ At(w, "exchange")
    /\ LET g == pair[w].g IN
       \/ /\ grant[g] = "approved"
          /\ grant' = [grant EXCEPT ![g] = "live"]
          /\ Go(w, "profile")
          /\ UNCHANGED <<op, ent, held, pair>>
       \/ /\ grant[g] # "approved"
          /\ Finish(w)
          /\ UNCHANGED grant
    /\ UNCHANGED <<row, lock, gen, age, history, faults>>

\* A link that cannot be stored is only reported to the reader (a mutant).
GiveNothingBack(w) == Finish(w)

\* Whatever stops the link being stored hands the grant back first.
GiveBack(w) == Go(w, "release") /\ UNCHANGED <<op, ent, held, pair>>

\* assertGranted and fetchProfile: the link goes on, or the grant goes back.
CheckGrant(w) ==
    /\ At(w, "profile")
    /\ \/ /\ Accepted(pair[w])
          /\ Go(w, "load")
          /\ UNCHANGED <<op, ent, held, pair>>
       \/ GiveBack(w)
    /\ UNCHANGED <<row, lock, shirabe, history, faults>>

\* saveConnection's unlocked findOne, or a new entity.
LoadConnection(w) ==
    /\ At(w, "load")
    /\ ent' = [ent EXCEPT ![w] = row]
    /\ Go(w, "save")
    /\ UNCHANGED <<row, lock, op, held, pair, shirabe, history, faults>>

\* What save() leaves on the row for an entity: an UPDATE of the row with its
\* id, or an INSERT when there is none, which the index on user_id may refuse.
Saves(e) == row # NoRow => row.id = e.id
SaveEntity(e) == RowIsFree /\ Saves(e) /\ row' = e

\* The replaced token is read after the new pair was applied (a mutant).
ReplacedAfterApplying(w) == pair[w]

\* The grant a new link replaces, read before the entity is overwritten.
Replaced(w) == ent[w].pair

\* The new pair is stored, and the grant it replaces is next to be revoked.
SaveConnection(w) ==
    /\ At(w, "save")
    /\ LET new == [id |-> IF ent[w] = NoRow THEN pair[w].g ELSE ent[w].id,
                   pair |-> pair[w], marked |-> FALSE] IN
       \/ /\ SaveEntity(new)
          /\ adopted' = adopted \cup {pair[w].g}
          /\ \/ /\ ent[w] = NoRow
                /\ Finish(w)
             \/ /\ ent[w] # NoRow
                /\ pair' = [pair EXCEPT ![w] = Replaced(w)]
                /\ Go(w, "release")
                /\ UNCHANGED <<op, ent, held>>
       \/ /\ ~Saves(new)
          /\ GiveBack(w)
          /\ UNCHANGED <<row, adopted>>
    /\ UNCHANGED <<lock, shirabe, stray, abandoned, replayed, faults>>

\* The database refuses the write: the grant just made goes back.
SaveFails(w) ==
    /\ At(w, "save") /\ Fault
    /\ GiveBack(w)
    /\ UNCHANGED <<row, lock, shirabe, history>>

\* Shirabe is handed a refresh token to revoke.
Revoke(p) ==
    grant' = [grant EXCEPT ![p.g] =
                IF @ = "live" /\ (p.n = gen[p.g] \/ SpentRevokes)
                THEN "over" ELSE @]

\* revokeGrant at the end of completeLink: the new pair or the replaced one.
ReleaseGrant(w) ==
    /\ At(w, "release")
    /\ Revoke(pair[w])
    /\ Finish(w)
    /\ UNCHANGED <<row, lock, gen, age, history, faults>>

\* revokeGrant in unlink, by the refresh token the unlocked read returned.
UnlinkRevokes(w) ==
    /\ At(w, "revoke")
    /\ Revoke(ent[w].pair)
    /\ Go(w, "remove")
    /\ UNCHANGED <<row, lock, op, ent, held, pair, gen, age, history, faults>>

\* revokeGrant swallows a call that fails.
RevokeFails(w) ==
    /\ Fault
    /\ \/ At(w, "release") /\ Finish(w)
       \/ /\ At(w, "revoke") /\ Go(w, "remove")
          /\ UNCHANGED <<op, ent, held, pair>>
    /\ UNCHANGED <<row, lock, shirabe, history>>

\* remove() deletes the row by its id.
RemoveConnection(w) ==
    /\ At(w, "remove") /\ RowIsFree
    /\ row' = IF row # NoRow /\ row.id = ent[w].id THEN NoRow ELSE row
    /\ Finish(w)
    /\ UNCHANGED <<lock, shirabe, history, faults>>

\* reencryptTokens saves the whole entity the script loaded.
ReencryptTokens(w) ==
    /\ At(w, "reseal")
    /\ SaveEntity(ent[w]) \/ (~Saves(ent[w]) /\ UNCHANGED row)
    /\ Finish(w)
    /\ UNCHANGED <<lock, shirabe, history, faults>>

-----------------------------------------------------------------------------
\* The environment.

\* The code exchange gets no answer: a grant may exist that nobody here knows.
ExchangeLost(w) ==
    /\ At(w, "exchange") /\ Fault
    /\ Finish(w)
    /\ \/ UNCHANGED grant
       \/ /\ grant[pair[w].g] = "approved"
          /\ grant' = [grant EXCEPT ![pair[w].g] = "live"]
    /\ UNCHANGED <<row, lock, gen, age, history>>

\* The worker process dies; Postgres rolls its transaction back.
Crash(w) ==
    /\ ~At(w, "idle") /\ Fault
    /\ Finish(w)
    /\ lock' = IF lock = w THEN NoWorker ELSE lock
    /\ stray' = IF At(w, "renew") THEN stray \cup {pair[w]} ELSE stray
    /\ abandoned' = IF At(w, "renew") \/ At(w, "renewed")
                    THEN abandoned \cup {pair[w]} ELSE abandoned
    /\ UNCHANGED <<row, shirabe, replayed, adopted>>

\* A renewal nobody waits for reaches Shirabe after all.
StrayArrives(p) ==
    /\ p \in stray
    /\ stray' = stray \ {p}
    /\ Redeem(p)
    /\ UNCHANGED <<row, lock, handlers, age, abandoned, adopted, faults>>

\* The reader revokes a grant on Shirabe's access list, or it idles out.
ReaderRevokes(g) ==
    /\ grant[g] = "live"
    /\ grant' = [grant EXCEPT ![g] = "over"]
    /\ UNCHANGED <<row, lock, handlers, gen, age, history, faults>>

\* Somebody may yet present the pair: the age of the others tells nothing.
InUse(p) ==
    \/ row # NoRow /\ row.pair = p
    \/ \E w \in Workers : pair[w] = p /\ ~At(w, "exchange")

\* Within its last minute.
TokenBecomesDue(p) ==
    /\ InUse(p)
    /\ age[p] = "fresh"
    /\ age' = [age EXCEPT ![p] = "due"]
    /\ UNCHANGED <<row, lock, handlers, grant, gen, history, faults>>

\* The minute of headroom covers the ten seconds a call may take, so a token
\* handed out with time left is used before it runs out.
TokenExpires(p) ==
    /\ InUse(p)
    /\ age[p] = "due"
    /\ \A w \in Workers : At(w, "use") /\ pair[w] = p => held[w] # NoPair
    /\ age' = [age EXCEPT ![p] = "expired"]
    /\ UNCHANGED <<row, lock, handlers, grant, gen, history, faults>>

-----------------------------------------------------------------------------
\* Steps of one handler, those that wait for the row's lock apart.

WaitsForRow(w) ==
    \/ LockRow(w) \/ PatchStack(w) \/ MarkDisconnected(w)
    \/ SaveConnection(w) \/ RemoveConnection(w) \/ ReencryptTokens(w)

RunsFreely(w) ==
    \/ FindConnection(w) \/ FindToken(w) \/ ShirabeRenews(w) \/ StoreRenewal(w)
    \/ ShirabeAnswers(w) \/ ReportRefusal(w)
    \/ ShirabeGrants(w) \/ CheckGrant(w) \/ LoadConnection(w)
    \/ ReleaseGrant(w) \/ UnlinkRevokes(w)

Arrives(w) ==
    \/ StartLookup(w) \/ StartRefresh(w) \/ StartUnlink(w) \/ StartReencrypt(w)
    \/ \E g \in Grants : StartComplete(w, g)

Fails(w) ==
    \/ StoreRenewalFails(w) \/ RenewalRefused(w) \/ RenewalTimesOut(w)
    \/ SaveFails(w) \/ RevokeFails(w) \/ ExchangeLost(w) \/ Crash(w)

Environment ==
    \/ \E p \in Pair : StrayArrives(p) \/ TokenBecomesDue(p) \/ TokenExpires(p)
    \/ \E g \in Grants : ReaderRevokes(g)

Next ==
    \/ \E w \in Workers :
          Arrives(w) \/ RunsFreely(w) \/ WaitsForRow(w) \/ Fails(w)
    \/ Environment

Spec == Init /\ [][Next]_vars

\* Statements, calls (bounded by their own timeouts) and Postgres's queue for
\* a row lock all make progress; nobody has to visit, and no fault has to occur.
FairSpec ==
    /\ Spec
    /\ \A w \in Workers : WF_vars(RunsFreely(w)) /\ SF_vars(WaitsForRow(w))

-----------------------------------------------------------------------------
\* Properties.

\* Shirabe is shown a spent refresh token, which ends the grant, only when the
\* exchange that spent it was given up without an answer: never because two
\* handlers sent one token, or because a superseded pair was written back.
ReplayOnlyAfterLoss == replayed \subseteq abandoned

\* The pair on the row is the newest of its grant, but for the moment its
\* successor is about to be stored or when an exchange of it was given up.
StoredPairIsNewest ==
    row # NoRow =>
        \/ row.pair.n = gen[row.pair.g]
        \/ row.pair \in abandoned
        \/ lock # NoWorker /\ At(lock, "renewed") /\ gen[row.pair.g] = row.pair.n + 1

\* A grant handler w has on its hands: it will store it or revoke it.
InHand(w, g) ==
    /\ pc[w] \in {"profile", "load", "save", "release"}
    /\ pair[w].g = g

\* No grant is live at Shirabe that nothing here refers to any more.
NoOrphanGrant ==
    \A g \in Grants : grant[g] = "live" =>
        \/ row # NoRow /\ row.pair.g = g
        \/ \E w \in Workers : InHand(w, g)

\* Completing a link, or failing to, never revokes the grant the row lives on.
ReleaseSparesTheLink ==
    [][\A w \in Workers : ReleaseGrant(w) =>
          row = NoRow \/ row.pair.g # pair[w].g \/ grant[pair[w].g] # "live"]_vars

\* As long as no call is lost, a link marked as disconnected is one Shirabe has
\* ended.
MarkedLinkIsOver ==
    row # NoRow /\ row.marked /\ faults = 0 => grant[row.pair.g] # "live"

\* No handler waits for ever, whoever else wants the row.
EveryHandlerFinishes ==
    \A w \in Workers : ~At(w, "idle") ~> At(w, "idle")

DeadLink == Connected /\ grant[row.pair.g] = "over"

\* The reader keeps looking words up or refreshing their stack, and time passes.
KeepsVisiting ==
    /\ \A w \in Workers : SF_vars(StartLookup(w)) /\ SF_vars(StartRefresh(w))
    /\ \A p \in Pair : WF_vars(TokenBecomesDue(p))

\* A reader who does so is not left on a dead link that looks like a live one.
DeadLinkIsNoticed == KeepsVisiting => []<>~DeadLink

-----------------------------------------------------------------------------
\* The inductive invariant behind the properties of the token pair.

\* Only the renewal whose transaction is open holds the row, as it locked it.
LockInv ==
    /\ \A w \in Workers : pc[w] \in {"renew", "renewed"} => lock = w
    /\ lock # NoWorker =>
          /\ pc[lock] \in {"renew", "renewed"}
          /\ row # NoRow /\ row.pair = pair[lock]

\* What a handler has in hand at the steps that use it.
HandlerInv ==
    \A w \in Workers :
        /\ op[w] \in Ops \cup {"none"}
        /\ pc[w] = "reseal" => op[w] = "reencrypt"
        /\ pc[w] \in {"lock", "renew", "renewed"} => held[w] # NoPair
        /\ pc[w] \in {"renew", "renewed", "use", "exchange", "profile", "load",
                      "save", "release"} => pair[w] # NoPair
        /\ pc[w] \in {"revoke", "remove"} => ent[w] # NoRow
        /\ pc[w] = "exchange" => pair[w].n = 0

\* A grant the row has never held, in the hands of a handler at the given step.
Fresh(w) ==
    /\ pc[w] \in {"profile", "load", "save", "release"}
    /\ pair[w].g \notin adopted

\* Such a grant was never renewed, and only one handler has it.
FreshInv ==
    /\ \A w \in Workers : pc[w] \in {"profile", "load", "save"} => Fresh(w)
    /\ \A w \in Workers : Fresh(w) =>
          /\ pair[w].n = 0
          /\ grant[pair[w].g] \in {"live", "over"}
          /\ \A v \in Workers : Fresh(v) /\ pair[v].g = pair[w].g => v = w
    /\ \A w \in Workers : pc[w] = "release" /\ ~Fresh(w) =>
          row = NoRow \/ row.pair.g # pair[w].g
    /\ \A g \in Grants : grant[g] \in {"unused", "approved"} => g \notin adopted
    /\ \A g \in Grants \ adopted : gen[g] = 0

\* What rows and entities refer to has been on the row before.
AdoptedInv ==
    /\ row # NoRow => row.pair.g \in adopted
    /\ \A w \in Workers : ent[w] # NoRow => ent[w].pair.g \in adopted
    /\ \A p \in abandoned : p.g \in adopted

\* The newest pair is on the row, and what was given up is not newer than it.
NewestInv ==
    /\ StoredPairIsNewest
    /\ \A w \in Workers : pc[w] = "renewed" => gen[pair[w].g] = pair[w].n + 1
    /\ \A p \in abandoned : row # NoRow /\ p.g = row.pair.g => p.n <= row.pair.n
    /\ stray \subseteq abandoned

IInv ==
    /\ LockInv /\ HandlerInv /\ FreshInv /\ AdoptedInv /\ NewestInv
    /\ ReplayOnlyAfterLoss

-----------------------------------------------------------------------------
\* The ledger this implements: the stored pair, and the one the holder of the
\* row's lock has sent.
Stored == IF row = NoRow THEN NoPair ELSE row.pair
Sent   == IF lock = NoWorker THEN NoPair ELSE pair[lock]
Spent  == {p \in Pair : p.n < gen[p.g]}

Ledger == INSTANCE TokenLedger WITH
    stored <- Stored, sent <- Sent, spent <- Spent, doubted <- abandoned

\* The handlers, whatever their interleaving, keep the ledger's promise.
ImplementsLedger == Ledger!Spec
=============================================================================
