---------------------------- MODULE ReaderCache ----------------------------
(***************************************************************************)
(* What the frontend's server remembers of one signed-in reader            *)
(* (frontend/server/utils/ssrAuthCache.ts).  Every worker process keeps,   *)
(* for a minute, what the backend said of the session, once for the        *)
(* renders of pages (identity-auth.ts) and once for word lookups           *)
(* (shirabeReader.ts).  A write through the proxy (backendProxy.ts) is     *)
(* made visible in two ways: the browser that made it gets a stamp that    *)
(* becomes part of the key, and the worker it went through forgets the     *)
(* session.                                                                *)
(*                                                                         *)
(* The account is the number of writes the backend has taken: preferences, *)
(* and linking and unlinking Shirabe.  Time is counted in ticks.  The      *)
(* fetch of a lookup times out in less than one, so it may see one begin,  *)
(* never two; those of a render have no timeout and may take any time.     *)
(***************************************************************************)
EXTENDS Naturals

CONSTANTS
    Forks,       \* worker processes of the server
    Browsers,    \* all that send the session's cookie
    Fetches,     \* requests to the backend at the same time
    TTL_MS,      \* how long an answer is kept, in ticks
    MaxWrites    \* bound: writes

ASSUME ReaderAssumption ==
    /\ TTL_MS \in Nat \ {0} /\ MaxWrites \in Nat

Scopes == {"identity", "shirabe"}
Accounts == 0 .. MaxWrites

PREFS_VERSION_MAX_AGE_S == 2 * TTL_MS

\* A key is a scope and a stamp.  A stamp is the time a write was answered, here the
\* number of the write, since nobody asks which of two is later; 0 is none.
SessionKeys == Scopes \X Accounts
NoEntry == [kind |-> "none"]

\* What a failed identity fetch leaves: nobody is signed in.
SignedOut == MaxWrites + 1

\* How many ticks a fetch has been out; TooLong is any number above TTL_MS.
TooLong == TTL_MS + 1
Durations == 0 .. TooLong

\* An answer is the account as it was, or SignedOut.  How long its fetch was out is
\* history, and so is that of a fetch, but for its timeout.
StoredAnswers ==
    [kind : {"value"}, read : Accounts \cup {SignedOut}, left : 1 .. TTL_MS,
     out : Durations]
HeldEntries == {NoEntry} \cup [kind : {"inflight"}, by : Fetches] \cup StoredAnswers

NotOut == [step |-> "idle"]
FetchStates ==
    {NotOut} \cup [step : {"asking", "told"}, fork : Forks, key : SessionKeys,
                   read : Accounts, out : Durations]

VARIABLES
    account,   \* writes the backend has taken
    held,      \* the Map of each worker; an answer with no time left is out of it
    sent,      \* each fetch: where it goes, what it read, for how long it is out
    jar,       \* each browser's stamp and the ticks it has left
    known,     \* the last write each browser has been told was done
    writing,   \* its write that is under way: through which worker, and which
    past,      \* history: the account at the last ticks, newest first
    forgot     \* history: the last write each worker has dropped the session for
               \* while no fetch of it was out

rvars == <<account, held, sent, jar, known, writing, past, forgot>>

ReaderTypeOK ==
    /\ account \in Accounts
    /\ held \in [Forks -> [SessionKeys -> HeldEntries]]
    /\ sent \in [Fetches -> FetchStates]
    /\ jar \in [Browsers -> [stamp : Accounts, left : 0 .. 2 * TTL_MS]]
    /\ known \in [Browsers -> Accounts]
    /\ writing \in [Browsers -> SUBSET (Forks \X Accounts)]
    /\ past \in [1 .. 2 * TTL_MS -> Accounts] /\ forgot \in [Forks -> Accounts]

ReaderInit ==
    /\ account = 0
    /\ held = [w \in Forks |-> [k \in SessionKeys |-> NoEntry]]
    /\ sent = [r \in Fetches |-> NotOut]
    /\ jar = [b \in Browsers |-> [stamp |-> 0, left |-> 0]]
    /\ known = [b \in Browsers |-> 0] /\ writing = [b \in Browsers |-> {}]
    /\ past = [i \in 1 .. 2 * TTL_MS |-> 0] /\ forgot = [w \in Forks |-> 0]

-----------------------------------------------------------------------------
\* Renders and lookups.

cacheKey(b, scope) == <<scope, jar[b].stamp>>

\* An answer that is held serves, and so does one that is on the way.
Hit(w, key) ==
    /\ held[w][key].kind # "none"
    /\ UNCHANGED <<held, sent>>

Miss(w, key) ==
    /\ held[w][key].kind = "none"
    /\ \E r \in Fetches :
         /\ sent[r] = NotOut
         /\ sent' = [sent EXCEPT ![r] = [step |-> "asking", fork |-> w, key |-> key,
                                         read |-> 0, out |-> 0]]
         /\ held' = [held EXCEPT ![w][key] = [kind |-> "inflight", by |-> r]]

ssrAuthFetch(b, w, scope) ==
    /\ Hit(w, cacheKey(b, scope)) \/ Miss(w, cacheKey(b, scope))
    /\ UNCHANGED <<account, jar, known, writing, past, forgot>>

\* The backend reads the session and the preferences; its answer is on the way.
BackendTells(r) ==
    /\ sent[r].step = "asking"
    /\ sent' = [sent EXCEPT ![r] = [@ EXCEPT !.step = "told", !.read = account]]
    /\ UNCHANGED <<account, held, jar, known, writing, past, forgot>>

\* The fetch is over, and e is put under its key, whatever is there by now.
Puts(r, e) ==
    /\ held' = [held EXCEPT ![sent[r].fork][sent[r].key] = e]
    /\ sent' = [sent EXCEPT ![r] = NotOut]
    /\ UNCHANGED <<account, jar, known, writing, past, forgot>>

\* An answer that is kept from now on.
Kept(read, out) == [kind |-> "value", read |-> read, left |-> TTL_MS, out |-> out]

FetchArrives(r) ==
    /\ sent[r].step = "told"
    /\ Puts(r, Kept(sent[r].read, sent[r].out))

\* A failure is forgotten when a lookup asked.  A render takes it for an answer,
\* that nobody is signed in, which is kept like one.
FetchFails(r) ==
    /\ sent[r].step # "idle"
    /\ Puts(r, IF sent[r].key[1] = "shirabe" THEN NoEntry ELSE Kept(SignedOut, sent[r].out))

-----------------------------------------------------------------------------
\* Writes.

\* The backend takes the write.
BackendTakes(b, w) ==
    /\ writing[b] = {} /\ account < MaxWrites
    /\ account' = account + 1
    /\ writing' = [writing EXCEPT ![b] = {<<w, account + 1>>}]
    /\ UNCHANGED <<held, sent, jar, known, past, forgot>>

\* Only what pages are rendered from is forgotten (a mutant).
dropIdentity(w) ==
    held' = [held EXCEPT ![w] =
               [k \in SessionKeys |-> IF k[1] = "identity" THEN NoEntry ELSE held[w][k]]]

dropSessionEntries(w) ==
    held' = [held EXCEPT ![w] = [k \in SessionKeys |-> NoEntry]]

\* The worker is left to forget (a mutant).
noStamp(b, n) == UNCHANGED jar

stampPreferencesVersion(b, n) ==
    jar' = [jar EXCEPT ![b] = [stamp |-> n, left |-> PREFS_VERSION_MAX_AGE_S]]

OutOn(w) == {r \in Fetches : sent[r] # NotOut /\ sent[r].fork = w}

\* The proxy's onResponse, and the response reaches the browser.
WriteIsAnswered(b) ==
    \E x \in writing[b] :
      /\ stampPreferencesVersion(b, x[2]) /\ dropSessionEntries(x[1])
      /\ known' = [known EXCEPT ![b] = x[2]]
      /\ writing' = [writing EXCEPT ![b] = {}]
      /\ forgot' = IF OutOn(x[1]) = {} /\ forgot[x[1]] < x[2]
                   THEN [forgot EXCEPT ![x[1]] = x[2]] ELSE forgot
      /\ UNCHANGED <<account, sent, past>>

\* The answer never comes: nobody is told, and nothing forgotten.
WriteIsLost(b) ==
    /\ writing[b] # {} /\ writing' = [writing EXCEPT ![b] = {}]
    /\ UNCHANGED <<account, held, sent, jar, known, past, forgot>>

\* The last tick never ends (a mutant).
olderToOne(e) ==
    IF e.kind = "value" /\ e.left > 1 THEN [e EXCEPT !.left = @ - 1] ELSE e

\* An entry is out of the Map as soon as it has expired: the code keeps it until
\* the next call, which drops it before it looks.
Older(e) ==
    CASE e.kind = "value" /\ e.left = 1 -> NoEntry
      [] e.kind = "value" /\ e.left > 1 -> [e EXCEPT !.left = @ - 1]
      [] OTHER -> e

Later(out) == IF out = TooLong THEN TooLong ELSE out + 1

\* Only the fetches of lookups have a timeout.
ReaderTick ==
    /\ \A r \in Fetches :
         sent[r] # NotOut => sent[r].key[1] = "identity" \/ sent[r].out = 0
    /\ sent' = [r \in Fetches |->
                  IF sent[r] = NotOut THEN NotOut
                  ELSE [sent[r] EXCEPT !.out = Later(sent[r].out)]]
    /\ held' = [w \in Forks |-> [k \in SessionKeys |-> Older(held[w][k])]]
    /\ jar' = [b \in Browsers |->
                 IF jar[b].left > 1 THEN [jar[b] EXCEPT !.left = @ - 1]
                 ELSE [stamp |-> 0, left |-> 0]]
    /\ past' = [i \in DOMAIN past |-> IF i = 1 THEN account ELSE past[i - 1]]
    /\ UNCHANGED <<account, known, writing, forgot>>

ReaderNext ==
    \/ \E b \in Browsers, w \in Forks, scope \in Scopes : ssrAuthFetch(b, w, scope)
    \/ \E r \in Fetches : BackendTells(r) \/ FetchArrives(r) \/ FetchFails(r)
    \/ \E b \in Browsers :
         \/ \E w \in Forks : BackendTakes(b, w)
         \/ WriteIsAnswered(b) \/ WriteIsLost(b)
    \/ ReaderTick

ReaderSpec == ReaderInit /\ [][ReaderNext]_rvars

-----------------------------------------------------------------------------
\* Properties, of what a request would be answered with now.

\* What a request of b to worker w would be shown from what is held, with how long the
\* fetch of it was out: the answer, or what the fetch it would wait for has read.
Shown(b, w, scope) ==
    LET e == held[w][cacheKey(b, scope)] IN
    CASE e.kind = "value" -> {x \in {e} : x.read # SignedOut}
      [] e.kind = "inflight" -> {sent[r] : r \in {q \in {e.by} : sent[q].step = "told"}}
      [] OTHER -> {}

\* A reader who has just saved something, or linked Shirabe, finds it in every page
\* and lookup of the same browser from then on, whichever worker serves it, and also
\* once the stamp has run out.  Only a fetch that was out for longer than an answer is
\* kept can put what it read before the write under the plain key after that, since the
\* fetches of a render have no timeout.  The worker that served the write shows it to
\* every browser, unless a fetch was out when it forgot the session: that one puts what
\* it read before the write back under the key, for another minute.
WritesShow ==
    \A b \in Browsers, w \in Forks, scope \in Scopes :
      \A x \in Shown(b, w, scope) :
        /\ x.read >= known[b] \/ (x.out = TooLong /\ jar[b].stamp = 0)
        /\ x.read >= forgot[w]

\* Nobody is shown an account older than the minute and the time its fetch was out,
\* however long that is (the history ends with a fetch of a minute).
StaleForAMinute ==
    \A b \in Browsers, w \in Forks, scope \in Scopes :
      \A x \in Shown(b, w, scope) :
        x.out # TooLong => x.read >= past[TTL_MS + x.out]
=============================================================================
