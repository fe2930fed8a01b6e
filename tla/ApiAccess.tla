----------------------------- MODULE ApiAccess -----------------------------
(***************************************************************************)
(* What one account may do with its API key (backend/app/middleware:       *)
(* authentication.ts, authCacheStore.ts, authCacheInvalidation.ts,         *)
(* apiLimiterQuota.ts).  The key, the account and the tiers are read       *)
(* through caches that every process keeps for itself, and that only the   *)
(* process which served a change empties; a request is held against the    *)
(* month's usage, which is counted after it was answered.                  *)
(*                                                                         *)
(* A row has a version, the number of times it was changed.  Time is       *)
(* counted in ticks; a request may see one begin, never two.  Every        *)
(* account's tier is in the table, so the fallbacks of quota.ts for one    *)
(* that is not, the legacy column and the default, are left out.           *)
(***************************************************************************)
EXTENDS Naturals, FiniteSets

CONSTANTS
    Procs,         \* processes of the backend
    Requests,      \* requests being served or counted at the same time
    Limits,        \* monthly quotas
    NoLimit,       \* an account's quotaOverride when it has none
    AUTH_TTL,      \* how long the three caches keep what they read, in ticks
    MaxVersion,    \* bound: changes, of all the rows together
    MaxAnswers     \* bound: answers in the month

ASSUME AccessAssumption ==
    /\ IsFiniteSet(Procs) /\ IsFiniteSet(Requests) /\ Requests # {}
    /\ Limits \subseteq Nat /\ Limits # {} /\ NoLimit \notin Limits
    /\ AUTH_TTL \in Nat \ {0} /\ MaxVersion \in Nat /\ MaxAnswers \in Nat

\* What is read: the API key and its owner's id, the User row, the Tier table (of
\* which one row matters here).
Things == {"key", "user", "tiers"}

\* alive: the key exists, the user isActive.  n: the user's quotaOverride, the tier's
\* monthlyQuotaLimit.
ThingRows == [v : 0 .. MaxVersion, alive : BOOLEAN, n : Limits \cup {NoLimit}]
Absent == [kind |-> "absent"]
Saved == [kind |-> "saved"]
CacheEntries == {Absent} \cup [kind : {"cached"}, row : ThingRows, left : 1 .. AUTH_TTL]

Free == [stage |-> "free"]
Underway ==
    [stage : Things \cup {"usage", "serve", "count"}, on : Procs,
     read : ThingRows \cup {Absent}, user : ThingRows \cup {Absent},
     limit : Limits \cup {NoLimit}, late : BOOLEAN]

VARIABLES
    row,        \* the database
    cache,      \* of each process
    request,    \* what each request is about to do, and what it has read for it
    deleting,   \* processes that answered a deletion of the key, not yet finished
    editing,    \* updateAdminUserQuota of each process: its copy of the row, or Saved
    usage,      \* request_count of the month
    answers,    \* history: answers that count
    lost,       \* history: and those whose increment failed
    before,     \* history: the versions at the last ticks, newest first
    shown       \* history: the version each process has dropped its entry for while
                \* no read of it was under way there

avars == <<row, cache, request, deleting, editing, usage, answers, lost, before, shown>>

AccessTypeOK ==
    /\ row \in [Things -> ThingRows] /\ cache \in [Procs -> [Things -> CacheEntries]]
    /\ request \in [Requests -> {Free} \cup Underway]
    /\ deleting \subseteq Procs
    /\ editing \in [Procs -> ThingRows \cup {Absent, Saved}]
    /\ {usage, answers, lost} \subseteq 0 .. MaxAnswers
    /\ before \in [1 .. AUTH_TTL + 1 -> [Things -> 0 .. MaxVersion]]
    /\ shown \in [Procs -> [Things -> 0 .. MaxVersion]]

\* The processes may start in the midst of a month.
AccessInit ==
    /\ \E n \in Limits :
         row = [x \in Things |-> [v |-> 0, alive |-> TRUE,
                                  n |-> IF x = "tiers" THEN n ELSE NoLimit]]
    /\ cache = [p \in Procs |-> [x \in Things |-> Absent]]
    /\ request = [r \in Requests |-> Free]
    /\ deleting = {} /\ editing = [p \in Procs |-> Absent]
    /\ usage \in 0 .. row["tiers"].n /\ usage <= MaxAnswers /\ answers = usage /\ lost = 0
    /\ before = [i \in 1 .. AUTH_TTL + 1 |-> [x \in Things |-> 0]]
    /\ shown = [p \in Procs |-> [x \in Things |-> 0]]

-----------------------------------------------------------------------------
\* A request.

resolveQuotaLimit(user, tiers) == IF user.n # NoLimit THEN user.n ELSE tiers.n

\* The request goes on with the row d of what it asked for.
Proceed(r, d) ==
    LET q == request[r] IN
    CASE q.stage = "key"   -> [q EXCEPT !.stage = "user", !.read = Absent]
      [] q.stage = "user"  -> [q EXCEPT !.stage = "tiers", !.read = Absent, !.user = d]
      [] q.stage = "tiers" -> [q EXCEPT !.stage = "usage", !.read = Absent, !.user = Absent,
                                        !.limit = resolveQuotaLimit(q.user, d)]

Arrives(r, p) ==
    /\ request[r] = Free
    /\ request' = [request EXCEPT ![r] =
                     [stage |-> "key", on |-> p, read |-> Absent, user |-> Absent,
                      limit |-> NoLimit, late |-> FALSE]]
    /\ UNCHANGED <<row, cache, deleting, editing, usage, answers, lost, before, shown>>

CacheHit(r) ==
    LET q == request[r] IN
    /\ q.stage \in Things /\ q.read = Absent /\ cache[q.on][q.stage] # Absent
    /\ request' = [request EXCEPT ![r] = Proceed(r, cache[q.on][q.stage].row)]
    /\ UNCHANGED <<row, cache, deleting, editing, usage, answers, lost, before, shown>>

\* verifyApiKey, User.findOne, Tier.find
ReadsRow(r) ==
    LET q == request[r] IN
    /\ q.stage \in Things /\ q.read = Absent /\ cache[q.on][q.stage] = Absent
    /\ request' = [request EXCEPT ![r].read = row[q.stage]]
    /\ UNCHANGED <<row, cache, deleting, editing, usage, answers, lost, before, shown>>

\* The answer is cached; a key that does not exist and an account that is closed are
\* refused and not cached.
CachesRow(r) ==
    LET q == request[r] IN
    /\ q.stage \in Things /\ q.read # Absent
    /\ IF q.read.alive
         THEN /\ cache' = [cache EXCEPT ![q.on][q.stage] =
                             [kind |-> "cached", row |-> q.read, left |-> AUTH_TTL]]
              /\ request' = [request EXCEPT ![r] = Proceed(r, q.read)]
         ELSE request' = [request EXCEPT ![r] = Free] /\ UNCHANGED cache
    /\ UNCHANGED <<row, deleting, editing, usage, answers, lost, before, shown>>

\* Served while the quota is not passed (a mutant).
checkIsOffByOne(r) ==
    /\ request[r].stage = "usage"
    /\ request' = [request EXCEPT ![r] =
                     IF usage > @.limit THEN Free ELSE [@ EXCEPT !.stage = "serve"]]
    /\ UNCHANGED <<row, cache, deleting, editing, usage, answers, lost, before, shown>>

rateLimitApiQuota(r) ==
    /\ request[r].stage = "usage"
    /\ request' = [request EXCEPT ![r] =
                     IF usage >= @.limit THEN Free ELSE [@ EXCEPT !.stage = "serve"]]
    /\ UNCHANGED <<row, cache, deleting, editing, usage, answers, lost, before, shown>>

\* The response is out; only a 2xx counts.
Finishes(r) ==
    /\ request[r].stage = "serve"
    /\ \/ /\ answers < MaxAnswers /\ answers' = answers + 1
          /\ request' = [request EXCEPT ![r].stage = "count"]
       \/ request' = [request EXCEPT ![r] = Free] /\ UNCHANGED answers
    /\ UNCHANGED <<row, cache, deleting, editing, usage, lost, before, shown>>

\* Nobody waits for the increment; its failure is a line in the log.
incrementForUser(r) ==
    /\ request[r].stage = "count"
    /\ request' = [request EXCEPT ![r] = Free]
    /\ \/ usage' = usage + 1 /\ UNCHANGED lost
       \/ lost' = lost + 1 /\ UNCHANGED usage
    /\ UNCHANGED <<row, cache, deleting, editing, answers, before, shown>>

-----------------------------------------------------------------------------
\* Changes.

Reading(p, x) ==
    \E r \in Requests :
      request[r].stage = x /\ request[r].on = p /\ request[r].read # Absent

\* The cached key is left to expire (a mutant).
dropsAllButTheKey(p, xs) ==
    cache' = [cache EXCEPT ![p] =
                [x \in Things |-> IF x \in xs \ {"key"} THEN Absent ELSE cache[p][x]]]

\* Process p drops its entries of these.
Drops(p, xs) ==
    cache' = [cache EXCEPT ![p] = [x \in Things |-> IF x \in xs THEN Absent ELSE cache[p][x]]]

\* From here on p is to show these as they are.
IsToShow(p, xs) ==
    shown' = [shown EXCEPT ![p] =
                [x \in Things |-> IF x \in xs /\ ~Reading(p, x) THEN row[x].v ELSE shown[p][x]]]

Changes == row["key"].v + row["user"].v + row["tiers"].v

\* The key is deleted through process p.
DeletesKey(p) ==
    /\ row["key"].alive /\ Changes < MaxVersion
    /\ row' = [row EXCEPT !["key"].alive = FALSE, !["key"].v = @ + 1]
    /\ deleting' = deleting \cup {p}
    /\ UNCHANGED <<cache, request, editing, usage, answers, lost, before, shown>>

\* The deletion has been answered.
invalidateAuthCachesAfterMutation(p) ==
    /\ p \in deleting /\ deleting' = deleting \ {p}
    /\ Drops(p, {"key", "user"}) /\ IsToShow(p, {"key", "user"})
    /\ UNCHANGED <<row, request, editing, usage, answers, lost, before>>

\* The client is gone: there is no 'finish', and nothing is dropped.
DeletionIsCutOff(p) ==
    /\ p \in deleting /\ deleting' = deleting \ {p}
    /\ UNCHANGED <<row, cache, request, editing, usage, answers, lost, before, shown>>

\* updateAdminUserQuota loads the account ...
QuotaLoads(p) ==
    /\ editing[p] = Absent /\ Changes < MaxVersion
    /\ editing' = [editing EXCEPT ![p] = row["user"]]
    /\ UNCHANGED <<row, cache, request, deleting, usage, answers, lost, before, shown>>

\* ... saves its copy, every column of it ...
QuotaSaves(p, n) ==
    /\ editing[p] \notin {Absent, Saved} /\ Changes < MaxVersion
    /\ row' = [row EXCEPT !["user"] =
                 [v |-> @.v + 1, alive |-> editing[p].alive, n |-> n]]
    /\ editing' = [editing EXCEPT ![p] = Saved]
    /\ UNCHANGED <<cache, request, deleting, usage, answers, lost, before, shown>>

\* ... and drops what its own process has cached.
QuotaInvalidates(p) ==
    /\ editing[p] = Saved /\ editing' = [editing EXCEPT ![p] = Absent]
    /\ Drops(p, {"user", "tiers"}) /\ IsToShow(p, {"user", "tiers"})
    /\ UNCHANGED <<row, request, deleting, usage, answers, lost, before>>

\* Nothing in the code closes an account or edits a tier: it is done in the database.
EditsDatabase ==
    /\ \/ /\ row["user"].alive /\ Changes < MaxVersion
          /\ row' = [row EXCEPT !["user"].alive = FALSE, !["user"].v = @ + 1]
       \/ /\ Changes < MaxVersion
          /\ \E n \in Limits : row' = [row EXCEPT !["tiers"].n = n, !["tiers"].v = @ + 1]
    /\ UNCHANGED <<cache, request, deleting, editing, usage, answers, lost, before, shown>>

\* A key or an account that makes room for others.
Evicts(p, x) ==
    /\ x # "tiers" /\ cache[p][x] # Absent
    /\ cache' = [cache EXCEPT ![p][x] = Absent]
    /\ UNCHANGED <<row, request, deleting, editing, usage, answers, lost, before, shown>>

\* An entry is gone as soon as it has expired, which is when the code would no longer
\* use it.
Aged(e) ==
    IF e = Absent \/ e.left = 1 THEN Absent ELSE [e EXCEPT !.left = @ - 1]

AccessTick ==
    /\ \A r \in Requests : request[r] # Free => ~request[r].late
    /\ request' = [r \in Requests |->
                     IF request[r] = Free THEN Free ELSE [request[r] EXCEPT !.late = TRUE]]
    /\ cache' = [p \in Procs |-> [x \in Things |-> Aged(cache[p][x])]]
    /\ before' = [i \in DOMAIN before |->
                    IF i = 1 THEN [x \in Things |-> row[x].v] ELSE before[i - 1]]
    /\ UNCHANGED <<row, deleting, editing, usage, answers, lost, shown>>

AccessNext ==
    \/ \E r \in Requests :
         \/ \E p \in Procs : Arrives(r, p)
         \/ CacheHit(r) \/ ReadsRow(r) \/ CachesRow(r)
         \/ rateLimitApiQuota(r) \/ Finishes(r) \/ incrementForUser(r)
    \/ \E p \in Procs :
         \/ DeletesKey(p) \/ invalidateAuthCachesAfterMutation(p) \/ DeletionIsCutOff(p)
         \/ QuotaLoads(p) \/ QuotaInvalidates(p)
         \/ \E n \in Limits \cup {NoLimit} : QuotaSaves(p, n)
         \/ \E x \in Things : Evicts(p, x)
    \/ EditsDatabase
    \/ AccessTick

AccessSpec == AccessInit /\ [][AccessNext]_avars

-----------------------------------------------------------------------------
\* Properties.

\* A deleted key, a closed account, a quota or a tier that was changed shows at once in
\* the process that served the change, unless a request there had read the row and not
\* yet cached it; and everywhere after the five minutes the caches keep it and the time
\* of such a request.
ChangesShow ==
    \A p \in Procs, x \in Things : cache[p][x] # Absent =>
      /\ cache[p][x].row.v >= shown[p][x]
      /\ cache[p][x].row.v >= before[AUTH_TTL + 1][x]

\* The quota is passed by the requests that were in flight together and by those
\* whose increment failed, by no others.
QuotaHolds ==
    \E top \in Limits : answers <= top + Cardinality(Requests) - 1 + lost
=============================================================================
