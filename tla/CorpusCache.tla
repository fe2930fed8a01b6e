---------------------------- MODULE CorpusCache ----------------------------
(***************************************************************************)
(* The cache of a server-side render (frontend/server/utils/               *)
(* ssrCorpusCache.ts, behind segmentCache and mediaCache): answers are     *)
(* kept for a while, callers that come while a call is out wait for it     *)
(* together, and a call that has been out too long is given up on without  *)
(* being stopped: it still ends, some day.                                 *)
(*                                                                         *)
(* A turn of the event loop is a step.  Time is counted in ticks, as what  *)
(* is left of an answer's time and how long a call has been out.           *)
(***************************************************************************)
EXTENDS Naturals, FiniteSets

CONSTANTS
    Ids,              \* public ids of segments or media
    ttlMs,
    inflightTimeoutMs,
    maxEntries,
    MaxFetches        \* bound: calls to the backend

ASSUME CorpusAssumption ==
    /\ IsFiniteSet(Ids) /\ ttlMs \in Nat \ {0} /\ inflightTimeoutMs \in Nat \ {0}
    /\ maxEntries \in Nat \ {0} /\ MaxFetches \in Nat

VARIABLES
    store,     \* the Map: its entries, whose keys were inserted in the order of their calls
    flight,    \* the calls that are out: what each asks for, and for how long
    fetched,   \* calls made so far; a call goes by its number
    crowded    \* history: calls whose entry went to make room for others

cvars == <<store, flight, fetched, crowded>>

\* An entry is of a call, and has time left once that has answered.
MapEntry == [id : Ids, kind : {"inflight", "value"}, call : 1 .. MaxFetches, left : 0 .. ttlMs]

CorpusTypeOK ==
    /\ store \subseteq MapEntry /\ \A d, e \in store : d.id = e.id => d = e
    /\ fetched \in 0 .. MaxFetches
    /\ DOMAIN flight \subseteq 1 .. fetched
    /\ \A n \in DOMAIN flight : flight[n] \in [id : Ids, age : 0 .. inflightTimeoutMs]
    /\ crowded \subseteq 1 .. fetched

CorpusInit == store = {} /\ flight = <<>> /\ fetched = 0 /\ crowded = {}

-----------------------------------------------------------------------------
Lives(e) ==
    IF e.kind = "value" THEN e.left > 0 ELSE flight[e.call].age < inflightTimeoutMs

Live == {e \in store : Lives(e)}

\* gc: what has expired or hangs goes, then the first inserted until the rest fits.
gc == {e \in Live : Cardinality({d \in Live : d.call > e.call}) < maxEntries}

\* fetch: an answer or a call that is in the Map serves, or a call goes out.
fetch(k) ==
    IF \E e \in gc : e.id = k
      THEN store' = gc /\ UNCHANGED <<flight, fetched>>
      ELSE /\ fetched < MaxFetches /\ fetched' = fetched + 1
           /\ store' = gc \cup {[id |-> k, kind |-> "inflight", call |-> fetched', left |-> 0]}
           /\ flight' = [n \in DOMAIN flight \cup {fetched'} |->
                            IF n = fetched' THEN [id |-> k, age |-> 0] ELSE flight[n]]

\* What gc puts out for room is a call nobody else can join any more.
Fetch(k) ==
    /\ fetch(k)
    /\ crowded' = crowded \cup {e.call : e \in Live \ gc}

Ends(n) == flight' = [m \in DOMAIN flight \ {n} |-> flight[m]]

\* The entry, if it is still this call's own, becomes its answer, in its place.
answered(n) ==
    {IF e.kind = "inflight" /\ e.call = n
       THEN [e EXCEPT !.kind = "value", !.left = ttlMs] ELSE e : e \in store}

\* Whatever entry there is for the key is taken for this call's (a mutant).
anyEntryCleared(n) == {e \in store : e.id # flight[n].id}

\* And goes when the call fails.
cleared(n) == {e \in store : ~(e.kind = "inflight" /\ e.call = n)}

CallEnds(n) ==
    /\ store' = answered(n) \/ store' = cleared(n)
    /\ Ends(n) /\ UNCHANGED <<fetched, crowded>>

CacheTick ==
    /\ store' = {[e EXCEPT !.left = IF @ > 0 THEN @ - 1 ELSE 0] : e \in store}
    /\ flight' = [n \in DOMAIN flight |->
                   [flight[n] EXCEPT !.age = IF @ < inflightTimeoutMs THEN @ + 1 ELSE @]]
    /\ UNCHANGED <<fetched, crowded>>

CorpusNext ==
    \/ \E k \in Ids : Fetch(k)
    \/ \E n \in DOMAIN flight : CallEnds(n)
    \/ CacheTick

CorpusSpec == CorpusInit /\ [][CorpusNext]_cvars

-----------------------------------------------------------------------------
\* Properties.

\* The calls that were made for k.
CallsFor(k) ==
    {n \in DOMAIN flight : flight[n].id = k} \cup {e.call : e \in {d \in store : d.id = k}}

\* The entry of a key is of the last call made for it: a call that was given up on
\* and comes back late neither puts its older answer over a later one nor clears the
\* entry of the call that took its place.
LastCallIsKept ==
    \A e \in store : \A n \in CallsFor(e.id) : n <= e.call

\* While a call is out and not overdue, nobody sends another for the same id, except
\* when its entry had to make room.
OneCallAtATime ==
    \A k \in Ids :
      LET timely == {n \in DOMAIN flight \ crowded :
                       flight[n].id = k /\ flight[n].age < inflightTimeoutMs}
      IN  Cardinality(timely) <= 1

\* Neither at once nor one after the other do the calls of a key get in each other's
\* way, when they fail as when they are answered late.
CallsKeepApart == LastCallIsKept /\ OneCallAtATime
=============================================================================
