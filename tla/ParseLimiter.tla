---------------------------- MODULE ParseLimiter ----------------------------
(***************************************************************************)
(* How many parses are sent to Shirabe at a time                           *)
(* (backend/app/services/shirabe/parseSegments.ts).  A call of             *)
(* parseSegments cuts its sentences into chunks and runs a few workers,    *)
(* here lanes, over them; all calls of the process share the slots and the *)
(* limit, which falls to one when Shirabe answers slowly and climbs back.  *)
(*                                                                         *)
(* JavaScript runs up to the next await without interruption, so a step    *)
(* here ends where a lane awaits a slot or an answer.                      *)
(***************************************************************************)
EXTENDS Naturals, FiniteSets, Sequences

CONSTANTS
    Calls,             \* calls of parseSegments
    Chunks,            \* how many chunks each has
    PARSE_CONCURRENCY,
    RETRY_ATTEMPTS,
    RecoverAfter,      \* RECOVER_AFTER_FAST_CHUNKS
    Times,             \* what a chunk may take, per text
    Infinity,          \* more than that
    MaxRefusals        \* bound: requests that fail

ASSUME LimiterAssumption ==
    /\ IsFiniteSet(Calls) /\ Chunks \in [Calls -> Nat \ {0}]
    /\ PARSE_CONCURRENCY \in Nat \ {0} /\ RETRY_ATTEMPTS \in Nat \ {0}
    /\ RecoverAfter \in Nat \ {0} /\ MaxRefusals \in Nat
    /\ Times \subseteq Nat /\ Infinity \in Nat /\ \A t \in Times : t < Infinity

Least(a, b) == IF a <= b THEN a ELSE b

\* The workers of each call, by the call and their number.
LanesOf(c) == 1 .. Least(PARSE_CONCURRENCY, Chunks[c])
Lanes == {l \in Calls \X (1 .. PARSE_CONCURRENCY) : l[2] \in LanesOf(l[1])}

VARIABLES
    calls,          \* what has become of each call
    next,           \* its next chunk
    index,          \* the chunk each lane has in hand
    stage,          \* what the lane is doing
    attempt,        \* how often it has sent the chunk
    results,        \* for each chunk of a call, the chunk whose tokens are there
    active,         \* slots in flight
    inFlightLimit,
    floorMsPerText,
    fastChunks,
    timings,        \* the timings fed back so far
    refusals

work == <<calls, next, index, stage, attempt, results>>
pace == <<inFlightLimit, floorMsPerText, fastChunks, timings>>
pvars == <<work, active, pace, refusals>>

LimiterTypeOK ==
    /\ calls \in [Calls -> {"none", "open", "resolved", "rejected"}]
    /\ next \in [Calls -> Nat \ {0}] /\ index \in [Lanes -> Nat]
    /\ stage \in [Lanes -> {"out", "waiting", "woken", "parsing"}]
    /\ attempt \in [Lanes -> 0 .. RETRY_ATTEMPTS]
    /\ \A c \in Calls : results[c] \in [1 .. Chunks[c] -> 0 .. Chunks[c]]
    /\ active \in Nat /\ inFlightLimit \in 1 .. PARSE_CONCURRENCY
    /\ floorMsPerText \in Times \cup {Infinity} /\ fastChunks \in Nat
    /\ timings \in Seq(Times) /\ refusals \in 0 .. MaxRefusals

LimiterInit ==
    /\ calls = [c \in Calls |-> "none"]
    /\ next = [c \in Calls |-> 1]
    /\ index = [l \in Lanes |-> 0]
    /\ stage = [l \in Lanes |-> "out"]
    /\ attempt = [l \in Lanes |-> 0]
    /\ results = [c \in Calls |-> [i \in 1 .. Chunks[c] |-> 0]]
    /\ active = 0
    /\ inFlightLimit = PARSE_CONCURRENCY
    /\ floorMsPerText = Infinity /\ fastChunks = 0 /\ timings = <<>>
    /\ refusals = 0

-----------------------------------------------------------------------------
\* Slots.

\* Only the first waiter is woken (a mutant).
wakeOne(st) ==
    LET asleep == {l \in Lanes : st[l] = "waiting"}
        first  == CHOOSE l \in asleep : TRUE
    IN  IF asleep = {} THEN st ELSE [st EXCEPT ![first] = "woken"]

\* releaseSlot wakes everyone, to look at the slots again in turn.
wake(st) == [l \in Lanes |-> IF st[l] = "waiting" THEN "woken" ELSE st[l]]

\* A waiter that was woken has its slot (a mutant).
trustTheWake(l) ==
    /\ stage[l] = "woken"
    /\ stage' = [stage EXCEPT ![l] = "parsing"]
    /\ active' = active + 1
    /\ UNCHANGED <<calls, next, index, attempt, results, pace, refusals>>

\* takeSlot, after a wake.
takeSlot(l) ==
    /\ stage[l] = "woken"
    /\ IF active >= inFlightLimit
         THEN stage' = [stage EXCEPT ![l] = "waiting"] /\ UNCHANGED active
         ELSE stage' = [stage EXCEPT ![l] = "parsing"] /\ active' = active + 1
    /\ UNCHANGED <<calls, next, index, attempt, results, pace, refusals>>

-----------------------------------------------------------------------------
\* recordChunkTiming.

\* The chunks that were fast before count towards the recovery (a mutant).
recordWithoutReset(perText) ==
    LET floor == Least(perText, floorMsPerText) IN
    /\ floorMsPerText' = floor
    /\ timings' = Append(timings, perText)
    /\ IF 2 * perText > 5 * floor
         THEN inFlightLimit' = 1 /\ UNCHANGED fastChunks
         ELSE IF fastChunks + 1 >= RecoverAfter /\ inFlightLimit < PARSE_CONCURRENCY
                THEN inFlightLimit' = inFlightLimit + 1 /\ fastChunks' = 0
                ELSE fastChunks' = fastChunks + 1 /\ UNCHANGED inFlightLimit

\* SLOWDOWN_FACTOR is five halves.
recordChunkTiming(perText) ==
    LET floor == Least(perText, floorMsPerText) IN
    /\ floorMsPerText' = floor
    /\ timings' = Append(timings, perText)
    /\ IF 2 * perText > 5 * floor
         THEN inFlightLimit' = 1 /\ fastChunks' = 0
         ELSE IF fastChunks + 1 >= RecoverAfter /\ inFlightLimit < PARSE_CONCURRENCY
                THEN inFlightLimit' = inFlightLimit + 1 /\ fastChunks' = 0
                ELSE fastChunks' = fastChunks + 1 /\ UNCHANGED inFlightLimit

-----------------------------------------------------------------------------
\* parseSegments and parseChunk.

\* The call starts its lanes: each pulls a chunk, and as many as there are slots
\* send it.
parseSegments(c) ==
    /\ calls[c] = "none"
    /\ calls' = [calls EXCEPT ![c] = "open"]
    /\ LET lanes == Cardinality(LanesOf(c))
           free  == IF active < inFlightLimit THEN inFlightLimit - active ELSE 0
       IN  /\ next' = [next EXCEPT ![c] = lanes + 1]
           /\ active' = active + Least(lanes, free)
           /\ stage' = [l \in Lanes |->
                          IF l[1] # c THEN stage[l]
                          ELSE IF l[2] <= free THEN "parsing" ELSE "waiting"]
    /\ index' = [l \in Lanes |-> IF l[1] = c THEN l[2] ELSE index[l]]
    /\ attempt' = [l \in Lanes |-> IF l[1] = c THEN 1 ELSE attempt[l]]
    /\ UNCHANGED <<results, pace, refusals>>

\* The tokens of a chunk go to its own place.
Place(c, i) == [results EXCEPT ![c][i] = i]

\* A call is over with its last lane, if none has failed.
Settle(c, st) ==
    calls' = [calls EXCEPT ![c] =
                IF @ = "open" /\ \A i \in LanesOf(c) : st[<<c, i>>] = "out"
                  THEN "resolved" ELSE @]

\* Shirabe answers: the slot is given back, the timing recorded, and the lane
\* pulls its next chunk and asks for a slot, before anybody who was woken does.
ChunkIsParsed(l) ==
    /\ stage[l] = "parsing"
    /\ \E perText \in Times : recordChunkTiming(perText)
    /\ results' = Place(l[1], index[l])
    /\ LET c     == l[1]
           more  == next[c] <= Chunks[c]
           takes == more /\ active - 1 < inFlightLimit'
       IN  /\ active' = IF takes THEN active ELSE active - 1
           /\ index' = [index EXCEPT ![l] = IF more THEN next[c] ELSE 0]
           /\ next' = [next EXCEPT ![c] = @ + 1]
           /\ stage' = [wake(stage) EXCEPT ![l] =
                          IF takes THEN "parsing" ELSE IF more THEN "waiting" ELSE "out"]
           /\ Settle(c, stage')
    /\ attempt' = [attempt EXCEPT ![l] = 1]
    /\ UNCHANGED refusals

\* A transient failure: the lane tries again, later and in the same slot.
ChunkIsRetried(l) ==
    /\ stage[l] = "parsing" /\ attempt[l] < RETRY_ATTEMPTS
    /\ refusals < MaxRefusals /\ refusals' = refusals + 1
    /\ attempt' = [attempt EXCEPT ![l] = @ + 1]
    /\ UNCHANGED <<calls, next, index, stage, results, active, pace>>

\* The slot is given back when the request was answered only (a mutant).
failWithTheSlot(l) ==
    /\ stage[l] = "parsing"
    /\ refusals < MaxRefusals /\ refusals' = refusals + 1
    /\ calls' = [calls EXCEPT ![l[1]] = IF @ = "open" THEN "rejected" ELSE @]
    /\ stage' = [stage EXCEPT ![l] = "out"]
    /\ UNCHANGED <<next, index, attempt, results, active, pace>>

\* A failure that stays, or one too many: the lane ends and its call is rejected,
\* while the call's other lanes go on.
ChunkFails(l) ==
    /\ stage[l] = "parsing"
    /\ refusals < MaxRefusals /\ refusals' = refusals + 1
    /\ calls' = [calls EXCEPT ![l[1]] = IF @ = "open" THEN "rejected" ELSE @]
    /\ active' = active - 1
    /\ stage' = [wake(stage) EXCEPT ![l] = "out"]
    /\ UNCHANGED <<next, index, attempt, results, pace>>

LimiterNext ==
    \/ \E c \in Calls : parseSegments(c)
    \/ \E l \in Lanes :
         takeSlot(l) \/ ChunkIsParsed(l) \/ ChunkIsRetried(l) \/ ChunkFails(l)

\* A lane that was woken runs, and a request is answered or times out.
LimiterFairness ==
    \A l \in Lanes : WF_pvars(takeSlot(l) \/ ChunkIsParsed(l))

LimiterSpec == LimiterInit /\ [][LimiterNext]_pvars
LimiterFairSpec == LimiterSpec /\ LimiterFairness

-----------------------------------------------------------------------------
\* Properties.

Parsing == {l \in Lanes : stage[l] = "parsing"}

\* The slots in flight are the requests in flight, those of calls that were
\* rejected long ago included, and never more than the ceiling: none leaks when a
\* request fails, and none is counted twice.
SlotsAreCounted == active = Cardinality(Parsing) /\ active <= PARSE_CONCURRENCY

\* The limit may fall below what is in flight; from then on no further chunk is
\* sent until enough have come back, whatever those that were woken believed.
LimitIsKept ==
    [][\A l \in Lanes :
         stage'[l] = "parsing" /\ (stage[l] # "parsing" \/ index'[l] # index[l])
         => Cardinality(Parsing') <= inFlightLimit']_pvars

\* Nobody sleeps while there is a slot to be had: neither a limit that climbs after
\* the slot was given back nor a lane that takes the slot back at once loses a wake.
NobodyIsStranded == (\E l \in Lanes : stage[l] = "waiting") => active >= inFlightLimit

\* No slot is lost, whoever fails while holding one, and none lies idle while a lane
\* sleeps for want of it.
SlotsAreKept == SlotsAreCounted /\ NobodyIsStranded

\* A chunk that took more than the factor times the fastest chunk until then.
SlowChunks ==
    {i \in 1 .. Len(timings) : \E j \in 1 .. i : 2 * timings[i] > 5 * timings[j]}

\* What the counters come to: one in flight from the last slow chunk on, and one
\* more for as many chunks since, up to the ceiling.
LimitFollowsTheTimings ==
    /\ SlowChunks = {} => inFlightLimit = PARSE_CONCURRENCY
    /\ \A last \in SlowChunks :
         (\A i \in SlowChunks : i <= last) =>
           inFlightLimit = Least(PARSE_CONCURRENCY,
                                 1 + (Len(timings) - last) \div RecoverAfter)

\* Every call is answered or rejected, though it has to share the slots.
EveryCallSettles == \A c \in Calls : calls[c] = "open" ~> calls[c] # "open"
=============================================================================
