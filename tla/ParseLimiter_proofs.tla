-------------------------- MODULE ParseLimiter_proofs --------------------------
(***************************************************************************)
(* That the slots of the parse limiter are counted, that no chunk is sent  *)
(* beyond the limit of the moment and that no lane sleeps beside a slot it *)
(* could have, for any number of calls, chunks, retries and timings.       *)
(*                                                                         *)
(* The counter is the number of lanes with a request out.  It moves by one *)
(* with a lane, except where a call starts: there all its lanes are out,   *)
(* and as many of them send as the counter is raised by.                   *)
(***************************************************************************)
EXTENDS ParseLimiter, FiniteSetTheorems, FunctionTheorems, TLAPS

Stages == {"out", "waiting", "woken", "parsing"}

LimiterInv ==
    /\ calls \in [Calls -> {"none", "open", "resolved", "rejected"}]
    /\ stage \in [Lanes -> Stages]
    /\ index \in [Lanes -> Nat] /\ next \in [Calls -> Nat]
    /\ active \in Nat /\ inFlightLimit \in 1 .. PARSE_CONCURRENCY
    /\ \A l \in Lanes : calls[l[1]] = "none" => stage[l] = "out"
    /\ SlotsAreKept

-----------------------------------------------------------------------------
\* Lanes.

LEMMA LanesAreFinite == IsFiniteSet(Lanes)
<1>1. IsFiniteSet(1 .. PARSE_CONCURRENCY)
  BY LimiterAssumption, FS_Interval
<1>2. IsFiniteSet(Calls \X (1 .. PARSE_CONCURRENCY))
  BY <1>1, LimiterAssumption, FS_Product
<1>3. Lanes \in SUBSET (Calls \X (1 .. PARSE_CONCURRENCY))
  BY DEF Lanes
<1>4. QED
  BY <1>2, <1>3, FS_Subset

LEMMA LaneOfACall ==
    ASSUME NEW l \in Lanes
    PROVE  l[1] \in Calls /\ l[2] \in LanesOf(l[1]) /\ l = <<l[1], l[2]>> /\ l[2] \in Nat
BY LimiterAssumption DEF Lanes

\* How many lanes a call has, and how many of them have a slot when there are some.
LEMMA LanesCounted ==
    ASSUME NEW c \in Calls, NEW free \in Nat
    PROVE  /\ Cardinality(LanesOf(c)) \in 1 .. PARSE_CONCURRENCY
           /\ LanesOf(c) = 1 .. Cardinality(LanesOf(c))
           /\ \A i \in LanesOf(c) : <<c, i>> \in Lanes
           /\ LET some == {l \in Lanes : l[1] = c /\ l[2] <= free}
              IN  Cardinality(some) = Least(Cardinality(LanesOf(c)), free)
<1> DEFINE n    == Least(PARSE_CONCURRENCY, Chunks[c])
           m    == Least(n, free)
           some == {l \in Lanes : l[1] = c /\ l[2] <= free}
           f    == [i \in 1 .. m |-> <<c, i>>]
<1>1. n \in 1 .. PARSE_CONCURRENCY /\ LanesOf(c) = 1 .. n
  BY LimiterAssumption DEF LanesOf, Least
<1>2. Cardinality(LanesOf(c)) = n
  BY <1>1, LimiterAssumption, FS_Interval
<1>3. m \in Nat /\ \A i \in Nat : i <= m <=> i <= n /\ i <= free
  BY <1>1, LimiterAssumption DEF Least
<1> HIDE DEF n, m
<1>4. \A i \in LanesOf(c) : <<c, i>> \in Lanes
  BY <1>1, LimiterAssumption DEF Lanes
<1>5. some = {<<c, i>> : i \in 1 .. m}
  <2>1. ASSUME NEW l \in some
        PROVE  l \in {<<c, i>> : i \in 1 .. m}
    <3>1. l = <<c, l[2]>> /\ l[2] \in 1 .. n /\ l[2] <= free
      BY <1>1, <2>1, LaneOfACall
    <3>2. l[2] \in 1 .. m
      BY <1>1, <1>3, <3>1, LimiterAssumption
    <3>3. QED
      BY <3>1, <3>2
  <2>2. ASSUME NEW i \in 1 .. m
        PROVE  <<c, i>> \in some
    <3>1. i \in 1 .. n /\ i <= free
      BY <1>1, <1>3, LimiterAssumption
    <3>2. <<c, i>> \in Lanes
      BY <1>1, <1>4, <3>1
    <3>3. QED
      BY <3>1, <3>2
  <2>3. QED
    BY <2>1, <2>2
<1>6. f \in Bijection(1 .. m, some)
  <2>1. f \in [1 .. m -> some]
    BY <1>5
  <2>2. \A i, j \in 1 .. m : f[i] = f[j] => i = j
    OBVIOUS
  <2>3. \A l \in some : \E i \in 1 .. m : f[i] = l
    BY <1>5
  <2>4. QED
    BY <2>1, <2>2, <2>3, Fun_IsBij
<1>7. ExistsBijection(1 .. m, some)
  BY <1>6 DEF ExistsBijection
<1>8. Cardinality(some) = m
  BY <1>3, <1>7, FS_Interval, FS_Bijection
<1>9. QED
  BY <1>1, <1>2, <1>4, <1>8 DEF m, n

-----------------------------------------------------------------------------
\* What one lane does to the count.

LEMMA ParsingIsFinite == IsFiniteSet(Parsing) /\ IsFiniteSet(Parsing')
<1>1. Parsing \in SUBSET Lanes /\ Parsing' \in SUBSET Lanes
  BY DEF Parsing
<1>2. QED
  BY <1>1, LanesAreFinite, FS_Subset

LEMMA OneMore ==
    ASSUME NEW l \in Lanes, stage[l] # "parsing", stage'[l] = "parsing",
           \A k \in Lanes \ {l} : stage'[k] = "parsing" <=> stage[k] = "parsing"
    PROVE  Cardinality(Parsing') = Cardinality(Parsing) + 1
<1>1. Parsing' = Parsing \cup {l} /\ l \notin Parsing
  BY DEF Parsing
<1>2. QED
  BY <1>1, ParsingIsFinite, FS_AddElement

LEMMA OneLess ==
    ASSUME NEW l \in Lanes, stage[l] = "parsing", stage'[l] # "parsing",
           \A k \in Lanes \ {l} : stage'[k] = "parsing" <=> stage[k] = "parsing"
    PROVE  Cardinality(Parsing') = Cardinality(Parsing) - 1
<1>1. Parsing' = Parsing \ {l} /\ l \in Parsing
  BY DEF Parsing
<1>2. QED
  BY <1>1, ParsingIsFinite, FS_RemoveElement

LEMMA AsMany ==
    ASSUME \A k \in Lanes : stage'[k] = "parsing" <=> stage[k] = "parsing"
    PROVE  Cardinality(Parsing') = Cardinality(Parsing)
<1>1. Parsing' = Parsing
  BY DEF Parsing
<1>2. QED
  BY <1>1

\* Whatever a chunk took, the limit stays within its bounds.
LEMMA LimitIsBounded ==
    ASSUME NEW perText, recordChunkTiming(perText), LimiterInv
    PROVE  inFlightLimit' \in 1 .. PARSE_CONCURRENCY
BY LimiterAssumption DEF recordChunkTiming, LimiterInv

\* What follows of the invariant for the whole system.
LEMMA InvariantFacts ==
    ASSUME LimiterInv
    PROVE  /\ stage \in [Lanes -> Stages] /\ active \in Nat
           /\ inFlightLimit \in 1 .. PARSE_CONCURRENCY
           /\ inFlightLimit \in Nat /\ inFlightLimit <= PARSE_CONCURRENCY
           /\ PARSE_CONCURRENCY \in Nat
           /\ active = Cardinality(Parsing) /\ active <= PARSE_CONCURRENCY
           /\ \A l \in Lanes : stage[l] = "waiting" => active >= inFlightLimit
BY LimiterAssumption
   DEF LimiterInv, SlotsAreKept, SlotsAreCounted, NobodyIsStranded

-----------------------------------------------------------------------------
\* The steps.

\* A lane that is sent a chunk by this step is sent it within the limit.
SentWithinTheLimit ==
    \A l \in Lanes :
      stage'[l] = "parsing" /\ (stage[l] # "parsing" \/ index'[l] # index[l])
      => Cardinality(Parsing') <= inFlightLimit'

LEMMA StartIsOK ==
    ASSUME LimiterInv, NEW c \in Calls, parseSegments(c)
    PROVE  LimiterInv' /\ SentWithinTheLimit
<1> DEFINE lanes == Cardinality(LanesOf(c))
           free  == IF active < inFlightLimit THEN inFlightLimit - active ELSE 0
           some  == {l \in Lanes : l[1] = c /\ l[2] <= free}
<1>1. free \in Nat /\ (free = 0 \/ active + free = inFlightLimit)
      /\ (active < inFlightLimit => free > 0)
  BY InvariantFacts
<1>2. /\ calls[c] = "none" /\ calls' = [calls EXCEPT ![c] = "open"]
      /\ next' = [next EXCEPT ![c] = lanes + 1]
      /\ active' = active + Least(lanes, free)
      /\ stage' = [l \in Lanes |-> IF l[1] # c THEN stage[l]
                                   ELSE IF l[2] <= free THEN "parsing" ELSE "waiting"]
      /\ index' = [l \in Lanes |-> IF l[1] = c THEN l[2] ELSE index[l]]
      /\ UNCHANGED inFlightLimit
  BY DEF parseSegments, pace
<1>3. /\ lanes \in 1 .. PARSE_CONCURRENCY /\ LanesOf(c) = 1 .. lanes
      /\ Cardinality(some) = Least(lanes, free)
  BY <1>1, LanesCounted
<1> HIDE DEF free
<1>4. \A l \in Lanes : l[1] = c => stage[l] = "out"
  BY <1>2 DEF LimiterInv
<1>5. Parsing' = Parsing \cup some /\ Parsing \cap some = {}
  BY <1>2, <1>4 DEF Parsing
<1>6. IsFiniteSet(some)
  <2>1. some \in SUBSET Lanes
    OBVIOUS
  <2>2. QED
    BY <2>1, LanesAreFinite, FS_Subset
<1>7. Cardinality(Parsing') = active'
  <2>1. Cardinality(Parsing') = Cardinality(Parsing) + Cardinality(some) - Cardinality({})
    BY <1>5, <1>6, ParsingIsFinite, FS_Union
  <2>2. QED
    BY <1>1, <1>2, <1>3, <2>1, FS_EmptySet, InvariantFacts DEF Least
<1>8. active' \in Nat /\ active' >= active
      /\ (free = 0 => active' = active) /\ (free # 0 => active' <= inFlightLimit)
      /\ (lanes > free => active' = active + free)
  BY <1>1, <1>2, <1>3, InvariantFacts DEF Least
<1>9. active' <= PARSE_CONCURRENCY
  BY <1>8, InvariantFacts
<1>10. \A l \in Lanes : stage'[l] = "waiting" => active' >= inFlightLimit'
  <2> SUFFICES ASSUME NEW l \in Lanes, stage'[l] = "waiting"
               PROVE  active' >= inFlightLimit
    BY <1>2
  <2>1. CASE l[1] # c
    <3>1. stage[l] = "waiting"
      BY <1>2, <2>1
    <3>2. QED
      BY <1>8, <3>1, InvariantFacts
  <2>2. CASE l[1] = c
    <3>1. l[2] \in 1 .. lanes /\ ~(l[2] <= free)
      BY <1>2, <1>3, <2>2, LaneOfACall
    <3>2. lanes > free
      BY <1>1, <1>3, <3>1, InvariantFacts
    <3>3. active' = active + free
      BY <1>8, <3>2
    <3>4. QED
      BY <1>1, <3>3, InvariantFacts
  <2>3. QED
    BY <2>1, <2>2
<1>11. LimiterInv'
  <2>1. /\ calls' \in [Calls -> {"none", "open", "resolved", "rejected"}]
        /\ stage' \in [Lanes -> Stages]
    BY <1>2 DEF LimiterInv, Stages
  <2>2. index' \in [Lanes -> Nat] /\ next' \in [Calls -> Nat]
    <3>1. \A l \in Lanes : l[2] \in Nat
      BY LaneOfACall
    <3>2. lanes + 1 \in Nat
      BY <1>3, InvariantFacts
    <3>3. QED
      BY <1>2, <3>1, <3>2 DEF LimiterInv
  <2>3. \A l \in Lanes : calls'[l[1]] = "none" => stage'[l] = "out"
    BY <1>2, LaneOfACall DEF LimiterInv
  <2>4. SlotsAreKept'
    BY <1>7, <1>9, <1>10 DEF SlotsAreKept, SlotsAreCounted, NobodyIsStranded
  <2>5. QED
    BY <1>2, <1>8, <2>1, <2>2, <2>3, <2>4, InvariantFacts DEF LimiterInv
<1>12. SentWithinTheLimit
  <2> SUFFICES ASSUME NEW l \in Lanes, stage'[l] = "parsing",
                      stage[l] # "parsing" \/ index'[l] # index[l]
               PROVE  active' <= inFlightLimit
    BY <1>2, <1>7 DEF SentWithinTheLimit
  <2>1. l[1] = c /\ l[2] <= free
    BY <1>2
  <2>2. free # 0
    BY <1>1, <1>3, <2>1, LaneOfACall
  <2>3. QED
    BY <1>8, <2>2
<1>13. QED
  BY <1>11, <1>12

LEMMA TakeIsOK ==
    ASSUME LimiterInv, NEW l \in Lanes, takeSlot(l)
    PROVE  LimiterInv' /\ SentWithinTheLimit
<1>1. stage[l] = "woken" /\ UNCHANGED <<calls, next, index, inFlightLimit>>
  BY DEF takeSlot, pace
<1>2. CASE active >= inFlightLimit
  <2>1. stage' = [stage EXCEPT ![l] = "waiting"] /\ active' = active
    BY <1>2 DEF takeSlot
  <2>2. \A k \in Lanes : stage'[k] = "parsing" <=> stage[k] = "parsing"
    BY <1>1, <2>1 DEF LimiterInv
  <2>3. Cardinality(Parsing') = Cardinality(Parsing)
    BY <2>2, AsMany
  <2>4. SlotsAreKept'
    BY <1>1, <1>2, <2>1, <2>3, InvariantFacts
       DEF SlotsAreKept, SlotsAreCounted, NobodyIsStranded
  <2>5. LimiterInv'
    <3>1. stage' \in [Lanes -> Stages]
      BY <2>1 DEF LimiterInv, Stages
    <3>2. \A k \in Lanes : calls'[k[1]] = "none" => stage'[k] = "out"
      BY <1>1, <2>1 DEF LimiterInv
    <3>3. QED
      BY <1>1, <2>1, <2>4, <3>1, <3>2 DEF LimiterInv
  <2>6. SentWithinTheLimit
    BY <1>1, <2>2 DEF SentWithinTheLimit
  <2>7. QED
    BY <2>5, <2>6
<1>3. CASE ~(active >= inFlightLimit)
  <2>1. stage' = [stage EXCEPT ![l] = "parsing"] /\ active' = active + 1
    BY <1>3 DEF takeSlot
  <2>2. stage'[l] = "parsing" /\ \A k \in Lanes \ {l} : stage'[k] = stage[k]
    BY <2>1 DEF LimiterInv
  <2>3. Cardinality(Parsing') = active' /\ active' <= inFlightLimit
    BY <1>1, <1>3, <2>1, <2>2, OneMore, InvariantFacts
  <2>4. \A k \in Lanes : stage'[k] # "waiting"
    <3>1. \A k \in Lanes : stage[k] # "waiting"
      BY <1>3, InvariantFacts
    <3>2. QED
      BY <2>2, <3>1
  <2>5. active' <= PARSE_CONCURRENCY
    BY <2>1, <2>3, InvariantFacts
  <2>6. SlotsAreKept'
    BY <2>3, <2>4, <2>5 DEF SlotsAreKept, SlotsAreCounted, NobodyIsStranded
  <2>7. LimiterInv'
    <3>1. stage' \in [Lanes -> Stages] /\ active' \in Nat
      BY <2>1 DEF LimiterInv, Stages
    <3>2. \A k \in Lanes : calls'[k[1]] = "none" => stage'[k] = "out"
      BY <1>1, <2>2 DEF LimiterInv
    <3>3. QED
      BY <1>1, <2>6, <3>1, <3>2 DEF LimiterInv
  <2>8. SentWithinTheLimit
    BY <1>1, <2>3 DEF SentWithinTheLimit
  <2>9. QED
    BY <2>7, <2>8
<1>4. QED
  BY <1>2, <1>3

\* A request is over: everyone who waited is woken, so that nobody is left waiting but
\* a lane that asks again and is refused.
LEMMA ParsedIsOK ==
    ASSUME LimiterInv, NEW l \in Lanes, ChunkIsParsed(l)
    PROVE  LimiterInv' /\ SentWithinTheLimit
<1> DEFINE c     == l[1]
           more  == next[c] <= Chunks[c]
           takes == more /\ active - 1 < inFlightLimit'
<1>1. /\ stage[l] = "parsing" /\ c \in Calls
      /\ inFlightLimit' \in 1 .. PARSE_CONCURRENCY /\ inFlightLimit' \in Nat
      /\ inFlightLimit' <= PARSE_CONCURRENCY
  <2>1. PICK perText \in Times : recordChunkTiming(perText)
    BY DEF ChunkIsParsed
  <2>2. inFlightLimit' \in 1 .. PARSE_CONCURRENCY
    BY <2>1, LimitIsBounded
  <2>3. QED
    BY <2>2, LaneOfACall, LimiterAssumption DEF ChunkIsParsed
<1>2. /\ active' = IF takes THEN active ELSE active - 1
      /\ index' = [index EXCEPT ![l] = IF more THEN next[c] ELSE 0]
      /\ next' = [next EXCEPT ![c] = @ + 1]
      /\ stage' = [wake(stage) EXCEPT ![l] =
                     IF takes THEN "parsing" ELSE IF more THEN "waiting" ELSE "out"]
      /\ Settle(c, stage')
  BY DEF ChunkIsParsed
<1>3. calls' = [calls EXCEPT ![c] = calls'[c]]
      /\ calls'[c] \in {"none", "open", "resolved", "rejected"}
      /\ (calls'[c] = "none" => calls[c] = "none")
  BY <1>1, <1>2 DEF Settle, LimiterInv
<1> HIDE DEF takes, more
<1>4. /\ stage'[l] = IF takes THEN "parsing" ELSE IF more THEN "waiting" ELSE "out"
      /\ \A k \in Lanes \ {l} :
           stage'[k] = IF stage[k] = "waiting" THEN "woken" ELSE stage[k]
      /\ stage' \in [Lanes -> Stages]
  BY <1>2 DEF wake, LimiterInv, Stages
<1>5. active > 0
  <2>1. l \in Parsing
    BY <1>1 DEF Parsing
  <2>2. Cardinality(Parsing) # 0
    BY <2>1, ParsingIsFinite, FS_EmptySet
  <2>3. QED
    BY <2>2, InvariantFacts
<1>6. Cardinality(Parsing') = active'
  <2>1. CASE takes
    <3>1. \A k \in Lanes : stage'[k] = "parsing" <=> stage[k] = "parsing"
      BY <1>1, <1>4, <2>1
    <3>2. QED
      BY <1>2, <2>1, <3>1, AsMany, InvariantFacts
  <2>2. CASE ~takes
    <3>1. /\ stage'[l] # "parsing"
          /\ \A k \in Lanes \ {l} : stage'[k] = "parsing" <=> stage[k] = "parsing"
      BY <1>4, <2>2
    <3>2. Cardinality(Parsing') = Cardinality(Parsing) - 1
      BY <1>1, <3>1, OneLess
    <3>3. QED
      BY <1>2, <2>2, <3>2, InvariantFacts
  <2>3. QED
    BY <2>1, <2>2
<1>7. active' \in Nat /\ active' <= PARSE_CONCURRENCY
      /\ (takes => active' <= inFlightLimit')
      /\ (more /\ ~takes => active' >= inFlightLimit')
  BY <1>1, <1>2, <1>5, InvariantFacts DEF takes
<1>8. \A k \in Lanes : stage'[k] = "waiting" => k = l /\ more /\ ~takes
  BY <1>4
<1>9. SlotsAreKept'
  BY <1>6, <1>7, <1>8 DEF SlotsAreKept, SlotsAreCounted, NobodyIsStranded
<1>10. LimiterInv'
  <2>1. calls' \in [Calls -> {"none", "open", "resolved", "rejected"}]
    BY <1>1, <1>3 DEF LimiterInv
  <2>2. next' \in [Calls -> Nat] /\ index' \in [Lanes -> Nat]
    <3>1. next[c] \in Nat
      BY <1>1 DEF LimiterInv
    <3>2. QED
      BY <1>1, <1>2, <3>1 DEF LimiterInv
  <2>3. ASSUME NEW k \in Lanes, calls'[k[1]] = "none"
        PROVE  stage'[k] = "out"
    <3>1. calls[k[1]] = "none" /\ k[1] \in Calls
      BY <1>1, <1>3, <2>3, LaneOfACall DEF LimiterInv
    <3>2. stage[k] = "out"
      BY <3>1 DEF LimiterInv
    <3>3. QED
      BY <1>1, <1>4, <3>2
  <2>4. QED
    BY <1>1, <1>4, <1>7, <1>9, <2>1, <2>2, <2>3 DEF LimiterInv
<1>11. SentWithinTheLimit
  <2> SUFFICES ASSUME NEW k \in Lanes, stage'[k] = "parsing",
                      stage[k] # "parsing" \/ index'[k] # index[k]
               PROVE  active' <= inFlightLimit'
    BY <1>6 DEF SentWithinTheLimit
  <2>1. k = l
    BY <1>2, <1>4 DEF LimiterInv
  <2>2. takes
    BY <1>4, <2>1
  <2>3. QED
    BY <1>7, <2>2
<1>12. QED
  BY <1>10, <1>11

LEMMA FailureIsOK ==
    ASSUME LimiterInv, NEW l \in Lanes, ChunkFails(l)
    PROVE  LimiterInv' /\ SentWithinTheLimit
<1>1. /\ stage[l] = "parsing" /\ active' = active - 1
      /\ calls' = [calls EXCEPT ![l[1]] = IF @ = "open" THEN "rejected" ELSE @]
      /\ stage' = [wake(stage) EXCEPT ![l] = "out"]
      /\ UNCHANGED <<next, index, inFlightLimit>> /\ l[1] \in Calls
  BY LaneOfACall DEF ChunkFails, pace
<1>2. /\ stage'[l] = "out" /\ stage' \in [Lanes -> Stages]
      /\ \A k \in Lanes \ {l} :
           stage'[k] = IF stage[k] = "waiting" THEN "woken" ELSE stage[k]
  BY <1>1 DEF wake, LimiterInv, Stages
<1>3. Cardinality(Parsing') = Cardinality(Parsing) - 1
  BY <1>1, <1>2, OneLess
<1>4. IsFiniteSet(Parsing') /\ Cardinality(Parsing') \in Nat
  BY ParsingIsFinite, FS_CardinalityType
<1>5. active' = Cardinality(Parsing') /\ active' \in Nat /\ active' <= PARSE_CONCURRENCY
  BY <1>1, <1>3, <1>4, InvariantFacts
<1>6. SlotsAreKept'
  BY <1>2, <1>5 DEF SlotsAreKept, SlotsAreCounted, NobodyIsStranded
<1>7. LimiterInv'
  <2>1. calls' \in [Calls -> {"none", "open", "resolved", "rejected"}]
        /\ \A d \in Calls : calls'[d] = "none" => calls[d] = "none"
    BY <1>1 DEF LimiterInv
  <2>2. \A k \in Lanes : calls'[k[1]] = "none" => stage'[k] = "out"
    BY <1>2, <2>1, LaneOfACall DEF LimiterInv
  <2>3. QED
    BY <1>1, <1>2, <1>5, <1>6, <2>1, <2>2 DEF LimiterInv
<1>8. SentWithinTheLimit
  BY <1>1, <1>2 DEF SentWithinTheLimit
<1>9. QED
  BY <1>7, <1>8

\* What leaves the lanes, the calls and the slots alone.
LEMMA StandingIsOK ==
    ASSUME LimiterInv, UNCHANGED <<calls, stage, index, next, active, inFlightLimit>>
    PROVE  LimiterInv' /\ SentWithinTheLimit
<1>1. Parsing' = Parsing
  BY DEF Parsing
<1>2. SlotsAreKept'
  BY <1>1 DEF LimiterInv, SlotsAreKept, SlotsAreCounted, NobodyIsStranded
<1>3. QED
  BY <1>2 DEF LimiterInv, SentWithinTheLimit

LEMMA StepIsOK == LimiterInv /\ [LimiterNext]_pvars => LimiterInv' /\ SentWithinTheLimit
<1> SUFFICES ASSUME LimiterInv, [LimiterNext]_pvars
             PROVE  LimiterInv' /\ SentWithinTheLimit
  OBVIOUS
<1>1. ASSUME NEW c \in Calls, parseSegments(c)
      PROVE  LimiterInv' /\ SentWithinTheLimit
  BY <1>1, StartIsOK
<1>2. ASSUME NEW l \in Lanes, takeSlot(l)
      PROVE  LimiterInv' /\ SentWithinTheLimit
  BY <1>2, TakeIsOK
<1>3. ASSUME NEW l \in Lanes, ChunkIsParsed(l)
      PROVE  LimiterInv' /\ SentWithinTheLimit
  BY <1>3, ParsedIsOK
<1>4. ASSUME NEW l \in Lanes, ChunkIsRetried(l)
      PROVE  LimiterInv' /\ SentWithinTheLimit
  BY <1>4, StandingIsOK DEF ChunkIsRetried, pace
<1>5. ASSUME NEW l \in Lanes, ChunkFails(l)
      PROVE  LimiterInv' /\ SentWithinTheLimit
  BY <1>5, FailureIsOK
<1>6. CASE UNCHANGED pvars
  BY <1>6, StandingIsOK DEF pvars, work, pace
<1>7. QED
  BY <1>1, <1>2, <1>3, <1>4, <1>5, <1>6 DEF LimiterNext

LEMMA InitIsOK == LimiterInit => LimiterInv
<1> SUFFICES ASSUME LimiterInit
             PROVE  LimiterInv
  OBVIOUS
<1>1. Parsing = {} /\ active = 0 /\ \A l \in Lanes : stage[l] = "out"
  BY DEF LimiterInit, Parsing
<1>2. SlotsAreKept
  BY <1>1, FS_EmptySet, LimiterAssumption
     DEF SlotsAreKept, SlotsAreCounted, NobodyIsStranded
<1>3. QED
  BY <1>1, <1>2, LimiterAssumption DEF LimiterInit, LimiterInv, Stages

-----------------------------------------------------------------------------
\* No slot is lost, whoever fails while holding one, and no lane sleeps while there is a
\* slot to be had, for any number of calls that share them.
THEOREM NoSlotIsLost == LimiterSpec => []SlotsAreKept
<1>1. LimiterInv => SlotsAreKept
  BY DEF LimiterInv
<1>2. QED
  BY <1>1, InitIsOK, StepIsOK, PTL DEF LimiterSpec

\* No chunk is sent beyond the limit as it is when the chunk is sent, however the limit
\* falls and climbs.
THEOREM LimitIsNeverPassed == LimiterSpec => LimitIsKept
<1>1. SentWithinTheLimit =>
        [\A l \in Lanes :
           stage'[l] = "parsing" /\ (stage[l] # "parsing" \/ index'[l] # index[l])
           => Cardinality(Parsing') <= inFlightLimit']_pvars
  BY DEF SentWithinTheLimit
<1>2. QED
  BY <1>1, InitIsOK, StepIsOK, PTL DEF LimiterSpec, LimitIsKept

-----------------------------------------------------------------------------
(***************************************************************************)
(* The limit and the timings.  The floor is the fastest chunk so far, so a *)
(* chunk is slow by it exactly if it is by one of those before.  Since the *)
(* last slow chunk the limit has climbed by one for every RecoverAfter     *)
(* chunks; once it is at the ceiling, the chunks are counted on in vain.   *)
(***************************************************************************)

FloorIsFastest ==
    /\ \A i \in 1 .. Len(timings) : floorMsPerText <= timings[i]
    /\ \/ timings = <<>> /\ floorMsPerText = Infinity
       \/ \E i \in 1 .. Len(timings) : timings[i] = floorMsPerText

ClimbedSince(last) ==
    \/ /\ inFlightLimit < PARSE_CONCURRENCY /\ fastChunks < RecoverAfter
       /\ Len(timings) - last = RecoverAfter * (inFlightLimit - 1) + fastChunks
    \/ /\ inFlightLimit = PARSE_CONCURRENCY
       /\ Len(timings) - last >= RecoverAfter * (PARSE_CONCURRENCY - 1)

PaceInv ==
    /\ timings \in Seq(Times) /\ floorMsPerText \in Times \cup {Infinity}
    /\ inFlightLimit \in 1 .. PARSE_CONCURRENCY /\ fastChunks \in Nat
    /\ FloorIsFastest
    /\ SlowChunks = {} => inFlightLimit = PARSE_CONCURRENCY
    /\ \A last \in SlowChunks : (\A i \in SlowChunks : i <= last) => ClimbedSince(last)

LEMMA Divided ==
    ASSUME NEW r \in Nat \ {0}, NEW k \in Nat, NEW f \in 0 .. r - 1
    PROVE  (r * k + f) \div r = k
OBVIOUS

LEMMA DividedAtLeast ==
    ASSUME NEW r \in Nat \ {0}, NEW k \in Nat, NEW d \in Nat, d >= r * k
    PROVE  d \div r \in Nat /\ d \div r >= k
OBVIOUS

\* One more chunk: slow if one until then took less than two fifths of it.
LEMMA SlowOrNot ==
    ASSUME PaceInv, NEW t \in Times, recordChunkTiming(t)
    PROVE  /\ timings' \in Seq(Times) /\ Len(timings') = Len(timings) + 1
           /\ floorMsPerText' \in Times /\ floorMsPerText' = Least(t, floorMsPerText)
           /\ FloorIsFastest'
           /\ SlowChunks' = IF 2 * t > 5 * floorMsPerText'
                              THEN SlowChunks \cup {Len(timings) + 1} ELSE SlowChunks
           /\ SlowChunks \subseteq 1 .. Len(timings)
<1> DEFINE n == Len(timings)
<1>1. timings' = Append(timings, t) /\ floorMsPerText' = Least(t, floorMsPerText)
  BY DEF recordChunkTiming
<1>2. n \in Nat /\ \A i \in 1 .. n : timings[i] \in Times /\ timings[i] \in Nat
  <2>1. timings \in Seq(Times) /\ Times \subseteq Nat
    BY LimiterAssumption DEF PaceInv
  <2>2. n \in Nat /\ \A i \in 1 .. n : timings[i] \in Times
    BY <2>1
  <2> QED  BY <2>1, <2>2
<1>3. timings' \in Seq(Times) /\ Len(timings') = n + 1 /\ timings'[n + 1] = t
      /\ \A i \in 1 .. n : timings'[i] = timings[i]
  BY <1>1 DEF PaceInv
<1>4. t \in Nat /\ floorMsPerText \in Nat /\ Times \subseteq Nat /\ t < Infinity
  BY LimiterAssumption DEF PaceInv
<1>5. /\ floorMsPerText' \in Nat /\ floorMsPerText' <= t /\ floorMsPerText' <= floorMsPerText
      /\ floorMsPerText' = t \/ floorMsPerText' = floorMsPerText
  BY <1>1, <1>4 DEF Least
<1>6. \A i \in 1 .. n + 1 : floorMsPerText' <= timings'[i]
  <2>1. \A i \in 1 .. n : floorMsPerText <= timings[i]
    BY DEF PaceInv, FloorIsFastest
  <2>2. \A i \in 1 .. n : floorMsPerText' <= timings'[i]
    BY <1>2, <1>3, <1>4, <1>5, <2>1
  <2>3. \A i \in 1 .. n + 1 : i \in 1 .. n \/ i = n + 1
    BY <1>2
  <2> QED  BY <1>3, <1>5, <2>2, <2>3
<1>7. \E i \in 1 .. n + 1 : timings'[i] = floorMsPerText'
  <2>0. \A i \in 1 .. n : i \in 1 .. n + 1
    BY <1>2
  <2>1. CASE floorMsPerText' = t
    BY <1>2, <1>3, <2>1
  <2>2. ASSUME floorMsPerText' # t PROVE \E i \in 1 .. n : timings[i] = floorMsPerText'
    <3>1. floorMsPerText' = floorMsPerText /\ floorMsPerText < t
      BY <1>4, <1>5, <2>2
    <3>2. floorMsPerText # Infinity
      BY <1>4, <3>1, LimiterAssumption
    <3> QED  BY <3>1, <3>2 DEF PaceInv, FloorIsFastest
  <2> QED  BY <1>3, <2>0, <2>1, <2>2
<1>8. FloorIsFastest'
  BY <1>3, <1>6, <1>7 DEF FloorIsFastest
<1>9. floorMsPerText' \in Times
  BY <1>2, <1>3, <1>7
<1>10. \A i \in 1 .. n : i \in SlowChunks' <=> i \in SlowChunks
  <2>1. ASSUME NEW i \in 1 .. n
        PROVE  (\E j \in 1 .. i : 2 * timings'[i] > 5 * timings'[j])
                 <=> (\E j \in 1 .. i : 2 * timings[i] > 5 * timings[j])
    <3>1. timings'[i] = timings[i] /\ \A j \in 1 .. i : timings'[j] = timings[j]
      BY <1>2, <1>3
    <3> QED  BY <3>1
  <2>2. \A i \in 1 .. n : i \in 1 .. n + 1
    BY <1>2
  <2> QED  BY <1>3, <2>1, <2>2 DEF SlowChunks
<1>11. n + 1 \in SlowChunks' <=> 2 * t > 5 * floorMsPerText'
  <2>1. n + 1 \in SlowChunks' <=> \E j \in 1 .. n + 1 : 2 * t > 5 * timings'[j]
    BY <1>2, <1>3 DEF SlowChunks
  <2>2. \A j \in 1 .. n + 1 : timings'[j] \in Nat
    BY <1>2, <1>3, <1>4
  <2>3. ASSUME 2 * t > 5 * floorMsPerText' PROVE \E j \in 1 .. n + 1 : 2 * t > 5 * timings'[j]
    BY <1>7, <2>3
  <2>4. ASSUME NEW j \in 1 .. n + 1, 2 * t > 5 * timings'[j] PROVE 2 * t > 5 * floorMsPerText'
    <3> DEFINE x == timings'[j]
               y == floorMsPerText'
    <3>1. x \in Nat /\ y \in Nat /\ y <= x /\ 2 * t > 5 * x
      BY <1>5, <1>6, <2>2, <2>4
    <3> HIDE DEF x, y
    <3>2. 2 * t > 5 * y
      BY <1>4, <3>1
    <3> QED  BY <3>2 DEF y
  <2> QED  BY <2>1, <2>3, <2>4
<1>12. SlowChunks \subseteq 1 .. n /\ SlowChunks' \subseteq 1 .. n + 1
  BY <1>3 DEF SlowChunks
<1>13. SlowChunks' = IF 2 * t > 5 * floorMsPerText' THEN SlowChunks \cup {n + 1} ELSE SlowChunks
  <2>1. \A i \in 1 .. n + 1 : i \in 1 .. n \/ i = n + 1
    BY <1>2
  <2>2. n + 1 \notin SlowChunks
    BY <1>2, <1>12
  <2> DEFINE slow == 2 * t > 5 * floorMsPerText'
             old  == SlowChunks
             new  == SlowChunks'
  <2>3. /\ old \subseteq 1 .. n /\ new \subseteq 1 .. n + 1 /\ n + 1 \notin old
        /\ \A i \in 1 .. n : i \in new <=> i \in old
        /\ n + 1 \in new <=> slow
    BY <1>10, <1>11, <1>12, <2>2
  <2> HIDE DEF slow, old, new
  <2>4. new = IF slow THEN old \cup {n + 1} ELSE old
    <3>1. \A i : i \in new => i \in old \/ (i = n + 1 /\ slow)
      BY <2>1, <2>3
    <3>2. \A i : i \in old \/ (i = n + 1 /\ slow) => i \in new
      BY <2>3
    <3> QED  BY <3>1, <3>2
  <2> QED  BY <2>4 DEF slow, old, new
<1> QED  BY <1>1, <1>3, <1>8, <1>9, <1>12, <1>13

\* The limit after one more chunk.
LEMMA LimitMoves ==
    ASSUME PaceInv, NEW t \in Times, recordChunkTiming(t)
    PROVE  PaceInv'
<1> DEFINE n == Len(timings)
           slow == 2 * t > 5 * floorMsPerText'
<1>1. /\ timings' \in Seq(Times) /\ Len(timings') = n + 1 /\ floorMsPerText' \in Times
      /\ FloorIsFastest'
      /\ SlowChunks' = IF slow THEN SlowChunks \cup {n + 1} ELSE SlowChunks
      /\ SlowChunks \subseteq 1 .. n
  BY SlowOrNot
<1>2. n \in Nat /\ PARSE_CONCURRENCY \in Nat \ {0} /\ RecoverAfter \in Nat \ {0}
  BY LimiterAssumption DEF PaceInv
<1>3. inFlightLimit \in 1 .. PARSE_CONCURRENCY /\ fastChunks \in Nat
  BY DEF PaceInv
<1>4. IF slow
        THEN inFlightLimit' = 1 /\ fastChunks' = 0
        ELSE IF fastChunks + 1 >= RecoverAfter /\ inFlightLimit < PARSE_CONCURRENCY
               THEN inFlightLimit' = inFlightLimit + 1 /\ fastChunks' = 0
               ELSE fastChunks' = fastChunks + 1 /\ inFlightLimit' = inFlightLimit
  BY DEF recordChunkTiming
<1> HIDE DEF slow
<1>5. inFlightLimit' \in 1 .. PARSE_CONCURRENCY /\ fastChunks' \in Nat
  BY <1>2, <1>3, <1>4
<1>6. SlowChunks' = {} => inFlightLimit' = PARSE_CONCURRENCY
  BY <1>1, <1>2, <1>3, <1>4 DEF PaceInv
<1>7. ASSUME NEW last \in SlowChunks', \A i \in SlowChunks' : i <= last
      PROVE  ClimbedSince(last)'
  <2>1. CASE slow
    <3>1. last = n + 1
      BY <1>1, <1>2, <1>7, <2>1
    <3>2. Len(timings') - last = 0 /\ inFlightLimit' = 1 /\ fastChunks' = 0
      BY <1>1, <1>2, <1>4, <2>1, <3>1
    <3>3. RecoverAfter * (inFlightLimit' - 1) + fastChunks' = 0
      BY <1>2, <3>2
    <3>4. PARSE_CONCURRENCY = 1 => RecoverAfter * (PARSE_CONCURRENCY - 1) = 0
      BY <1>2
    <3> QED  BY <1>2, <3>2, <3>3, <3>4 DEF ClimbedSince
  <2>2. CASE ~slow
    <3>1. last \in SlowChunks /\ ClimbedSince(last) /\ last \in Nat
      BY <1>1, <1>7, <2>2 DEF PaceInv
    <3> DEFINE d == n - last
               R == RecoverAfter
               k == inFlightLimit - 1
    <3>2. d \in Int /\ Len(timings') - last = d + 1
      BY <1>1, <1>2, <3>1
    <3>3. k \in Nat /\ R \in Nat /\ R * (k + 1) = R * k + R /\ R * k \in Nat
      BY <1>2, <1>3
    <3>4. CASE /\ inFlightLimit < PARSE_CONCURRENCY /\ fastChunks < R /\ d = R * k + fastChunks
      <4>1. CASE fastChunks + 1 < R
        <5>1. inFlightLimit' = inFlightLimit /\ fastChunks' = fastChunks + 1
          BY <1>2, <1>3, <1>4, <2>2, <4>1
        <5>2. d + 1 = R * k + (fastChunks + 1)
          BY <1>3, <3>3, <3>4
        <5> QED  BY <3>2, <3>4, <4>1, <5>1, <5>2 DEF ClimbedSince
      <4>2. CASE ~(fastChunks + 1 < R)
        <5>1. inFlightLimit' = inFlightLimit + 1 /\ fastChunks' = 0 /\ fastChunks + 1 = R
          BY <1>2, <1>3, <1>4, <2>2, <3>4, <4>2
        <5>2. d + 1 = R * (k + 1)
          BY <1>3, <3>3, <3>4, <5>1
        <5>3. inFlightLimit' - 1 = k + 1 /\ d + 1 = R * (inFlightLimit' - 1)
          BY <1>3, <5>1, <5>2
        <5>4. CASE inFlightLimit' = PARSE_CONCURRENCY
          BY <3>2, <5>3, <5>4 DEF ClimbedSince
        <5>5. CASE inFlightLimit' # PARSE_CONCURRENCY
          <6>1. inFlightLimit' < PARSE_CONCURRENCY /\ 0 < R
            BY <1>2, <1>5, <5>5
          <6>2. d + 1 = R * (inFlightLimit' - 1) + fastChunks'
            BY <3>2, <5>1, <5>3
          <6> QED  BY <3>2, <5>1, <6>1, <6>2 DEF ClimbedSince
        <5> QED  BY <5>4, <5>5
      <4> QED  BY <4>1, <4>2
    <3>5. CASE inFlightLimit = PARSE_CONCURRENCY /\ d >= R * (PARSE_CONCURRENCY - 1)
      <4>1. inFlightLimit' = PARSE_CONCURRENCY
        BY <1>2, <1>3, <1>4, <2>2, <3>5
      <4>2. R * (PARSE_CONCURRENCY - 1) \in Nat
        BY <3>3, <3>5
      <4>3. d + 1 >= R * (PARSE_CONCURRENCY - 1)
        BY <3>2, <3>5, <4>2
      <4> QED  BY <3>2, <4>1, <4>3 DEF ClimbedSince
    <3> QED  BY <3>1, <3>4, <3>5 DEF ClimbedSince
  <2> QED  BY <2>1, <2>2
<1> QED  BY <1>1, <1>5, <1>6, <1>7 DEF PaceInv

LEMMA PaceNext == PaceInv /\ [LimiterNext]_pvars => PaceInv'
<1> SUFFICES ASSUME PaceInv, [LimiterNext]_pvars PROVE PaceInv'
  OBVIOUS
<1>1. CASE UNCHANGED pace
  BY <1>1 DEF pace, PaceInv, FloorIsFastest, SlowChunks, ClimbedSince
<1>2. ASSUME NEW t \in Times, recordChunkTiming(t) PROVE PaceInv'
  BY <1>2, LimitMoves
<1>3. UNCHANGED pace \/ \E t \in Times : recordChunkTiming(t)
  BY DEF LimiterNext, parseSegments, takeSlot, ChunkIsParsed, ChunkIsRetried, ChunkFails, pvars
<1> QED  BY <1>1, <1>2, <1>3

\* The limit is what the timings say, whatever they were: one in flight after a slow
\* chunk, one more for every so many since, up to the ceiling.
THEOREM TimingsSetTheLimit == LimiterSpec => []LimitFollowsTheTimings
<1>1. LimiterInit => PaceInv
  BY LimiterAssumption DEF LimiterInit, PaceInv, FloorIsFastest, SlowChunks
<1>2. ASSUME PaceInv, NEW last \in SlowChunks, ClimbedSince(last)
      PROVE  inFlightLimit = Least(PARSE_CONCURRENCY, 1 + (Len(timings) - last) \div RecoverAfter)
  <2> DEFINE d == Len(timings) - last
  <2>1. d \in Nat /\ PARSE_CONCURRENCY \in Nat \ {0} /\ RecoverAfter \in Nat \ {0}
    BY <1>2, LimiterAssumption DEF PaceInv, SlowChunks
  <2>2. inFlightLimit \in 1 .. PARSE_CONCURRENCY /\ fastChunks \in Nat
    BY <1>2 DEF PaceInv
  <2>3. CASE /\ inFlightLimit < PARSE_CONCURRENCY /\ fastChunks < RecoverAfter
             /\ d = RecoverAfter * (inFlightLimit - 1) + fastChunks
    <3>1. d \div RecoverAfter = inFlightLimit - 1
      <4>1. inFlightLimit - 1 \in Nat /\ fastChunks \in 0 .. RecoverAfter - 1
        BY <2>1, <2>2, <2>3
      <4> QED  BY <2>1, <2>3, <4>1, Divided
    <3> QED  BY <2>1, <2>2, <2>3, <3>1 DEF Least
  <2>4. CASE inFlightLimit = PARSE_CONCURRENCY /\ d >= RecoverAfter * (PARSE_CONCURRENCY - 1)
    <3>1. d \div RecoverAfter \in Nat /\ d \div RecoverAfter >= PARSE_CONCURRENCY - 1
      <4>1. PARSE_CONCURRENCY - 1 \in Nat
        BY <2>1
      <4> QED  BY <2>1, <2>4, <4>1, DividedAtLeast
    <3> DEFINE q == d \div RecoverAfter
    <3> HIDE DEF q
    <3> QED  BY <2>1, <2>2, <2>4, <3>1 DEF Least, q
  <2> QED  BY <1>2, <2>3, <2>4 DEF ClimbedSince
<1>3. PaceInv => LimitFollowsTheTimings
  BY <1>2 DEF PaceInv, LimitFollowsTheTimings
<1> QED
  BY <1>1, <1>3, PaceNext, PTL DEF LimiterSpec
=============================================================================
