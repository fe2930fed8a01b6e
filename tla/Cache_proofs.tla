----------------------------- MODULE Cache_proofs -----------------------------
(***************************************************************************)
(* The three modules of caches, each proved on its own: the sessions       *)
(* (ReaderCache) and the answers (CorpusCache) the frontend's server keeps,*)
(* and what the backend keeps of accounts, keys and tiers (ApiAccess).     *)
(***************************************************************************)
EXTENDS ReaderCache, CorpusCache, ApiAccess, FiniteSetTheorems, TLAPS

(***************************************************************************)
(* ReaderCache: nobody is shown an account older than the cache may be,    *)
(* and whoever saved something sees it, for any number of worker           *)
(* processes, browsers and writes, and any time to live.                   *)
(*                                                                         *)
(* Both follow from bounds on the account each answer was read at.  The    *)
(* history of the account at the last ticks gives the first: an answer     *)
(* with l ticks left was put there TTL_MS - l ticks ago, by a fetch that   *)
(* had been out for as many as it says.  The second needs that a stamp is  *)
(* the number of a write that was answered, so that nothing was asked for  *)
(* under it before, and that a stamp outlives what was kept without it,    *)
(* unless that was fetched for longer than it is kept.                     *)
(***************************************************************************)

Ticks == 1 .. 2 * TTL_MS

\* The account only grows.
Ordered ==
    /\ past[1] <= account
    /\ \A i, j \in Ticks : i <= j => past[j] <= past[i]

\* What a fetch was told is no older than the fetch.
TellsRecent ==
    \A r \in Fetches : sent[r].step = "told" /\ sent[r].out # TooLong =>
        sent[r].read >= past[sent[r].out + 1]

\* An answer is as old as the ticks it was fetched and kept for.
Age(e) == e.out + (TTL_MS - e.left) + 1

KeepsRecent ==
    \A w \in Forks, k \in SessionKeys :
        held[w][k].kind = "value" /\ held[w][k].out # TooLong =>
            held[w][k].read >= past[Age(held[w][k])]

AgeInv == ReaderTypeOK /\ Ordered /\ TellsRecent /\ KeepsRecent

-----------------------------------------------------------------------------
\* Types.

LEMMA TypesOfEntries ==
    ASSUME NEW e \in HeldEntries, NEW n \in Accounts \cup {SignedOut}, NEW o \in Durations
    PROVE  /\ Older(e) \in HeldEntries /\ Kept(n, o) \in HeldEntries /\ NoEntry \in HeldEntries
           /\ \A r \in Fetches : [kind |-> "inflight", by |-> r] \in HeldEntries
           /\ e.kind = "value" => e \in StoredAnswers
           /\ e.kind = "inflight" => e.by \in Fetches
<1>1. Kept(n, o) \in StoredAnswers
  BY ReaderAssumption DEF Kept, StoredAnswers
<1>2. e.kind = "value" => e \in StoredAnswers
  BY DEF HeldEntries, NoEntry
<1>3. Older(e) \in HeldEntries
  <2>1. CASE e.kind = "value" /\ e.left > 1
    <3>1. [e EXCEPT !.left = @ - 1] \in StoredAnswers
      BY <2>1, <1>2, ReaderAssumption DEF StoredAnswers
    <3>2. QED
      BY <2>1, <3>1, <1>2 DEF Older, HeldEntries, StoredAnswers
  <2>2. CASE ~(e.kind = "value" /\ e.left > 1)
    BY <2>2 DEF Older, HeldEntries
  <2>3. QED
    BY <2>1, <2>2
<1>4. e.kind = "inflight" => e.by \in Fetches
  BY DEF HeldEntries, NoEntry, StoredAnswers
<1>5. QED
  BY <1>1, <1>2, <1>3, <1>4 DEF HeldEntries

\* Whatever waits waits for a fetch.
LEMMA WaitsForAFetch ==
    ASSUME ReaderTypeOK, NEW w \in Forks, NEW k \in SessionKeys,
           held[w][k].kind = "inflight"
    PROVE  held[w][k].by \in Fetches
<1>1. held[w][k] \in HeldEntries
  BY DEF ReaderTypeOK
<1>2. 0 \in Durations /\ 0 \in Accounts
  BY ReaderAssumption DEF Durations, TooLong, Accounts
<1>3. QED
  BY <1>1, <1>2, TypesOfEntries

LEMMA FetchIsTold ==
    ASSUME ReaderTypeOK, NEW r \in Fetches, BackendTells(r)
    PROVE  /\ sent' \in [Fetches -> FetchStates]
           /\ sent[r] # NotOut /\ sent'[r].step = "told" /\ sent'[r].read = account
           /\ sent'[r].out = sent[r].out
           /\ sent'[r].fork = sent[r].fork /\ sent'[r].key = sent[r].key
           /\ \A q \in Fetches : q # r => sent'[q] = sent[q]
<1> DEFINE Out  == [step : {"asking", "told"}, fork : Forks, key : SessionKeys,
                    read : Accounts, out : Durations]
           told == [sent[r] EXCEPT !.step = "told", !.read = account]
<1>1. sent[r] # NotOut /\ sent[r] \in Out /\ account \in Accounts
  BY DEF BackendTells, ReaderTypeOK, FetchStates, NotOut
<1>2. told \in Out /\ told.step = "told" /\ told.read = account /\ told.out = sent[r].out
      /\ told.fork = sent[r].fork /\ told.key = sent[r].key
  BY <1>1
<1>3. sent' = [sent EXCEPT ![r] = told] /\ sent \in [Fetches -> FetchStates]
  BY DEF BackendTells, ReaderTypeOK
<1>4. told \in FetchStates
  BY <1>2 DEF FetchStates
<1> HIDE DEF told
<1>5. QED
  BY <1>1, <1>2, <1>3, <1>4

\* Initially and after every step the variables have their types.
LEMMA Types ==
    /\ ReaderInit => ReaderTypeOK
    /\ ReaderTypeOK /\ [ReaderNext]_rvars => ReaderTypeOK'
<1>1. ReaderInit => ReaderTypeOK
  BY ReaderAssumption DEF ReaderInit, ReaderTypeOK, HeldEntries, FetchStates, Accounts
<1>2. ASSUME ReaderTypeOK, [ReaderNext]_rvars
      PROVE  ReaderTypeOK'
  <2> USE <1>2 DEF ReaderTypeOK
  <2>1. ASSUME NEW b \in Browsers, NEW w \in Forks, NEW scope \in Scopes,
               ssrAuthFetch(b, w, scope)
        PROVE  ReaderTypeOK'
    <3> DEFINE key == cacheKey(b, scope)
    <3>1. key \in SessionKeys
      BY DEF cacheKey, SessionKeys
    <3>2. CASE Hit(w, key)
      BY <2>1, <3>2 DEF ssrAuthFetch, Hit
    <3>3. CASE Miss(w, key)
      <4>1. PICK r \in Fetches :
              /\ sent' = [sent EXCEPT ![r] = [step |-> "asking", fork |-> w, key |-> key,
                                              read |-> 0, out |-> 0]]
              /\ held' = [held EXCEPT ![w][key] = [kind |-> "inflight", by |-> r]]
        BY <3>3 DEF Miss
      <4>2. sent' \in [Fetches -> FetchStates]
        BY <4>1, <3>1, ReaderAssumption DEF FetchStates, Accounts, Durations, TooLong
      <4>3. held' \in [Forks -> [SessionKeys -> HeldEntries]]
        BY <4>1, <3>1 DEF HeldEntries
      <4>4. QED
        BY <2>1, <4>2, <4>3 DEF ssrAuthFetch
    <3>4. QED
      BY <2>1, <3>2, <3>3 DEF ssrAuthFetch
  <2>2. ASSUME NEW r \in Fetches, BackendTells(r)
        PROVE  ReaderTypeOK'
    BY <2>2, FetchIsTold DEF BackendTells
  <2>3. ASSUME NEW r \in Fetches, NEW e \in HeldEntries, sent[r].step # "idle", Puts(r, e)
        PROVE  ReaderTypeOK'
    <3>1. sent[r].fork \in Forks /\ sent[r].key \in SessionKeys
      BY <2>3 DEF FetchStates, NotOut
    <3>2. held' \in [Forks -> [SessionKeys -> HeldEntries]]
      BY <2>3, <3>1 DEF Puts
    <3>3. sent' \in [Fetches -> FetchStates]
      BY <2>3 DEF Puts, FetchStates
    <3>4. QED
      BY <2>3, <3>2, <3>3 DEF Puts
  <2>4. ASSUME NEW r \in Fetches, FetchArrives(r) \/ FetchFails(r)
        PROVE  ReaderTypeOK'
    <3>1. /\ NoEntry \in HeldEntries
          /\ \A n \in Accounts \cup {SignedOut}, o \in Durations : Kept(n, o) \in HeldEntries
      BY TypesOfEntries DEF HeldEntries
    <3>2. sent[r].step # "idle" => sent[r].read \in Accounts /\ sent[r].out \in Durations
      BY DEF FetchStates, NotOut
    <3>3. \E e \in HeldEntries : Puts(r, e) /\ sent[r].step # "idle"
      BY <2>4, <3>1, <3>2 DEF FetchArrives, FetchFails
    <3>4. QED
      BY <2>3, <3>3
  <2>5. ASSUME NEW b \in Browsers, NEW w \in Forks, BackendTakes(b, w)
        PROVE  ReaderTypeOK'
    <3>1. account + 1 \in Accounts
      BY <2>5, ReaderAssumption DEF BackendTakes, Accounts
    <3>2. QED
      BY <2>5, <3>1 DEF BackendTakes
  <2>6. ASSUME NEW b \in Browsers, WriteIsAnswered(b)
        PROVE  ReaderTypeOK'
    <3>1. PICK x \in writing[b] :
            /\ stampPreferencesVersion(b, x[2]) /\ dropSessionEntries(x[1])
            /\ known' = [known EXCEPT ![b] = x[2]]
            /\ writing' = [writing EXCEPT ![b] = {}]
            /\ forgot' = IF OutOn(x[1]) = {} /\ forgot[x[1]] < x[2]
                         THEN [forgot EXCEPT ![x[1]] = x[2]] ELSE forgot
            /\ UNCHANGED <<account, sent, past>>
      BY <2>6 DEF WriteIsAnswered
    <3>2. x[1] \in Forks /\ x[2] \in Accounts
      BY <3>1
    <3>3. held' \in [Forks -> [SessionKeys -> HeldEntries]]
      BY <3>1, <3>2 DEF dropSessionEntries, HeldEntries
    <3>4. jar' \in [Browsers -> [stamp : Accounts, left : 0 .. 2 * TTL_MS]]
      BY <3>1, <3>2, ReaderAssumption DEF stampPreferencesVersion, PREFS_VERSION_MAX_AGE_S
    <3>5. forgot' \in [Forks -> Accounts]
      BY <3>1, <3>2
    <3>6. QED
      BY <3>1, <3>2, <3>3, <3>4, <3>5
  <2>7. ASSUME NEW b \in Browsers, WriteIsLost(b)
        PROVE  ReaderTypeOK'
    BY <2>7 DEF WriteIsLost
  <2>8. CASE ReaderTick
    <3>1. sent' \in [Fetches -> FetchStates]
      <4>1. \A o \in Durations : Later(o) \in Durations
        BY ReaderAssumption DEF Later, Durations, TooLong
      <4>2. QED
        BY <2>8, <4>1 DEF ReaderTick, FetchStates, NotOut
    <3>2. held' \in [Forks -> [SessionKeys -> HeldEntries]]
      <4>1. 0 \in Durations /\ 0 \in Accounts
        BY ReaderAssumption DEF Durations, TooLong, Accounts
      <4>2. QED
        BY <2>8, <4>1, TypesOfEntries DEF ReaderTick
    <3>3. jar' \in [Browsers -> [stamp : Accounts, left : 0 .. 2 * TTL_MS]]
      <4>1. ASSUME NEW b \in Browsers
            PROVE  (IF jar[b].left > 1 THEN [jar[b] EXCEPT !.left = @ - 1]
                    ELSE [stamp |-> 0, left |-> 0]) \in [stamp : Accounts, left : 0 .. 2 * TTL_MS]
        <5>1. jar[b].left \in 0 .. 2 * TTL_MS /\ jar[b] \in [stamp : Accounts, left : 0 .. 2 * TTL_MS]
          OBVIOUS
        <5>2. 2 * TTL_MS \in Nat /\ 0 \in Accounts
          BY ReaderAssumption DEF Accounts
        <5>3. jar[b].left > 1 => jar[b].left - 1 \in 0 .. 2 * TTL_MS
          BY <5>1, <5>2
        <5>4. CASE jar[b].left > 1
          BY <5>1, <5>3, <5>4
        <5>5. 0 \in 0 .. 2 * TTL_MS
          BY <5>2
        <5>6. CASE ~(jar[b].left > 1)
          BY <5>2, <5>5, <5>6
        <5>7. QED
          BY <5>4, <5>6
      <4>2. QED
        BY <2>8, <4>1 DEF ReaderTick
    <3>4. past' \in [1 .. 2 * TTL_MS -> Accounts]
      BY <2>8, ReaderAssumption DEF ReaderTick
    <3>5. QED
      BY <2>8, <3>1, <3>2, <3>3, <3>4 DEF ReaderTick
  <2>9. CASE UNCHANGED rvars
    BY <2>9 DEF rvars
  <2>10. QED
    BY <2>1, <2>2, <2>4, <2>5, <2>6, <2>7, <2>8, <2>9 DEF ReaderNext
<1>3. QED
  BY <1>1, <1>2

-----------------------------------------------------------------------------
\* How old an answer may be.

LEMMA AgeInit == ReaderInit => Ordered /\ TellsRecent /\ KeepsRecent
<1> SUFFICES ASSUME ReaderInit
             PROVE  Ordered /\ TellsRecent /\ KeepsRecent
  OBVIOUS
<1>1. Ordered
  BY ReaderAssumption DEF ReaderInit, Ordered, Ticks
<1>2. TellsRecent
  BY DEF ReaderInit, TellsRecent, NotOut
<1>3. KeepsRecent
  BY DEF ReaderInit, KeepsRecent, NoEntry
<1>4. QED
  BY <1>1, <1>2, <1>3

\* Every step keeps the bounds; a tick moves the history on by one, and every bound with it.
LEMMA AgeNext ==
    ASSUME AgeInv, [ReaderNext]_rvars
    PROVE  Ordered' /\ TellsRecent' /\ KeepsRecent'
<1> USE DEF AgeInv
<1>0. /\ ReaderTypeOK' /\ account \in Nat /\ 1 \in Ticks /\ 2 \in Ticks
      /\ \A i \in Ticks : past[i] \in Nat
      /\ \A i \in Ticks : past[i] <= account
  <2>1. ReaderTypeOK'
    BY Types
  <2>2. account \in Nat /\ 1 \in Ticks /\ 2 \in Ticks /\ \A i \in Ticks : past[i] \in Nat
    BY ReaderAssumption DEF ReaderTypeOK, Accounts, Ticks
  <2>3. \A i \in Ticks : past[i] <= past[1]
    BY <2>2 DEF Ordered, Ticks
  <2>4. QED
    BY <2>1, <2>2, <2>3 DEF Ordered
<1>1. ASSUME NEW b \in Browsers, NEW w \in Forks, NEW scope \in Scopes,
             ssrAuthFetch(b, w, scope)
      PROVE  Ordered' /\ TellsRecent' /\ KeepsRecent'
  <2>1. Ordered'
    BY <1>1 DEF ssrAuthFetch, Ordered
  <2> DEFINE key == cacheKey(b, scope)
  <2>2. CASE Hit(w, key)
    BY <1>1, <2>1, <2>2 DEF ssrAuthFetch, Hit, TellsRecent, KeepsRecent
  <2>3. CASE Miss(w, key)
    <3>1. PICK r \in Fetches :
            /\ sent' = [sent EXCEPT ![r] = [step |-> "asking", fork |-> w, key |-> key,
                                            read |-> 0, out |-> 0]]
            /\ held' = [held EXCEPT ![w][key] = [kind |-> "inflight", by |-> r]]
      BY <2>3 DEF Miss
    <3>2. past' = past
      BY <1>1 DEF ssrAuthFetch
    <3>3. \A q \in Fetches : sent'[q].step = "told" => sent'[q] = sent[q]
      BY <3>1 DEF ReaderTypeOK
    <3>4. \A x \in Forks, k \in SessionKeys :
            held'[x][k].kind = "value" => held'[x][k] = held[x][k]
      BY <3>1 DEF ReaderTypeOK
    <3>5. QED
      BY <2>1, <3>2, <3>3, <3>4 DEF TellsRecent, KeepsRecent
  <2>4. QED
    BY <1>1, <2>2, <2>3 DEF ssrAuthFetch
<1>2. ASSUME NEW r \in Fetches, BackendTells(r)
      PROVE  Ordered' /\ TellsRecent' /\ KeepsRecent'
  <2>1. /\ sent'[r].read = account /\ sent'[r] \in FetchStates /\ sent'[r].step = "told"
        /\ \A q \in Fetches : q # r => sent'[q] = sent[q]
        /\ past' = past
    BY <1>2, FetchIsTold DEF BackendTells
  <2>3. TellsRecent'
    <3>1. ASSUME NEW q \in Fetches, sent'[q].step = "told", sent'[q].out # TooLong
          PROVE  sent'[q].read >= past[sent'[q].out + 1]
      <4>1. CASE q = r
        <5>1. sent'[r].out \in Durations
          BY <2>1 DEF FetchStates, NotOut
        <5>2. sent'[r].out + 1 \in Ticks
          BY <3>1, <4>1, <5>1, ReaderAssumption DEF Durations, TooLong, Ticks
        <5>3. QED
          BY <1>0, <2>1, <4>1, <5>2
      <4>2. CASE q # r
        BY <2>1, <3>1, <4>2 DEF TellsRecent
      <4>3. QED
        BY <4>1, <4>2
    <3>2. QED
      BY <2>1, <3>1 DEF TellsRecent
  <2>4. QED
    BY <1>2, <2>3 DEF BackendTells, Ordered, KeepsRecent
<1>3. ASSUME NEW r \in Fetches, FetchArrives(r) \/ FetchFails(r)
      PROVE  Ordered' /\ TellsRecent' /\ KeepsRecent'
  <2>1. PICK e :
          /\ Puts(r, e)
          /\ e.kind = "value" /\ e.out # TooLong =>
               e.left = TTL_MS /\ e.out \in Durations /\ e.read >= past[e.out + 1]
    <3>0. sent[r].out \in Durations
      BY <1>3 DEF FetchArrives, FetchFails, ReaderTypeOK, FetchStates, NotOut
    <3>1. CASE FetchArrives(r)
      BY <3>0, <3>1, <1>0 DEF FetchArrives, Kept, TellsRecent
    <3>2. CASE FetchFails(r)
      <4>1. \A i \in Ticks : past[i] <= SignedOut
        BY <1>0, ReaderAssumption DEF SignedOut, Accounts, ReaderTypeOK, Ticks
      <4>2. \A o \in Durations : o # TooLong => o + 1 \in Ticks
        BY ReaderAssumption DEF Durations, TooLong, Ticks
      <4>3. SignedOut \in Nat
        BY ReaderAssumption DEF SignedOut
      <4>4. \A o \in Durations : o # TooLong => SignedOut >= past[o + 1]
        BY <1>0, <4>1, <4>2, <4>3
      <4>5. QED
        BY <3>0, <3>2, <4>4 DEF FetchFails, Kept, NoEntry
    <3>3. QED
      BY <1>3, <3>1, <3>2
  <2>2. KeepsRecent'
    <3>1. ASSUME NEW w \in Forks, NEW k \in SessionKeys, held'[w][k].kind = "value",
                 held'[w][k].out # TooLong
          PROVE  held'[w][k].read >= past'[Age(held'[w][k])]
      <4>1. held'[w][k] = e \/ held'[w][k] = held[w][k]
        BY <2>1, <3>1 DEF Puts, ReaderTypeOK
      <4>2. e.kind = "value" /\ e.out # TooLong => Age(e) = e.out + 1
        BY <2>1, ReaderAssumption DEF Age, Durations
      <4>3. past' = past
        BY <2>1 DEF Puts
      <4>4. QED
        BY <2>1, <3>1, <4>1, <4>2, <4>3 DEF KeepsRecent
    <3>2. QED
      BY <3>1 DEF KeepsRecent
  <2>3. TellsRecent'
    BY <2>1 DEF Puts, TellsRecent, ReaderTypeOK, NotOut
  <2>4. QED
    BY <2>1, <2>2, <2>3 DEF Puts, Ordered
<1>4. ASSUME NEW b \in Browsers, NEW w \in Forks, BackendTakes(b, w)
      PROVE  Ordered' /\ TellsRecent' /\ KeepsRecent'
  <2>1. account' >= past[1]
    BY <1>0, <1>4 DEF BackendTakes, Ordered
  <2>2. QED
    BY <1>4, <2>1 DEF BackendTakes, Ordered, TellsRecent, KeepsRecent
<1>5. ASSUME NEW b \in Browsers, WriteIsAnswered(b)
      PROVE  Ordered' /\ TellsRecent' /\ KeepsRecent'
  <2>1. PICK x \in writing[b] : dropSessionEntries(x[1])
    BY <1>5 DEF WriteIsAnswered
  <2>2. UNCHANGED <<account, sent, past>>
    BY <1>5 DEF WriteIsAnswered
  <2>3. \A w \in Forks, k \in SessionKeys : held'[w][k] \in {NoEntry, held[w][k]}
    BY <2>1 DEF dropSessionEntries, ReaderTypeOK
  <2>4. KeepsRecent'
    BY <2>2, <2>3 DEF KeepsRecent, NoEntry
  <2>5. QED
    BY <2>2, <2>4 DEF Ordered, TellsRecent
<1>6. ASSUME NEW b \in Browsers, WriteIsLost(b)
      PROVE  Ordered' /\ TellsRecent' /\ KeepsRecent'
  BY <1>6 DEF WriteIsLost, Ordered, TellsRecent, KeepsRecent
<1>7. CASE ReaderTick
  <2>1. /\ past'[1] = account /\ past'[2] = past[1]
        /\ \A i \in Ticks : i # 1 => i - 1 \in Ticks /\ past'[i] = past[i - 1]
    BY <1>7, ReaderAssumption DEF ReaderTick, ReaderTypeOK, Ticks
  <2>2. Ordered'
    <3>1. ASSUME NEW i \in Ticks, NEW j \in Ticks, i <= j
          PROVE  past'[j] <= past'[i]
      <4>1. CASE i = 1 /\ j = 1
        BY <4>1, <2>1, <1>0
      <4>2. CASE i = 1 /\ j # 1
        BY <4>2, <2>1, <1>0
      <4>3. CASE i # 1
        <5>1. j # 1 /\ i - 1 <= j - 1
          BY <3>1, <4>3, ReaderAssumption DEF Ticks
        <5>2. QED
          BY <5>1, <4>3, <2>1 DEF Ordered
      <4>4. QED
        BY <4>1, <4>2, <4>3
    <3>2. past'[1] <= account'
      BY <2>1, <1>0, <1>7 DEF ReaderTick
    <3>3. QED
      BY <3>1, <3>2 DEF Ordered
  <2>3. TellsRecent'
    <3>1. ASSUME NEW r \in Fetches, sent'[r].step = "told", sent'[r].out # TooLong
          PROVE  sent'[r].read >= past'[sent'[r].out + 1]
      <4>1. sent[r] # NotOut /\ sent'[r] = [sent[r] EXCEPT !.out = Later(sent[r].out)]
        BY <1>7, <3>1 DEF ReaderTick, NotOut
      <4>2. /\ sent'[r].out = Later(sent[r].out) /\ sent'[r].read = sent[r].read
            /\ sent'[r].step = sent[r].step /\ sent[r].out \in Durations
        BY <4>1 DEF ReaderTypeOK, FetchStates
      <4>3. sent[r].out # TooLong /\ sent'[r].out = sent[r].out + 1
        BY <3>1, <4>2 DEF Later
      <4>4. sent[r].read >= past[sent[r].out + 1]
        BY <3>1, <4>2, <4>3 DEF TellsRecent
      <4>5. PICK i \in Ticks : i = sent'[r].out + 1 /\ i # 1 /\ i - 1 = sent[r].out + 1
        BY <3>1, <4>2, <4>3, ReaderAssumption DEF Durations, TooLong, Ticks
      <4>6. QED
        BY <2>1, <4>2, <4>4, <4>5
    <3>2. QED
      BY <3>1 DEF TellsRecent
  <2>4. KeepsRecent'
    <3>1. ASSUME NEW w \in Forks, NEW k \in SessionKeys, held'[w][k].kind = "value",
                 held'[w][k].out # TooLong
          PROVE  held'[w][k].read >= past'[Age(held'[w][k])]
      <4> DEFINE e == held[w][k]
      <4>1. held'[w][k] = Older(e) /\ e \in HeldEntries
        BY <1>7 DEF ReaderTick, ReaderTypeOK
      <4>2. e.kind = "value" /\ e.left > 1
        BY <3>1, <4>1 DEF Older, HeldEntries, NoEntry, StoredAnswers
      <4>3. e \in StoredAnswers
        BY <4>1, <4>2 DEF HeldEntries, NoEntry
      <4>4. held'[w][k].left = e.left - 1 /\ held'[w][k].read = e.read /\ held'[w][k].out = e.out
        BY <4>1, <4>2, <4>3 DEF Older, StoredAnswers
      <4>5. e.left \in 1 .. TTL_MS /\ e.out \in Durations /\ e.out # TooLong
        BY <3>1, <4>3, <4>4 DEF StoredAnswers
      <4>6. PICK i \in Ticks : i = Age(held'[w][k]) /\ i # 1 /\ i - 1 = Age(e)
        BY <4>2, <4>4, <4>5, ReaderAssumption DEF Age, Ticks, Durations, TooLong
      <4>7. e.read >= past[Age(e)]
        BY <4>2, <4>5 DEF KeepsRecent
      <4>8. QED
        BY <2>1, <4>4, <4>6, <4>7
    <3>2. QED
      BY <3>1 DEF KeepsRecent
  <2>5. QED
    BY <2>2, <2>3, <2>4
<1>8. CASE UNCHANGED rvars
  BY <1>8 DEF rvars, Ordered, TellsRecent, KeepsRecent
<1>9. QED
  BY <1>1, <1>2, <1>3, <1>4, <1>5, <1>6, <1>7, <1>8 DEF ReaderNext

\* What is shown has the age of what is held.
LEMMA ShownIsRecent ==
    ASSUME AgeInv, NEW b \in Browsers, NEW w \in Forks, NEW scope \in Scopes,
           NEW x \in Shown(b, w, scope), x.out # TooLong
    PROVE  /\ TTL_MS + x.out \in Ticks /\ x.read \in Nat
           /\ x.read >= past[TTL_MS + x.out]
<1> DEFINE key == cacheKey(b, scope)
           e   == held[w][key]
<1>1. /\ key \in SessionKeys /\ e \in HeldEntries
      /\ \A i \in Ticks : past[i] \in Nat
      /\ \A i, j \in Ticks : i <= j => past[j] <= past[i]
  BY ReaderAssumption
     DEF AgeInv, ReaderTypeOK, Ordered, Ticks, Accounts, cacheKey, SessionKeys
<1>2. ASSUME NEW i \in Ticks, i <= TTL_MS + x.out, x.read >= past[i], x.read \in Nat,
             TTL_MS + x.out \in Ticks
      PROVE  x.read >= past[TTL_MS + x.out]
  BY <1>1, <1>2
<1>3. CASE e.kind = "value"
  <2>1. x = e
    BY <1>3 DEF Shown
  <2>2. e \in StoredAnswers
    BY <1>1, <1>3 DEF HeldEntries, NoEntry
  <2>3. x.out \in 0 .. TTL_MS /\ e.left \in 1 .. TTL_MS /\ e.out = x.out
    BY <2>1, <2>2, ReaderAssumption DEF StoredAnswers, Durations, TooLong
  <2>4. x.read \in Nat
    BY <2>1, <2>2, ReaderAssumption DEF StoredAnswers, Accounts, SignedOut
  <2>5. PICK i \in Ticks : i = Age(e) /\ i <= TTL_MS + x.out
    BY <2>3, ReaderAssumption DEF Age, Ticks
  <2>6. e.read >= past[Age(e)]
    BY <1>1, <1>3, <2>1 DEF AgeInv, KeepsRecent
  <2>7. TTL_MS + x.out \in Ticks
    BY <2>3, ReaderAssumption DEF Ticks
  <2>8. QED
    BY <1>2, <2>1, <2>4, <2>5, <2>6, <2>7
<1>4. CASE e.kind = "inflight"
  <2>1. PICK r \in Fetches : sent[r].step = "told" /\ x = sent[r]
    BY <1>1, <1>4 DEF Shown, HeldEntries, NoEntry, StoredAnswers
  <2>2. x.read \in Nat /\ x.out \in 0 .. TTL_MS
    <3>1. x.read \in Accounts /\ x.out \in Durations
      BY <2>1 DEF AgeInv, ReaderTypeOK, FetchStates, NotOut
    <3>2. QED
      BY <3>1, ReaderAssumption DEF Accounts, Durations, TooLong
  <2>3. PICK i \in Ticks : i = x.out + 1 /\ i <= TTL_MS + x.out
    BY <2>2, ReaderAssumption DEF Ticks
  <2>4. x.read >= past[x.out + 1]
    BY <2>1 DEF AgeInv, TellsRecent
  <2>5. TTL_MS + x.out \in Ticks
    BY <2>2, ReaderAssumption DEF Ticks
  <2>6. QED
    BY <1>2, <2>2, <2>3, <2>4, <2>5
<1>5. CASE e.kind \notin {"value", "inflight"}
  BY <1>5 DEF Shown
<1>6. QED
  BY <1>3, <1>4, <1>5

LEMMA AgeMeans == AgeInv => StaleForAMinute
BY ShownIsRecent DEF StaleForAMinute

\* Nobody is shown an account that is older than an answer may be kept and its fetch was
\* out, whatever happens meanwhile, on whichever worker, under whatever stamp.
THEOREM NothingIsOlder == ReaderSpec => []StaleForAMinute
<1>1. ReaderInit => AgeInv
  BY AgeInit, Types DEF AgeInv
<1>2. AgeInv /\ [ReaderNext]_rvars => AgeInv'
  BY AgeNext, Types DEF AgeInv
<1>3. QED
  BY <1>1, <1>2, AgeMeans, PTL DEF ReaderSpec

-----------------------------------------------------------------------------
\* Whoever saved something sees it.

\* A stamp is in use: by a browser, for a fetch that is out, or for what is held.
Used(n) ==
    \/ \E c \in Browsers : jar[c].stamp = n
    \/ \E r \in Fetches : sent[r] # NotOut /\ sent[r].key[2] = n
    \/ \E w \in Forks, k \in SessionKeys : held[w][k].kind # "none" /\ k[2] = n

\* Nobody has been told of a write the backend has not taken.
TakenFirst ==
    /\ \A b \in Browsers : known[b] <= account
    /\ \A w \in Forks : forgot[w] <= account

\* The stamp a write will leave is in nobody's hands before it is answered.
StampsAreNew ==
    /\ \A n \in Accounts : Used(n) => n <= account
    /\ \A b \in Browsers : \A x \in writing[b] :
         /\ 0 < x[2] /\ x[2] <= account /\ ~Used(x[2])
         /\ \A c \in Browsers : \A y \in writing[c] : x[2] = y[2] => b = c

\* Whatever waits for a fetch waits for the one that was sent for its key.
WaitsForItsOwn ==
    \A w \in Forks, k \in SessionKeys :
        held[w][k].kind = "inflight" =>
            LET f == sent[held[w][k].by] IN f # NotOut /\ f.fork = w /\ f.key = k

\* An account n is old enough for whatever is shown to b, and by w.
Suits(w, k, n) ==
    /\ forgot[w] <= n
    /\ \A b \in Browsers : jar[b].stamp = k[2] /\ k[2] # 0 => known[b] <= n

AnswersSuit ==
    /\ \A w \in Forks, k \in SessionKeys :
         held[w][k].kind = "value" => Suits(w, k, held[w][k].read)
    /\ \A r \in Fetches :
         sent[r].step = "told" => Suits(sent[r].fork, sent[r].key, sent[r].read)

\* A browser that has lost its stamp has had it for long enough.
StampOutlives ==
    \A b \in Browsers :
        /\ jar[b].stamp = 0 => jar[b].left = 0
        /\ \A i \in Ticks : i + jar[b].left <= 2 * TTL_MS => known[b] <= past[i]

ShowParts == TakenFirst /\ StampsAreNew /\ WaitsForItsOwn /\ AnswersSuit /\ StampOutlives
ShowInv == AgeInv /\ ShowParts

LEMMA ShowInit == ReaderInit => ShowParts
<1> SUFFICES ASSUME ReaderInit
             PROVE  ShowParts
  OBVIOUS
<1>1. TakenFirst
  BY DEF ReaderInit, TakenFirst
<1>2. StampsAreNew
  BY DEF ReaderInit, StampsAreNew, Used, NoEntry, NotOut
<1>3. WaitsForItsOwn /\ AnswersSuit
  BY DEF ReaderInit, WaitsForItsOwn, AnswersSuit, NoEntry, NotOut
<1>4. StampOutlives
  BY DEF ReaderInit, StampOutlives, Ticks
<1>5. QED
  BY <1>1, <1>2, <1>3, <1>4 DEF ShowParts

\* What most steps leave alone.
LEMMA SuitsAsBefore ==
    ASSUME UNCHANGED <<jar, known, forgot>>
    PROVE  /\ \A w \in Forks, k \in SessionKeys : \A n : Suits(w, k, n)' <=> Suits(w, k, n)
           /\ UNCHANGED past /\ StampOutlives => StampOutlives'
<1>1. \A w \in Forks, k \in SessionKeys : \A n : Suits(w, k, n)' <=> Suits(w, k, n)
  BY DEF Suits
<1>2. UNCHANGED past /\ StampOutlives => StampOutlives'
  BY DEF StampOutlives
<1>3. QED
  BY <1>1, <1>2

\* No new stamp, no new write: the stamps of the writes under way are still new.
LEMMA StampsStayNew ==
    ASSUME ReaderTypeOK, StampsAreNew, UNCHANGED account,
           \A n \in Accounts : Used(n)' => Used(n) \/ n = 0,
           \A b \in Browsers : writing'[b] \subseteq writing[b]
    PROVE  StampsAreNew'
<1>1. ASSUME NEW n \in Accounts, Used(n)'
      PROVE  n <= account'
  <2>1. account \in Nat
    BY ReaderAssumption DEF ReaderTypeOK, Accounts
  <2>2. CASE Used(n)
    BY <2>2 DEF StampsAreNew
  <2>3. CASE n = 0
    BY <2>1, <2>3
  <2>4. QED
    BY <1>1, <2>2, <2>3
<1>2. ASSUME NEW b \in Browsers, NEW x \in writing'[b]
      PROVE  /\ 0 < x[2] /\ x[2] <= account' /\ ~(Used(x[2])')
             /\ \A c \in Browsers : \A y \in writing'[c] : x[2] = y[2] => b = c
  <2>1. x \in writing[b] /\ x[2] \in Accounts
    BY <1>2 DEF ReaderTypeOK
  <2>2. 0 < x[2] /\ x[2] <= account /\ ~Used(x[2])
    BY <2>1 DEF StampsAreNew
  <2>3. \A c \in Browsers : \A y \in writing'[c] : x[2] = y[2] => b = c
    BY <2>1 DEF StampsAreNew
  <2>4. PICK n \in Accounts : n = x[2]
    BY <2>1
  <2>5. ~(Used(n)')
    BY <2>2, <2>4 DEF Accounts
  <2>6. QED
    BY <2>2, <2>3, <2>4, <2>5
<1>3. QED
  BY <1>1, <1>2 DEF StampsAreNew

\* Every step keeps what the second bound needs.
LEMMA ShowNext ==
    ASSUME ShowInv, [ReaderNext]_rvars
    PROVE  ShowParts'
<1> USE DEF ShowInv
<1>0. /\ ReaderTypeOK /\ ReaderTypeOK' /\ account \in Nat
      /\ \A i \in Ticks : past[i] \in Nat
      /\ \A b \in Browsers : known[b] \in Nat /\ known[b] <= account
      /\ \A w \in Forks : forgot[w] \in Nat /\ forgot[w] <= account
  <2>1. ReaderTypeOK /\ ReaderTypeOK'
    BY Types DEF AgeInv
  <2>2. account \in Nat /\ \A i \in Ticks : past[i] \in Nat
    BY ReaderAssumption DEF AgeInv, ReaderTypeOK, Accounts, Ticks
  <2>3. \A b \in Browsers : known[b] \in Nat /\ known[b] <= account
    BY ReaderAssumption DEF AgeInv, ShowParts, TakenFirst, ReaderTypeOK, Accounts
  <2>4. \A w \in Forks : forgot[w] \in Nat /\ forgot[w] <= account
    BY ReaderAssumption DEF AgeInv, ShowParts, TakenFirst, ReaderTypeOK, Accounts
  <2>5. QED
    BY <2>1, <2>2, <2>3, <2>4
<1>1. ASSUME NEW b \in Browsers, NEW w \in Forks, NEW scope \in Scopes,
             ssrAuthFetch(b, w, scope)
      PROVE  ShowParts'
  <2> DEFINE key == cacheKey(b, scope)
  <2>1. UNCHANGED <<account, jar, known, writing, past, forgot>> /\ key \in SessionKeys
    BY <1>0, <1>1 DEF ssrAuthFetch, cacheKey, SessionKeys, ReaderTypeOK
  <2>2. CASE Hit(w, key)
    BY <2>1, <2>2
       DEF Hit, ShowParts, TakenFirst, StampsAreNew, Used, WaitsForItsOwn, AnswersSuit, Suits,
           StampOutlives
  <2>3. CASE Miss(w, key)
    <3>1. PICK r \in Fetches :
            /\ sent[r] = NotOut
            /\ sent' = [sent EXCEPT ![r] = [step |-> "asking", fork |-> w, key |-> key,
                                            read |-> 0, out |-> 0]]
            /\ held' = [held EXCEPT ![w][key] = [kind |-> "inflight", by |-> r]]
      BY <2>3 DEF Miss
    <3>2. /\ sent'[r] # NotOut /\ sent'[r].fork = w /\ sent'[r].key = key
          /\ sent'[r].step = "asking" /\ \A q \in Fetches : q # r => sent'[q] = sent[q]
      BY <1>0, <3>1 DEF ReaderTypeOK, NotOut
    <3>3. /\ held'[w][key].kind = "inflight" /\ held'[w][key].by = r
          /\ \A x \in Forks, k \in SessionKeys :
               ~(x = w /\ k = key) => held'[x][k] = held[x][k]
      BY <1>0, <2>1, <3>1 DEF ReaderTypeOK
    <3>4. key[2] = jar[b].stamp
      BY DEF cacheKey
    <3>5. \A n \in Accounts : Used(n)' => Used(n) \/ n = 0
      BY <2>1, <3>2, <3>3, <3>4 DEF Used
    <3>6. StampsAreNew'
      BY <1>0, <2>1, <3>5, StampsStayNew DEF ShowParts
    <3>7. WaitsForItsOwn'
      <4>1. ASSUME NEW x \in Forks, NEW k \in SessionKeys, held'[x][k].kind = "inflight"
            PROVE  LET f == sent'[held'[x][k].by] IN
                     f # NotOut /\ f.fork = x /\ f.key = k
        <5>1. CASE x = w /\ k = key
          BY <3>2, <3>3, <5>1
        <5>2. CASE ~(x = w /\ k = key)
          <6>1. held'[x][k] = held[x][k] /\ held[x][k].by \in Fetches
            BY <1>0, <3>3, <4>1, <5>2, WaitsForAFetch
          <6>2. QED
            BY <3>1, <3>2, <4>1, <6>1 DEF ShowParts, WaitsForItsOwn
        <5>3. QED
          BY <5>1, <5>2
      <4>2. QED
        BY <4>1 DEF WaitsForItsOwn
    <3>8. AnswersSuit'
      BY <2>1, <3>2, <3>3 DEF ShowParts, AnswersSuit, Suits
    <3>9. QED
      BY <2>1, <3>6, <3>7, <3>8 DEF ShowParts, TakenFirst, StampOutlives
  <2>4. QED
    BY <1>1, <2>2, <2>3 DEF ssrAuthFetch
<1>2. ASSUME NEW r \in Fetches, BackendTells(r)
      PROVE  ShowParts'
  <2>1. UNCHANGED <<account, held, jar, known, writing, past, forgot>>
    BY <1>2 DEF BackendTells
  <2>2. /\ sent[r] # NotOut /\ sent'[r].step = "told" /\ sent'[r].read = account
        /\ sent'[r].fork = sent[r].fork /\ sent'[r].key = sent[r].key /\ sent'[r] # NotOut
        /\ \A q \in Fetches : q # r => sent'[q] = sent[q]
    BY <1>0, <1>2, FetchIsTold DEF NotOut
  <2>3. \A n \in Accounts : Used(n)' => Used(n) \/ n = 0
    BY <2>1, <2>2 DEF Used
  <2>4. StampsAreNew'
    BY <1>0, <2>1, <2>3, StampsStayNew DEF ShowParts
  <2>5. WaitsForItsOwn'
    <3>1. ASSUME NEW x \in Forks, NEW k \in SessionKeys, held[x][k].kind = "inflight"
          PROVE  held[x][k].by \in Fetches
      BY <1>0, <3>1, WaitsForAFetch
    <3>2. QED
      BY <2>1, <2>2, <3>1 DEF ShowParts, WaitsForItsOwn
  <2>6. AnswersSuit'
    <3>1. \A x \in Forks, k \in SessionKeys : Suits(x, k, account)
      BY <1>0 DEF Suits
    <3>2. sent[r].fork \in Forks /\ sent[r].key \in SessionKeys
      BY <1>0, <2>2 DEF ReaderTypeOK, FetchStates
    <3>3. QED
      BY <2>1, <2>2, <3>1, <3>2 DEF ShowParts, AnswersSuit, Suits
  <2>7. QED
    BY <2>1, <2>4, <2>5, <2>6 DEF ShowParts, TakenFirst, StampOutlives
<1>3. ASSUME NEW r \in Fetches, FetchArrives(r) \/ FetchFails(r)
      PROVE  ShowParts'
  <2> DEFINE w   == sent[r].fork
             key == sent[r].key
  <2>0. sent[r] # NotOut /\ w \in Forks /\ key \in SessionKeys
    BY <1>0, <1>3 DEF FetchArrives, FetchFails, ReaderTypeOK, FetchStates, NotOut
  <2>1. PICK e :
          /\ Puts(r, e) /\ e.kind # "inflight"
          /\ e.kind = "value" => Suits(w, key, e.read)
    <3>1. CASE FetchArrives(r)
      BY <3>1 DEF FetchArrives, Kept, ShowParts, AnswersSuit
    <3>2. CASE FetchFails(r)
      <4>1. Suits(w, key, SignedOut)
        <5>1. \A n \in Nat : n <= account => n <= SignedOut
          BY <1>0, ReaderAssumption DEF SignedOut, ReaderTypeOK, Accounts
        <5>2. QED
          BY <1>0, <2>0, <5>1 DEF Suits
      <4>2. QED
        BY <3>2, <4>1 DEF FetchFails, Kept, NoEntry
    <3>3. QED
      BY <1>3, <3>1, <3>2
  <2>2. /\ UNCHANGED <<account, jar, known, writing, past, forgot>>
        /\ sent'[r] = NotOut /\ \A q \in Fetches : q # r => sent'[q] = sent[q]
        /\ held'[w][key] = e
        /\ \A x \in Forks, k \in SessionKeys :
             ~(x = w /\ k = key) => held'[x][k] = held[x][k]
    BY <1>0, <2>0, <2>1 DEF Puts, ReaderTypeOK
  <2>3. \A n \in Accounts : Used(n)' => Used(n) \/ n = 0
    BY <2>0, <2>2 DEF Used
  <2>4. StampsAreNew'
    BY <1>0, <2>2, <2>3, StampsStayNew DEF ShowParts
  <2>5. WaitsForItsOwn'
    <3>1. ASSUME NEW x \in Forks, NEW k \in SessionKeys, held'[x][k].kind = "inflight"
          PROVE  LET f == sent'[held'[x][k].by] IN
                     f # NotOut /\ f.fork = x /\ f.key = k
      <4>1. ~(x = w /\ k = key) /\ held'[x][k] = held[x][k]
        BY <2>1, <2>2, <3>1
      <4>2. held[x][k].by \in Fetches
        BY <1>0, <3>1, <4>1, WaitsForAFetch
      <4>3. held[x][k].by # r
        BY <3>1, <4>1 DEF ShowParts, WaitsForItsOwn
      <4>4. QED
        BY <2>2, <3>1, <4>1, <4>2, <4>3 DEF ShowParts, WaitsForItsOwn
    <3>2. QED
      BY <3>1 DEF WaitsForItsOwn
  <2>6. AnswersSuit'
    <3>1. \A x \in Forks, k \in SessionKeys : \A n : Suits(x, k, n)' <=> Suits(x, k, n)
      BY <2>2, SuitsAsBefore
    <3>2. ASSUME NEW x \in Forks, NEW k \in SessionKeys, held'[x][k].kind = "value"
          PROVE  Suits(x, k, held'[x][k].read)
      BY <2>1, <2>2, <3>2 DEF ShowParts, AnswersSuit
    <3>3. ASSUME NEW q \in Fetches, sent'[q].step = "told"
          PROVE  sent'[q] = sent[q]
      BY <2>2, <3>3 DEF NotOut
    <3>4. QED
      BY <2>2, <3>2, <3>3 DEF ShowParts, AnswersSuit, Suits
  <2>7. QED
    BY <2>2, <2>4, <2>5, <2>6 DEF ShowParts, TakenFirst, StampOutlives
<1>4. ASSUME NEW b \in Browsers, NEW w \in Forks, BackendTakes(b, w)
      PROVE  ShowParts'
  <2>1. /\ UNCHANGED <<held, sent, jar, known, past, forgot>> /\ account' = account + 1
        /\ writing'[b] = {<<w, account + 1>>}
        /\ \A c \in Browsers : c # b => writing'[c] = writing[c]
    BY <1>0, <1>4 DEF BackendTakes, ReaderTypeOK
  <2>2. \A n \in Accounts : (Used(n)' <=> Used(n)) /\ (Used(n) => n <= account)
    BY <2>1 DEF Used, ShowParts, StampsAreNew
  <2>3. StampsAreNew'
    <3>1. ASSUME NEW n \in Accounts, Used(n)'
          PROVE  n <= account'
      BY <1>0, <2>1, <2>2, <3>1 DEF Accounts
    <3>2. account' \in Accounts
      BY <1>0 DEF ReaderTypeOK
    <3>3. ASSUME NEW c \in Browsers, NEW x \in writing'[c]
          PROVE  x[2] \in Accounts /\ 0 < x[2] /\ x[2] <= account' /\ ~(Used(x[2])')
      <4>1. CASE c = b
        <5>1. x[2] = account'
          BY <2>1, <3>3, <4>1
        <5>2. PICK n \in Accounts : n = x[2] /\ n = account + 1
          BY <2>1, <3>2, <5>1
        <5>3. ~(Used(n)')
          BY <1>0, <2>2, <5>2
        <5>4. QED
          BY <1>0, <2>1, <5>1, <5>2, <5>3
      <4>2. CASE c # b
        <5>1. /\ x \in writing[c] /\ x[2] \in Accounts
              /\ 0 < x[2] /\ x[2] <= account /\ ~Used(x[2])
          BY <1>0, <2>1, <3>3, <4>2 DEF ShowParts, StampsAreNew, ReaderTypeOK
        <5>2. PICK n \in Accounts : n = x[2]
          BY <5>1
        <5>3. x[2] <= account'
          BY <1>0, <2>1, <5>1 DEF Accounts
        <5>4. QED
          BY <2>2, <5>1, <5>2, <5>3
      <4>3. QED
        BY <4>1, <4>2
    <3>4. ASSUME NEW c \in Browsers, NEW x \in writing'[c],
                 NEW d \in Browsers, NEW y \in writing'[d], x[2] = y[2]
          PROVE  c = d
      <4>1. CASE c # b /\ d # b
        BY <2>1, <3>4, <4>1 DEF ShowParts, StampsAreNew
      <4>2. CASE c = b /\ d # b
        <5>1. x[2] = account + 1 /\ y[2] <= account
          BY <2>1, <4>2 DEF ShowParts, StampsAreNew
        <5>2. QED
          BY <1>0, <3>4, <5>1
      <4>3. CASE c # b /\ d = b
        <5>1. y[2] = account + 1 /\ x[2] <= account
          BY <2>1, <4>3 DEF ShowParts, StampsAreNew
        <5>2. QED
          BY <1>0, <3>4, <5>1
      <4>4. QED
        BY <4>1, <4>2, <4>3
    <3>5. QED
      BY <3>1, <3>3, <3>4 DEF StampsAreNew
  <2>4. TakenFirst'
    BY <1>0, <2>1 DEF TakenFirst
  <2>5. QED
    BY <2>1, <2>3, <2>4 DEF ShowParts, WaitsForItsOwn, AnswersSuit, Suits, StampOutlives
<1>5. ASSUME NEW b \in Browsers, WriteIsAnswered(b)
      PROVE  ShowParts'
  <2>1. PICK x \in writing[b] :
          /\ stampPreferencesVersion(b, x[2]) /\ dropSessionEntries(x[1])
          /\ known' = [known EXCEPT ![b] = x[2]]
          /\ writing' = [writing EXCEPT ![b] = {}]
          /\ forgot' = IF OutOn(x[1]) = {} /\ forgot[x[1]] < x[2]
                       THEN [forgot EXCEPT ![x[1]] = x[2]] ELSE forgot
          /\ UNCHANGED <<account, sent, past>>
    BY <1>5 DEF WriteIsAnswered
  <2> DEFINE w == x[1]
             n == x[2]
  <2>2. /\ w \in Forks /\ n \in Accounts /\ 0 < n /\ n <= account /\ ~Used(n)
        /\ \A c \in Browsers : \A y \in writing[c] : n = y[2] => b = c
    BY <1>0, <2>1 DEF ShowParts, StampsAreNew, ReaderTypeOK
  <2>3. /\ jar'[b] = [stamp |-> n, left |-> 2 * TTL_MS] /\ known'[b] = n /\ writing'[b] = {}
        /\ \A c \in Browsers : c # b =>
             jar'[c] = jar[c] /\ known'[c] = known[c] /\ writing'[c] = writing[c]
    BY <1>0, <2>1 DEF stampPreferencesVersion, PREFS_VERSION_MAX_AGE_S, ReaderTypeOK
  <2>4. \A v \in Forks, k \in SessionKeys :
          IF v = w THEN held'[v][k] = NoEntry ELSE held'[v][k] = held[v][k]
    BY <1>0, <2>1, <2>2 DEF dropSessionEntries, ReaderTypeOK
  <2>5. \A v \in Forks : forgot'[v] = forgot[v] \/ (v = w /\ OutOn(w) = {} /\ forgot'[v] = n)
    BY <1>0, <2>1, <2>2 DEF ReaderTypeOK
  <2>6. ASSUME NEW m \in Accounts, Used(m)'
        PROVE  Used(m) \/ m = n
    BY <2>1, <2>3, <2>4, <2>6 DEF Used, NoEntry
  <2>7. TakenFirst'
    BY <1>0, <2>1, <2>2, <2>3, <2>5 DEF TakenFirst
  <2>8. StampsAreNew'
    <3>1. \A m \in Accounts : Used(m)' => m <= account'
      BY <2>1, <2>2, <2>6 DEF ShowParts, StampsAreNew
    <3>2. ASSUME NEW c \in Browsers, NEW y \in writing'[c]
          PROVE  /\ 0 < y[2] /\ y[2] <= account' /\ ~(Used(y[2])')
                 /\ \A d \in Browsers : \A z \in writing'[d] : y[2] = z[2] => c = d
      <4>1. c # b /\ y \in writing[c]
        BY <2>3, <3>2
      <4>2. 0 < y[2] /\ y[2] <= account /\ ~Used(y[2]) /\ y[2] \in Accounts /\ y[2] # n
        BY <1>0, <2>2, <4>1 DEF ShowParts, StampsAreNew, ReaderTypeOK
      <4>3. PICK m \in Accounts : m = y[2]
        BY <4>2
      <4>4. ~(Used(m)')
        BY <2>6, <4>2, <4>3
      <4>5. \A d \in Browsers : \A z \in writing'[d] : y[2] = z[2] => c = d
        BY <2>3, <4>1 DEF ShowParts, StampsAreNew
      <4>6. QED
        BY <2>1, <4>2, <4>3, <4>4, <4>5
    <3>3. QED
      BY <3>1, <3>2 DEF StampsAreNew
  <2>9. WaitsForItsOwn'
    BY <2>1, <2>4 DEF ShowParts, WaitsForItsOwn, NoEntry
  <2>10. ASSUME NEW v \in Forks, NEW k \in SessionKeys, NEW a, Suits(v, k, a), k[2] # n,
                forgot'[v] = forgot[v]
         PROVE  Suits(v, k, a)'
    BY <2>3, <2>10 DEF Suits
  <2>11. AnswersSuit'
    <3>1. ASSUME NEW v \in Forks, NEW k \in SessionKeys, held'[v][k].kind = "value"
          PROVE  Suits(v, k, held[v][k].read)' /\ held'[v][k] = held[v][k]
      <4>1. v # w /\ held'[v][k] = held[v][k] /\ held[v][k].kind = "value"
        BY <2>4, <3>1 DEF NoEntry
      <4>2. k[2] # n
        BY <2>2, <4>1 DEF Used
      <4>3. Suits(v, k, held[v][k].read) /\ forgot'[v] = forgot[v]
        BY <2>5, <4>1 DEF ShowParts, AnswersSuit
      <4>4. PICK a : a = held[v][k].read
        OBVIOUS
      <4>5. Suits(v, k, a)'
        BY <2>10, <4>2, <4>3, <4>4
      <4>6. QED
        BY <4>1, <4>4, <4>5 DEF Suits
    <3>2. ASSUME NEW r \in Fetches, sent'[r].step = "told"
          PROVE  Suits(sent[r].fork, sent[r].key, sent[r].read)'
      <4>1. sent[r] # NotOut /\ sent[r].step = "told"
        BY <2>1, <3>2 DEF NotOut
      <4>2. PICK v \in Forks, k \in SessionKeys, a \in Accounts :
              v = sent[r].fork /\ k = sent[r].key /\ a = sent[r].read
        BY <1>0, <4>1 DEF ReaderTypeOK, FetchStates
      <4>3. k[2] # n
        BY <2>2, <4>1, <4>2 DEF Used
      <4>4. forgot'[v] = forgot[v]
        BY <2>5, <4>1, <4>2 DEF OutOn
      <4>5. Suits(v, k, a)
        BY <4>1, <4>2 DEF ShowParts, AnswersSuit
      <4>6. Suits(v, k, a)'
        BY <2>10, <4>3, <4>4, <4>5
      <4>7. QED
        BY <2>1, <4>2, <4>6 DEF Suits
    <3>3. QED
      BY <2>1, <3>1, <3>2 DEF AnswersSuit, Suits
  <2>12. StampOutlives'
    <3>1. ASSUME NEW i \in Ticks
          PROVE  ~(i + 2 * TTL_MS <= 2 * TTL_MS)
      BY <3>1, ReaderAssumption DEF Ticks
    <3>2. QED
      BY <2>1, <2>2, <2>3, <3>1 DEF ShowParts, StampOutlives
  <2>13. QED
    BY <2>7, <2>8, <2>9, <2>11, <2>12 DEF ShowParts
<1>6. ASSUME NEW b \in Browsers, WriteIsLost(b)
      PROVE  ShowParts'
  <2>1. /\ UNCHANGED <<account, held, sent, jar, known, past, forgot>>
        /\ \A c \in Browsers : writing'[c] \subseteq writing[c]
    BY <1>0, <1>6 DEF WriteIsLost, ReaderTypeOK
  <2>2. \A n \in Accounts : Used(n)' => Used(n) \/ n = 0
    BY <2>1 DEF Used
  <2>3. StampsAreNew'
    BY <1>0, <2>1, <2>2, StampsStayNew DEF ShowParts
  <2>4. QED
    BY <2>1, <2>3
       DEF ShowParts, TakenFirst, WaitsForItsOwn, AnswersSuit, Suits, StampOutlives
<1>7. CASE ReaderTick
  <2>1. /\ UNCHANGED <<account, known, writing, forgot>>
        /\ \A r \in Fetches :
             sent'[r] = IF sent[r] = NotOut THEN NotOut ELSE [sent[r] EXCEPT !.out = Later(sent[r].out)]
        /\ \A w \in Forks, k \in SessionKeys : held'[w][k] = Older(held[w][k])
        /\ \A b \in Browsers :
             jar'[b] = IF jar[b].left > 1 THEN [jar[b] EXCEPT !.left = @ - 1]
                       ELSE [stamp |-> 0, left |-> 0]
    BY <1>7 DEF ReaderTick
  <2>2. ASSUME NEW r \in Fetches
        PROVE  IF sent[r] = NotOut THEN sent'[r] = NotOut
               ELSE /\ sent'[r].step = sent[r].step /\ sent'[r].fork = sent[r].fork
                    /\ sent'[r].key = sent[r].key /\ sent'[r].read = sent[r].read
                    /\ sent'[r] # NotOut
    BY <1>0, <2>1 DEF ReaderTypeOK, FetchStates, NotOut
  <2>3. ASSUME NEW w \in Forks, NEW k \in SessionKeys, held'[w][k].kind # "none"
        PROVE  /\ held'[w][k].kind = held[w][k].kind
               /\ held[w][k].kind = "inflight" => held'[w][k] = held[w][k]
               /\ held[w][k].kind = "value" => held'[w][k].read = held[w][k].read
    <3>1. held'[w][k] = Older(held[w][k]) /\ held[w][k] \in HeldEntries
      BY <1>0, <2>1 DEF ReaderTypeOK
    <3>2. QED
      BY <2>3, <3>1 DEF Older, HeldEntries, StoredAnswers, NoEntry
  <2>4. ASSUME NEW b \in Browsers
        PROVE  IF jar[b].left > 1
               THEN jar'[b].stamp = jar[b].stamp /\ jar'[b].left = jar[b].left - 1
               ELSE jar'[b].stamp = 0 /\ jar'[b].left = 0
    BY <1>0, <2>1 DEF ReaderTypeOK
  <2>5. \A n \in Accounts : Used(n)' => Used(n) \/ n = 0
    BY <2>2, <2>3, <2>4 DEF Used
  <2>6. StampsAreNew'
    BY <1>0, <2>1, <2>5, StampsStayNew DEF ShowParts
  <2>7. WaitsForItsOwn'
    <3>1. ASSUME NEW w \in Forks, NEW k \in SessionKeys, held'[w][k].kind = "inflight"
          PROVE  LET f == sent'[held'[w][k].by] IN
                     f # NotOut /\ f.fork = w /\ f.key = k
      <4>1. held[w][k].kind = "inflight" /\ held'[w][k] = held[w][k]
        BY <2>3, <3>1
      <4>2. PICK r \in Fetches : r = held[w][k].by
        <5>1. held[w][k].by \in Fetches
          BY <1>0, <4>1, WaitsForAFetch
        <5>2. QED
          BY <5>1
      <4>3. sent[r] # NotOut /\ sent[r].fork = w /\ sent[r].key = k
        BY <4>1, <4>2 DEF ShowParts, WaitsForItsOwn
      <4>4. sent'[r] # NotOut /\ sent'[r].fork = w /\ sent'[r].key = k
        BY <2>2, <4>3
      <4>5. QED
        BY <4>1, <4>2, <4>4
    <3>2. QED
      BY <3>1 DEF WaitsForItsOwn
  <2>8. ASSUME NEW w \in Forks, NEW k \in SessionKeys, NEW a, Suits(w, k, a)
        PROVE  Suits(w, k, a)'
    BY <2>1, <2>4, <2>8 DEF Suits
  <2>9. AnswersSuit'
    <3>1. ASSUME NEW w \in Forks, NEW k \in SessionKeys, held'[w][k].kind = "value"
          PROVE  Suits(w, k, held'[w][k].read)
      BY <2>3, <3>1 DEF ShowParts, AnswersSuit
    <3>2. ASSUME NEW r \in Fetches, sent'[r].step = "told"
          PROVE  /\ sent'[r].fork \in Forks /\ sent'[r].key \in SessionKeys
                 /\ Suits(sent'[r].fork, sent'[r].key, sent'[r].read)
      <4>1. sent[r] # NotOut /\ sent[r].step = "told"
        BY <2>2, <3>2 DEF NotOut
      <4>2. sent[r].fork \in Forks /\ sent[r].key \in SessionKeys
        BY <1>0, <4>1 DEF ReaderTypeOK, FetchStates
      <4>3. QED
        BY <2>2, <4>1, <4>2 DEF ShowParts, AnswersSuit
    <3>3. QED
      BY <2>8, <3>1, <3>2 DEF AnswersSuit, Suits
  <2>10. StampOutlives'
    <3>1. /\ past'[1] = account
          /\ \A i \in Ticks : i # 1 => i - 1 \in Ticks /\ past'[i] = past[i - 1]
      BY <1>0, <1>7, ReaderAssumption DEF ReaderTick, ReaderTypeOK, Ticks
    <3>2. ASSUME NEW b \in Browsers, NEW i \in Ticks, i + jar'[b].left <= 2 * TTL_MS
          PROVE  known[b] <= past'[i]
      <4>1. jar[b].left \in Nat
        BY <1>0, ReaderAssumption DEF ReaderTypeOK
      <4>2. CASE i = 1
        BY <1>0, <3>1, <4>2
      <4>3. CASE i # 1
        <5>1. (i - 1) + jar[b].left <= 2 * TTL_MS
          BY <2>4, <3>2, <4>1, ReaderAssumption DEF Ticks
        <5>2. known[b] <= past[i - 1]
          BY <3>1, <4>3, <5>1 DEF ShowParts, StampOutlives
        <5>3. QED
          BY <3>1, <4>3, <5>2
      <4>4. QED
        BY <4>2, <4>3
    <3>3. ASSUME NEW b \in Browsers, jar'[b].stamp = 0
          PROVE  jar'[b].left = 0
      BY <2>4, <3>3 DEF ShowParts, StampOutlives
    <3>4. QED
      BY <2>1, <3>2, <3>3 DEF StampOutlives
  <2>11. QED
    BY <2>1, <2>6, <2>7, <2>9, <2>10 DEF ShowParts, TakenFirst
<1>8. CASE UNCHANGED rvars
  BY <1>8 DEF rvars, ShowParts, TakenFirst, StampsAreNew, Used, WaitsForItsOwn, AnswersSuit, Suits,
              StampOutlives
<1>9. QED
  BY <1>1, <1>2, <1>3, <1>4, <1>5, <1>6, <1>7, <1>8 DEF ReaderNext

LEMMA ShowMeans == ShowInv => WritesShow
<1> SUFFICES ASSUME ShowInv, NEW b \in Browsers, NEW w \in Forks, NEW scope \in Scopes,
                    NEW x \in Shown(b, w, scope)
             PROVE  /\ x.read >= known[b] \/ (x.out = TooLong /\ jar[b].stamp = 0)
                    /\ x.read >= forgot[w]
  BY DEF WritesShow
<1> USE DEF ShowInv
<1> DEFINE key == cacheKey(b, scope)
           e   == held[w][key]
<1>1. key \in SessionKeys /\ key[2] = jar[b].stamp /\ e \in HeldEntries
  BY DEF AgeInv, ReaderTypeOK, cacheKey, SessionKeys
<1>2. Suits(w, key, x.read)
  <2>1. CASE e.kind = "value"
    BY <1>1, <2>1 DEF Shown, ShowParts, AnswersSuit
  <2>2. CASE e.kind = "inflight"
    <3>1. PICK r \in Fetches : r = e.by /\ sent[r].step = "told" /\ x = sent[r]
      BY <1>1, <2>2 DEF Shown, HeldEntries, NoEntry, StoredAnswers
    <3>2. sent[r].fork = w /\ sent[r].key = key
      BY <1>1, <2>2, <3>1 DEF ShowParts, WaitsForItsOwn
    <3>3. QED
      BY <3>1, <3>2 DEF ShowParts, AnswersSuit
  <2>3. CASE e.kind \notin {"value", "inflight"}
    BY <2>3 DEF Shown
  <2>4. QED
    BY <2>1, <2>2, <2>3
<1>3. x.read \in Nat /\ known[b] \in Nat /\ forgot[w] \in Nat
  <2>1. known[b] \in Nat /\ forgot[w] \in Nat
    BY DEF AgeInv, ReaderTypeOK, Accounts
  <2>2. CASE e.kind = "value"
    <3>1. e \in StoredAnswers /\ x = e
      BY <1>1, <2>2 DEF Shown, HeldEntries, NoEntry
    <3>2. QED
      BY <2>1, <3>1, ReaderAssumption DEF StoredAnswers, Accounts, SignedOut
  <2>3. CASE e.kind = "inflight"
    <3>1. PICK r \in Fetches : sent[r].step = "told" /\ x = sent[r]
      BY <1>1, <2>3 DEF Shown, HeldEntries, NoEntry, StoredAnswers
    <3>2. QED
      BY <2>1, <3>1 DEF AgeInv, ReaderTypeOK, FetchStates, NotOut, Accounts
  <2>4. CASE e.kind \notin {"value", "inflight"}
    BY <2>4 DEF Shown
  <2>5. QED
    BY <2>2, <2>3, <2>4, <2>1
<1>4. known[b] <= x.read \/ (x.out = TooLong /\ jar[b].stamp = 0)
  <2>1. CASE jar[b].stamp # 0
    BY <1>1, <1>2, <2>1 DEF Suits
  <2>2. CASE jar[b].stamp = 0 /\ x.out # TooLong
    <3>1. TTL_MS + x.out \in Ticks /\ x.read >= past[TTL_MS + x.out]
      BY <2>2, ShownIsRecent
    <3>2. PICK i \in Ticks : i = TTL_MS + x.out
      BY <3>1
    <3>3. i + jar[b].left <= 2 * TTL_MS
      <4>1. jar[b].left = 0
        BY <2>2 DEF ShowParts, StampOutlives
      <4>2. QED
        BY <4>1, ReaderAssumption DEF Ticks
    <3>4. known[b] <= past[i] /\ past[i] \in Nat
      <4>1. past[i] \in Accounts
        BY DEF AgeInv, ReaderTypeOK, Ticks
      <4>2. QED
        BY <3>3, <4>1, ReaderAssumption DEF ShowParts, StampOutlives, Accounts
    <3>5. QED
      BY <1>3, <3>1, <3>2, <3>4
  <2>3. QED
    BY <2>1, <2>2
<1>5. QED
  BY <1>2, <1>3, <1>4 DEF Suits

\* Whoever saved something is shown it in the same browser, whichever worker answers, and
\* by the worker the write went through, whoever asks; once the stamp has run out, unless
\* the answer was fetched for longer than it is kept.
THEOREM WritesAreShown == ReaderSpec => []WritesShow
<1>1. ReaderInit => ShowInv
  BY AgeInit, ShowInit, Types DEF AgeInv, ShowInv
<1>2. ShowInv /\ [ReaderNext]_rvars => ShowInv'
  BY AgeNext, ShowNext, Types DEF AgeInv, ShowInv
<1>3. QED
  BY <1>1, <1>2, ShowMeans, PTL DEF ReaderSpec

-----------------------------------------------------------------------------
(***************************************************************************)
(* CorpusCache: the calls of a key keep apart.  A call that is out and not *)
(* overdue has the entry of its key, unless that had to make room; a key   *)
(* has one entry, and it is of the last call that was made for it.         *)
(***************************************************************************)

\* An entry that waits is of a call that is out, for its key.
EntriesAreOfCalls ==
    \A e \in store :
        /\ e.call \in 1 .. fetched
        /\ e.kind = "inflight" => e.call \in DOMAIN flight /\ flight[e.call].id = e.id

\* No call that is out for the key of an entry is later than the entry's own.
EntriesAreLast ==
    \A e \in store : \A n \in DOMAIN flight : flight[n].id = e.id => n <= e.call

TimelyCallsAreJoined ==
    \A n \in DOMAIN flight \ crowded : flight[n].age < inflightTimeoutMs =>
        \E e \in store : e.kind = "inflight" /\ e.call = n

CorpusInv ==
    /\ CorpusTypeOK /\ EntriesAreOfCalls /\ EntriesAreLast /\ TimelyCallsAreJoined

\* What gc drops is a call that has been crowded out, an old answer or overdue.
LEMMA GcLeaves ==
    ASSUME CorpusInv, NEW k \in Ids, Fetch(k)
    PROVE  /\ gc \subseteq store /\ crowded \subseteq crowded' /\ crowded' \subseteq 1 .. fetched
           /\ \A n \in DOMAIN flight \ crowded' : flight[n].age < inflightTimeoutMs =>
                \E e \in gc : e.kind = "inflight" /\ e.call = n
<1>1. gc \subseteq Live /\ Live \subseteq store
  BY DEF gc, Live
<1>2. crowded' = crowded \cup {e.call : e \in Live \ gc}
  BY DEF Fetch
<1>3. ASSUME NEW n \in DOMAIN flight \ crowded', flight[n].age < inflightTimeoutMs
      PROVE  \E e \in gc : e.kind = "inflight" /\ e.call = n
  <2>1. PICK e \in store : e.kind = "inflight" /\ e.call = n
    BY <1>2, <1>3 DEF CorpusInv, TimelyCallsAreJoined
  <2>2. e \in Live
    BY <1>3, <2>1 DEF Live, Lives
  <2>3. e \in gc
    BY <1>2, <1>3, <2>1, <2>2
  <2> QED  BY <2>1, <2>3
<1>4. crowded' \subseteq 1 .. fetched
  <2>1. ASSUME NEW e \in Live \ gc PROVE e.call \in 1 .. fetched
    BY <1>1 DEF CorpusInv, EntriesAreOfCalls
  <2>2. crowded \subseteq 1 .. fetched
    BY DEF CorpusInv, CorpusTypeOK
  <2> QED  BY <1>2, <2>1, <2>2
<1> QED  BY <1>1, <1>2, <1>3, <1>4

\* A call that is joined, or an answer that is kept, serves.
LEMMA FetchServed ==
    ASSUME CorpusInv, NEW k \in Ids, Fetch(k), \E e \in gc : e.id = k
    PROVE  CorpusInv'
<1>1. store' = gc /\ UNCHANGED <<flight, fetched>>
  BY DEF Fetch, fetch
<1>2. CorpusTypeOK'
  BY <1>1, GcLeaves DEF CorpusInv, CorpusTypeOK
<1>3. EntriesAreOfCalls' /\ EntriesAreLast'
  BY <1>1, GcLeaves DEF CorpusInv, EntriesAreOfCalls, EntriesAreLast
<1>4. TimelyCallsAreJoined'
  BY <1>1, GcLeaves DEF TimelyCallsAreJoined
<1> QED  BY <1>2, <1>3, <1>4 DEF CorpusInv

\* A call that goes out has the entry of its key, and there was no other.
LEMMA FetchSent ==
    ASSUME CorpusInv, NEW k \in Ids, Fetch(k), ~\E e \in gc : e.id = k
    PROVE  CorpusInv'
<1> DEFINE n == fetched + 1
           x == [id |-> k, kind |-> "inflight", call |-> n, left |-> 0]
<1>1. /\ fetched < MaxFetches /\ fetched' = n /\ store' = gc \cup {x}
      /\ flight' = [m \in DOMAIN flight \cup {n} |->
                      IF m = n THEN [id |-> k, age |-> 0] ELSE flight[m]]
  BY DEF Fetch, fetch
<1>2. fetched \in Nat /\ n \in 1 .. MaxFetches /\ n \notin 1 .. fetched /\ 1 .. fetched \subseteq 1 .. n
  BY <1>1, CorpusAssumption DEF CorpusInv, CorpusTypeOK
<1>3. x \in MapEntry /\ x.id = k /\ x.call = n /\ x.kind = "inflight"
  BY <1>2, CorpusAssumption DEF MapEntry
<1> HIDE DEF x
<1>4. /\ gc \subseteq store /\ crowded \subseteq crowded' /\ crowded' \subseteq 1 .. fetched
      /\ \A m \in DOMAIN flight \ crowded' : flight[m].age < inflightTimeoutMs =>
           \E e \in gc : e.kind = "inflight" /\ e.call = m
  BY GcLeaves
<1>5. /\ DOMAIN flight' = DOMAIN flight \cup {n} /\ DOMAIN flight \subseteq 1 .. fetched
      /\ flight'[n] = [id |-> k, age |-> 0]
      /\ \A m \in DOMAIN flight : m # n /\ flight'[m] = flight[m]
  BY <1>1, <1>2 DEF CorpusInv, CorpusTypeOK
<1>6. CorpusTypeOK'
  <2>1. store' \subseteq MapEntry /\ \A d, e \in store' : d.id = e.id => d = e
    BY <1>1, <1>3, <1>4 DEF CorpusInv, CorpusTypeOK
  <2>2. [id |-> k, age |-> 0] \in [id : Ids, age : 0 .. inflightTimeoutMs]
    BY CorpusAssumption
  <2>3. \A m \in DOMAIN flight' : flight'[m] \in [id : Ids, age : 0 .. inflightTimeoutMs]
    BY <1>5, <2>2 DEF CorpusInv, CorpusTypeOK
  <2>4. fetched' \in 0 .. MaxFetches /\ DOMAIN flight' \subseteq 1 .. fetched' /\ crowded' \subseteq 1 .. fetched'
    BY <1>1, <1>2, <1>4, <1>5
  <2> QED  BY <2>1, <2>3, <2>4 DEF CorpusTypeOK
<1>7. EntriesAreOfCalls'
  <2>1. ASSUME NEW e \in gc
        PROVE  /\ e.call \in 1 .. n
               /\ e.kind = "inflight" => e.call \in DOMAIN flight' /\ flight'[e.call].id = e.id
    BY <1>2, <1>4, <1>5 DEF CorpusInv, EntriesAreOfCalls
  <2>2. x.call \in 1 .. n /\ x.call \in DOMAIN flight' /\ flight'[x.call].id = x.id
    BY <1>2, <1>3, <1>5
  <2> QED  BY <1>1, <2>1, <2>2 DEF EntriesAreOfCalls
<1>8. EntriesAreLast'
  <2>1. ASSUME NEW e \in gc, NEW m \in DOMAIN flight', flight'[m].id = e.id PROVE m <= e.call
    <3>1. m # n
      BY <1>5, <2>1
    <3> QED  BY <1>4, <1>5, <2>1, <3>1 DEF CorpusInv, EntriesAreLast
  <2>2. \A m \in DOMAIN flight' : m <= x.call
    BY <1>2, <1>3, <1>5
  <2> QED  BY <1>1, <2>1, <2>2 DEF EntriesAreLast
<1>9. TimelyCallsAreJoined'
  <2>1. ASSUME NEW m \in DOMAIN flight \ crowded', flight'[m].age < inflightTimeoutMs
        PROVE  \E e \in store' : e.kind = "inflight" /\ e.call = m
    BY <1>1, <1>4, <1>5, <2>1
  <2>2. \E e \in store' : e.kind = "inflight" /\ e.call = n
    BY <1>1, <1>3
  <2> QED  BY <1>5, <2>1, <2>2 DEF TimelyCallsAreJoined
<1> QED  BY <1>6, <1>7, <1>8, <1>9 DEF CorpusInv

\* A call that ends, late or not, sees to its own entry alone.
LEMMA EndKeeps ==
    ASSUME CorpusInv, NEW n \in DOMAIN flight, CallEnds(n)
    PROVE  CorpusInv'
<1>1. /\ UNCHANGED <<fetched, crowded>>
      /\ DOMAIN flight' = DOMAIN flight \ {n} /\ \A m \in DOMAIN flight' : flight'[m] = flight[m]
  BY DEF CallEnds, Ends
<1>2. ASSUME NEW e \in store'
      PROVE  /\ e \in MapEntry
             /\ \E d \in store : /\ e.id = d.id /\ e.call = d.call
                                 /\ d.kind = "inflight" /\ d.call = n => e.kind = "value" /\ e.left = ttlMs
                                 /\ ~(d.kind = "inflight" /\ d.call = n) => e = d
  <2>1. CASE store' = answered(n)
    <3>1. PICK d \in store : e = IF d.kind = "inflight" /\ d.call = n
                                   THEN [d EXCEPT !.kind = "value", !.left = ttlMs] ELSE d
      BY <1>2, <2>1 DEF answered
    <3>2. d \in MapEntry /\ ttlMs \in 0 .. ttlMs
      BY CorpusAssumption DEF CorpusInv, CorpusTypeOK
    <3>3. CASE d.kind = "inflight" /\ d.call = n
      BY <3>1, <3>2, <3>3 DEF MapEntry
    <3>4. CASE ~(d.kind = "inflight" /\ d.call = n)
      BY <3>1, <3>2, <3>4
    <3> QED  BY <3>3, <3>4
  <2>2. CASE store' = cleared(n)
    <3>1. e \in store /\ ~(e.kind = "inflight" /\ e.call = n)
      BY <1>2, <2>2 DEF cleared
    <3> QED  BY <3>1 DEF CorpusInv, CorpusTypeOK
  <2> QED  BY <2>1, <2>2 DEF CallEnds
<1>3. \A d \in store : ~(d.kind = "inflight" /\ d.call = n) => d \in store'
  BY DEF CallEnds, answered, cleared
<1>4. CorpusTypeOK'
  <2>1. ASSUME NEW e \in store', NEW f \in store', e.id = f.id PROVE e = f
    <3>1. PICK d \in store : /\ e.id = d.id /\ e.call = d.call
                             /\ d.kind = "inflight" /\ d.call = n => e.kind = "value" /\ e.left = ttlMs
                             /\ ~(d.kind = "inflight" /\ d.call = n) => e = d
      BY <1>2
    <3>2. PICK c \in store : /\ f.id = c.id /\ f.call = c.call
                             /\ c.kind = "inflight" /\ c.call = n => f.kind = "value" /\ f.left = ttlMs
                             /\ ~(c.kind = "inflight" /\ c.call = n) => f = c
      BY <1>2
    <3>3. d = c
      BY <2>1, <3>1, <3>2 DEF CorpusInv, CorpusTypeOK
    <3>4. e \in MapEntry /\ f \in MapEntry
      BY <1>2
    <3>5. e.call = f.call /\ (e = f \/ (e.kind = f.kind /\ e.left = f.left))
      BY <3>1, <3>2, <3>3
    <3> QED  BY <2>1, <3>4, <3>5 DEF MapEntry
  <2> QED  BY <1>1, <1>2, <2>1 DEF CorpusInv, CorpusTypeOK
<1>5. EntriesAreOfCalls'
  <2>1. ASSUME NEW e \in store'
        PROVE  /\ e.call \in 1 .. fetched
               /\ e.kind = "inflight" => e.call \in DOMAIN flight' /\ flight'[e.call].id = e.id
    <3>1. PICK d \in store : /\ e.id = d.id /\ e.call = d.call
                             /\ d.kind = "inflight" /\ d.call = n => e.kind = "value"
                             /\ ~(d.kind = "inflight" /\ d.call = n) => e = d
      BY <1>2
    <3>2. d.call \in 1 .. fetched
      BY DEF CorpusInv, EntriesAreOfCalls
    <3>3. ASSUME e.kind = "inflight" PROVE d.call \in DOMAIN flight /\ d.call # n /\ flight[d.call].id = d.id
      BY <3>1, <3>3 DEF CorpusInv, EntriesAreOfCalls
    <3> QED  BY <1>1, <3>1, <3>2, <3>3
  <2> QED  BY <1>1, <2>1 DEF EntriesAreOfCalls
<1>6. EntriesAreLast'
  BY <1>1, <1>2 DEF CorpusInv, EntriesAreLast
<1>7. TimelyCallsAreJoined'
  <2>1. ASSUME NEW m \in DOMAIN flight' \ crowded', flight'[m].age < inflightTimeoutMs
        PROVE  \E e \in store' : e.kind = "inflight" /\ e.call = m
    <3>1. PICK e \in store : e.kind = "inflight" /\ e.call = m
      BY <1>1, <2>1 DEF CorpusInv, TimelyCallsAreJoined
    <3> QED  BY <1>1, <1>3, <2>1, <3>1
  <2> QED  BY <2>1 DEF TimelyCallsAreJoined
<1> QED  BY <1>4, <1>5, <1>6, <1>7 DEF CorpusInv

\* Time makes answers old and calls overdue.
LEMMA TickKeeps ==
    ASSUME CorpusInv, CacheTick
    PROVE  CorpusInv'
<1>1. /\ UNCHANGED <<fetched, crowded>>
      /\ DOMAIN flight' = DOMAIN flight
  BY DEF CacheTick
<1>2. ASSUME NEW n \in DOMAIN flight
      PROVE  /\ flight'[n].id = flight[n].id
             /\ flight'[n] \in [id : Ids, age : 0 .. inflightTimeoutMs]
             /\ flight'[n].age < inflightTimeoutMs => flight[n].age < inflightTimeoutMs
  <2> DEFINE a == flight[n].age
             b == IF a < inflightTimeoutMs THEN a + 1 ELSE a
  <2>1. flight'[n] = [flight[n] EXCEPT !.age = b]
    BY DEF CacheTick
  <2>2. flight[n] \in [id : Ids, age : 0 .. inflightTimeoutMs] /\ a \in 0 .. inflightTimeoutMs
    BY DEF CorpusInv, CorpusTypeOK
  <2>3. b \in 0 .. inflightTimeoutMs /\ (b < inflightTimeoutMs => a < inflightTimeoutMs)
    BY <2>2, CorpusAssumption
  <2> HIDE DEF b
  <2> QED  BY <2>1, <2>2, <2>3
<1>3. ASSUME NEW d \in MapEntry
      PROVE  LET e == [d EXCEPT !.left = IF d.left > 0 THEN d.left - 1 ELSE 0]
             IN  e \in MapEntry /\ e.id = d.id /\ e.kind = d.kind /\ e.call = d.call
  <2> DEFINE l == IF d.left > 0 THEN d.left - 1 ELSE 0
  <2>1. l \in 0 .. ttlMs
    <3>1. d.left \in 0 .. ttlMs
      BY DEF MapEntry
    <3> QED  BY <3>1, CorpusAssumption
  <2> HIDE DEF l
  <2>2. LET e == [d EXCEPT !.left = l]
        IN  e \in MapEntry /\ e.id = d.id /\ e.kind = d.kind /\ e.call = d.call
    BY <2>1 DEF MapEntry
  <2> QED  BY <2>2 DEF l
<1>4. store' = {[d EXCEPT !.left = IF d.left > 0 THEN d.left - 1 ELSE 0] : d \in store}
  BY DEF CacheTick
<1>5. \A d \in store : d \in MapEntry
  BY DEF CorpusInv, CorpusTypeOK
<1>6. \A e \in store' : e \in MapEntry /\ \E d \in store :
          /\ e = [d EXCEPT !.left = IF d.left > 0 THEN d.left - 1 ELSE 0]
          /\ e.id = d.id /\ e.kind = d.kind /\ e.call = d.call
  <2> TAKE e \in store'
  <2>1. PICK d \in store : e = [d EXCEPT !.left = IF d.left > 0 THEN d.left - 1 ELSE 0]
    BY <1>4
  <2> QED  BY <1>3, <1>5, <2>1
<1>7. \A d \in store : \E e \in store' : e.id = d.id /\ e.kind = d.kind /\ e.call = d.call
  BY <1>3, <1>4, <1>5
<1>8. CorpusTypeOK'
  <2>1. \A d, e \in store' : d.id = e.id => d = e
    BY <1>6 DEF CorpusInv, CorpusTypeOK
  <2>2. store' \subseteq MapEntry
    BY <1>6
  <2>3. \A n \in DOMAIN flight' : flight'[n] \in [id : Ids, age : 0 .. inflightTimeoutMs]
    BY <1>1, <1>2
  <2> QED  BY <1>1, <2>1, <2>2, <2>3 DEF CorpusInv, CorpusTypeOK
<1>9. EntriesAreOfCalls'
  <2>1. ASSUME NEW e \in store'
        PROVE  /\ e.call \in 1 .. fetched
               /\ e.kind = "inflight" => e.call \in DOMAIN flight' /\ flight'[e.call].id = e.id
    <3>1. PICK d \in store : e.id = d.id /\ e.kind = d.kind /\ e.call = d.call
      BY <1>6
    <3> QED  BY <1>1, <1>2, <3>1 DEF CorpusInv, EntriesAreOfCalls
  <2> QED  BY <1>1, <2>1 DEF EntriesAreOfCalls
<1>10. EntriesAreLast'
  BY <1>1, <1>2, <1>6 DEF CorpusInv, EntriesAreLast
<1>11. TimelyCallsAreJoined'
  BY <1>1, <1>2, <1>7 DEF CorpusInv, TimelyCallsAreJoined
<1> QED  BY <1>8, <1>9, <1>10, <1>11 DEF CorpusInv

LEMMA CorpusIsInvariant == CorpusSpec => []CorpusInv
<1>1. CorpusInit => CorpusInv
  BY CorpusAssumption DEF CorpusInit, CorpusInv, CorpusTypeOK, EntriesAreOfCalls, EntriesAreLast,
     TimelyCallsAreJoined
<1>2. CorpusInv /\ [CorpusNext]_cvars => CorpusInv'
  <2> SUFFICES ASSUME CorpusInv, [CorpusNext]_cvars PROVE CorpusInv'
    OBVIOUS
  <2>1. CASE UNCHANGED cvars
    BY <2>1 DEF cvars, CorpusInv, CorpusTypeOK, EntriesAreOfCalls, EntriesAreLast,
       TimelyCallsAreJoined
  <2> QED  BY <2>1, FetchServed, FetchSent, EndKeeps, TickKeeps DEF CorpusNext
<1> QED  BY <1>1, <1>2, PTL DEF CorpusSpec

LEMMA CallsAreApart == CorpusInv => CallsKeepApart
<1> SUFFICES ASSUME CorpusInv PROVE CallsKeepApart
  OBVIOUS
<1>1. LastCallIsKept
  <2>1. ASSUME NEW e \in store, NEW n \in CallsFor(e.id) PROVE n <= e.call
    <3>1. CASE n \in DOMAIN flight /\ flight[n].id = e.id
      BY <3>1 DEF CorpusInv, EntriesAreLast
    <3>2. ASSUME NEW d \in store, d.id = e.id, n = d.call PROVE n <= e.call
      <4>1. d = e /\ e \in MapEntry
        BY <3>2 DEF CorpusInv, CorpusTypeOK
      <4>2. e.call \in Nat
        BY <4>1, CorpusAssumption DEF MapEntry
      <4> QED  BY <3>2, <4>1, <4>2
    <3> QED  BY <3>1, <3>2 DEF CallsFor
  <2> QED  BY <2>1 DEF LastCallIsKept
<1>2. ASSUME NEW k \in Ids,
             NEW timely, timely = {n \in DOMAIN flight \ crowded :
                                     flight[n].id = k /\ flight[n].age < inflightTimeoutMs}
      PROVE  Cardinality(timely) <= 1
  <2>1. ASSUME NEW m \in timely, NEW n \in timely PROVE m = n
    <3>1. PICK d \in store : d.kind = "inflight" /\ d.call = m
      BY <1>2 DEF CorpusInv, TimelyCallsAreJoined
    <3>2. PICK e \in store : e.kind = "inflight" /\ e.call = n
      BY <1>2 DEF CorpusInv, TimelyCallsAreJoined
    <3>3. d.id = k /\ e.id = k
      BY <1>2, <3>1, <3>2 DEF CorpusInv, EntriesAreOfCalls
    <3> QED  BY <3>1, <3>2, <3>3 DEF CorpusInv, CorpusTypeOK
  <2>2. CASE timely = {}
    BY <2>2, FS_EmptySet
  <2>3. ASSUME NEW n \in timely PROVE Cardinality(timely) <= 1
    <3>1. timely = {n}
      BY <2>1
    <3>2. Cardinality(timely) = 1
      BY <3>1, FS_Singleton
    <3> QED  BY <3>2
  <2> QED  BY <2>2, <2>3
<1>3. OneCallAtATime
  BY <1>2 DEF OneCallAtATime
<1> QED  BY <1>1, <1>3 DEF CallsKeepApart

\* The calls that a server-side render makes for a key never get in each other's way,
\* however many are given up on and whenever they come back, for a cache of any size
\* and any times.
THEOREM CallsAreKeptApart == CorpusSpec => []CallsKeepApart
BY CorpusIsInvariant, CallsAreApart, PTL

-----------------------------------------------------------------------------
(***************************************************************************)
(* ApiAccess: what is read and cached has the form it should.  A quota is  *)
(* held against a number because the row of a tier has one, wherever it    *)
(* was copied to.                                                          *)
(***************************************************************************)

QuotaOf(q) ==
    /\ q.stage = "tiers" /\ q.read # Absent => q.read.n \in Limits
    /\ q.stage = "tiers" => q.user # Absent
    /\ q.stage \in {"usage", "serve", "count"} => q.limit \in Limits

QuotasAreNumbers ==
    /\ row["tiers"].n \in Limits
    /\ \A p \in Procs : cache[p]["tiers"] # Absent => cache[p]["tiers"].row.n \in Limits
    /\ \A r \in Requests : QuotaOf(request[r])

AccessForm == AccessTypeOK /\ QuotasAreNumbers

\* What is not absent was read.
LEMMA PresentRows ==
    /\ \A d \in ThingRows \cup {Absent} : d # Absent <=> d \in ThingRows
    /\ \A d \in ThingRows \cup {Absent, Saved} : d \notin {Absent, Saved} <=> d \in ThingRows
    /\ Absent # Saved
    /\ \A e \in CacheEntries : e # Absent =>
         e = [kind |-> "cached", row |-> e.row, left |-> e.left] /\ e.row \in ThingRows /\ e.left \in 1 .. AUTH_TTL
    /\ \A d \in ThingRows, t \in 1 .. AUTH_TTL :
         /\ [kind |-> "cached", row |-> d, left |-> t] \in CacheEntries
         /\ [kind |-> "cached", row |-> d, left |-> t] # Absent
    /\ \A q \in {Free} \cup Underway : q # Free <=> q \in Underway
    /\ \A q \in {Free} \cup Underway : q.stage # "free" <=> q # Free
BY DEF ThingRows, Absent, Saved, CacheEntries, Free, Underway, Things

LEMMA RowsOfThings ==
    ASSUME AccessTypeOK, NEW x \in Things
    PROVE  /\ row[x] \in ThingRows /\ row[x].v \in 0 .. MaxVersion
           /\ \A p \in Procs : cache[p][x] \in CacheEntries
BY DEF AccessTypeOK, ThingRows

\* What a request becomes when it has what it asked for.
LEMMA ProceedsTo ==
    ASSUME AccessTypeOK, NEW r \in Requests, request[r].stage \in Things, NEW d \in ThingRows,
           request[r].stage = "tiers" => d.n \in Limits /\ request[r].user # Absent
    PROVE  /\ Proceed(r, d) \in Underway
           /\ Proceed(r, d).read = Absent
           /\ Proceed(r, d).on = request[r].on /\ Proceed(r, d).late = request[r].late
           /\ Proceed(r, d).stage \in {"user", "tiers", "usage"}
           /\ Proceed(r, d).stage = "tiers" => Proceed(r, d).user # Absent
           /\ Proceed(r, d).stage = "usage" => Proceed(r, d).limit \in Limits
<1> DEFINE q == request[r]
<1>1. q \in Underway
  BY PresentRows DEF AccessTypeOK, Things
<1>2. q.user \in ThingRows \cup {Absent} /\ d # Absent /\ d.n \in Limits \cup {NoLimit}
  BY <1>1, PresentRows DEF Underway, ThingRows
<1>3. CASE q.stage = "key"
  <2>1. Proceed(r, d) = [q EXCEPT !.stage = "user", !.read = Absent]
    BY <1>3 DEF Proceed
  <2> QED  BY <1>1, <2>1 DEF Underway, Things
<1>4. CASE q.stage = "user"
  <2>1. Proceed(r, d) = [q EXCEPT !.stage = "tiers", !.read = Absent, !.user = d]
    BY <1>4 DEF Proceed
  <2> QED  BY <1>1, <1>2, <2>1 DEF Underway, Things
<1>5. CASE q.stage = "tiers"
  <2>1. Proceed(r, d) = [q EXCEPT !.stage = "usage", !.read = Absent, !.user = Absent,
                                  !.limit = resolveQuotaLimit(q.user, d)]
    BY <1>5 DEF Proceed
  <2>2. q.user \in ThingRows
    BY <1>2, <1>5, PresentRows
  <2>3. resolveQuotaLimit(q.user, d) \in Limits
    BY <1>5, <2>2 DEF resolveQuotaLimit, ThingRows
  <2> QED  BY <1>1, <2>1, <2>3 DEF Underway, Things
<1> QED  BY <1>3, <1>4, <1>5 DEF Things

LEMMA FormInit == AccessInit => AccessForm
<1> SUFFICES ASSUME AccessInit PROVE AccessForm
  OBVIOUS
<1>1. PICK n \in Limits : row = [x \in Things |-> [v |-> 0, alive |-> TRUE,
                                  n |-> IF x = "tiers" THEN n ELSE NoLimit]]
  BY DEF AccessInit
<1>2. row \in [Things -> ThingRows] /\ row["tiers"].n \in Limits
  BY <1>1, AccessAssumption DEF Things, ThingRows
<1>3. before \in [1 .. AUTH_TTL + 1 -> [Things -> 0 .. MaxVersion]]
  BY AccessAssumption DEF AccessInit
<1>4. shown \in [Procs -> [Things -> 0 .. MaxVersion]]
  BY AccessAssumption DEF AccessInit
<1>5. usage \in 0 .. MaxAnswers /\ answers = usage /\ lost = 0
  BY <1>2, AccessAssumption DEF AccessInit
<1>6. {usage, answers, lost} \subseteq 0 .. MaxAnswers
  BY <1>5, AccessAssumption
<1> QED  BY <1>2, <1>3, <1>4, <1>6 DEF AccessInit, AccessForm, AccessTypeOK, QuotasAreNumbers, QuotaOf,
                                        CacheEntries, Things, Free

\* The requests are as they should be when the one that moved is.
LEMMA OneMoved ==
    ASSUME AccessForm, NEW r \in Requests, NEW q \in {Free} \cup Underway, QuotaOf(q),
           request' = [request EXCEPT ![r] = q]
    PROVE  /\ request' \in [Requests -> {Free} \cup Underway]
           /\ \A s \in Requests : QuotaOf(request'[s])
<1>1. request \in [Requests -> {Free} \cup Underway] /\ \A s \in Requests : QuotaOf(request[s])
  BY DEF AccessForm, AccessTypeOK, QuotasAreNumbers
<1>2. \A s \in Requests : request'[s] = IF s = r THEN q ELSE request[s]
  BY <1>1
<1> QED  BY <1>1, <1>2

LEMMA QuotaOfFree == Free \in {Free} \cup Underway /\ QuotaOf(Free)
BY DEF QuotaOf, Free

LEMMA UnderwayOf ==
    ASSUME AccessForm, NEW r \in Requests, request[r].stage # "free"
    PROVE  request[r] \in Underway /\ QuotaOf(request[r])
BY PresentRows DEF AccessForm, AccessTypeOK, QuotasAreNumbers

LEMMA FormRequests ==
    ASSUME AccessForm, NEW r \in Requests,
           \/ \E p \in Procs : Arrives(r, p)
           \/ CacheHit(r) \/ ReadsRow(r) \/ CachesRow(r) \/ rateLimitApiQuota(r)
    PROVE  AccessForm'
<1> DEFINE q == request[r]
<1>0. AccessTypeOK /\ QuotasAreNumbers
  BY DEF AccessForm
<1>a. ASSUME NEW p \in Procs, Arrives(r, p) PROVE AccessForm'
  <2> DEFINE new == [stage |-> "key", on |-> p, read |-> Absent, user |-> Absent,
                     limit |-> NoLimit, late |-> FALSE]
  <2>1. new \in Underway /\ QuotaOf(new)
    BY DEF Underway, Things, QuotaOf
  <2>2. request' = [request EXCEPT ![r] = new]
    BY <1>a DEF Arrives
  <2>3. request' \in [Requests -> {Free} \cup Underway] /\ \A s \in Requests : QuotaOf(request'[s])
    BY <2>1, <2>2, OneMoved
  <2> QED  BY <1>0, <1>a, <2>3 DEF Arrives, AccessForm, AccessTypeOK, QuotasAreNumbers
<1>b. CASE CacheHit(r)
  <2> DEFINE d == cache[q.on][q.stage].row
  <2>1. q.stage \in Things /\ q \in Underway
    BY <1>b, UnderwayOf DEF CacheHit, Things
  <2>2. q.on \in Procs /\ cache[q.on][q.stage] # Absent
    BY <1>b, <2>1 DEF CacheHit, Underway
  <2>3. d \in ThingRows
    BY <1>0, <2>1, <2>2, RowsOfThings, PresentRows
  <2>4. q.stage = "tiers" => d.n \in Limits /\ q.user # Absent
    BY <1>0, <2>2 DEF QuotasAreNumbers, QuotaOf
  <2>5. Proceed(r, d) \in {Free} \cup Underway /\ QuotaOf(Proceed(r, d))
    BY <1>0, <2>1, <2>3, <2>4, ProceedsTo DEF QuotaOf
  <2>6. request' = [request EXCEPT ![r] = Proceed(r, d)]
    BY <1>b DEF CacheHit
  <2>7. request' \in [Requests -> {Free} \cup Underway] /\ \A s \in Requests : QuotaOf(request'[s])
    BY <2>5, <2>6, OneMoved
  <2> QED  BY <1>0, <1>b, <2>7 DEF CacheHit, AccessForm, AccessTypeOK, QuotasAreNumbers
<1>c. CASE ReadsRow(r)
  <2> DEFINE new == [q EXCEPT !.read = row[q.stage]]
  <2>1. q.stage \in Things /\ q \in Underway /\ QuotaOf(q)
    BY <1>c, UnderwayOf DEF ReadsRow, Things
  <2>2. row[q.stage] \in ThingRows /\ row["tiers"].n \in Limits
    BY <1>0, <2>1, RowsOfThings DEF QuotasAreNumbers
  <2>3. new \in Underway
    BY <2>1, <2>2 DEF Underway
  <2>4. new.stage = q.stage /\ new.user = q.user /\ new.read = row[q.stage]
    BY <2>1 DEF Underway
  <2>5. QuotaOf(new)
    BY <2>1, <2>2, <2>4 DEF QuotaOf, Things
  <2>6. request' = [request EXCEPT ![r] = new]
    BY <1>c DEF ReadsRow
  <2>7. request' \in [Requests -> {Free} \cup Underway] /\ \A s \in Requests : QuotaOf(request'[s])
    BY <2>3, <2>5, <2>6, OneMoved
  <2> QED  BY <1>0, <1>c, <2>7 DEF ReadsRow, AccessForm, AccessTypeOK, QuotasAreNumbers
<1>d. CASE CachesRow(r)
  <2>1. q.stage \in Things /\ q \in Underway /\ QuotaOf(q)
    BY <1>d, UnderwayOf DEF CachesRow, Things
  <2>2. q.read \in ThingRows /\ q.on \in Procs
    BY <1>d, <2>1, PresentRows DEF CachesRow, Underway
  <2>3. CASE q.read.alive
    <3> DEFINE e == [kind |-> "cached", row |-> q.read, left |-> AUTH_TTL]
    <3>1. q.stage = "tiers" => q.read.n \in Limits /\ q.user # Absent
      BY <2>1, <1>d DEF QuotaOf, CachesRow
    <3>2. Proceed(r, q.read) \in {Free} \cup Underway /\ QuotaOf(Proceed(r, q.read))
      BY <1>0, <2>1, <2>2, <3>1, ProceedsTo DEF QuotaOf
    <3>3. request' = [request EXCEPT ![r] = Proceed(r, q.read)]
      BY <1>d, <2>3 DEF CachesRow
    <3>4. request' \in [Requests -> {Free} \cup Underway] /\ \A s \in Requests : QuotaOf(request'[s])
      BY <3>2, <3>3, OneMoved
    <3>5. cache' = [cache EXCEPT ![q.on][q.stage] = e]
      BY <1>d, <2>3 DEF CachesRow
    <3>6. e \in CacheEntries /\ e.row = q.read
      BY <2>2, AccessAssumption, PresentRows
    <3>7. cache \in [Procs -> [Things -> CacheEntries]]
      BY <1>0 DEF AccessTypeOK
    <3> HIDE DEF e
    <3>8. cache' \in [Procs -> [Things -> CacheEntries]]
      BY <2>1, <2>2, <3>5, <3>6, <3>7
    <3>9. \A p \in Procs : cache'[p]["tiers"] # Absent => cache'[p]["tiers"].row.n \in Limits
      BY <1>0, <2>1, <2>2, <3>1, <3>5, <3>6, <3>7 DEF QuotasAreNumbers, Things
    <3> QED  BY <1>0, <1>d, <3>4, <3>8, <3>9 DEF CachesRow, AccessForm, AccessTypeOK, QuotasAreNumbers
  <2>4. CASE ~q.read.alive
    <3>1. request' = [request EXCEPT ![r] = Free] /\ cache' = cache
      BY <1>d, <2>4 DEF CachesRow
    <3>2. request' \in [Requests -> {Free} \cup Underway] /\ \A s \in Requests : QuotaOf(request'[s])
      BY <3>1, QuotaOfFree, OneMoved
    <3> QED  BY <1>0, <1>d, <3>1, <3>2 DEF CachesRow, AccessForm, AccessTypeOK, QuotasAreNumbers
  <2> QED  BY <2>3, <2>4
<1>e. CASE rateLimitApiQuota(r)
  <2> DEFINE new == IF usage >= q.limit THEN Free ELSE [q EXCEPT !.stage = "serve"]
  <2>1. q \in Underway /\ QuotaOf(q) /\ q.stage = "usage"
    BY <1>e, UnderwayOf DEF rateLimitApiQuota
  <2>2. new \in {Free} \cup Underway
    BY <2>1 DEF Underway
  <2>3. QuotaOf(new)
    BY <2>1, QuotaOfFree DEF QuotaOf, Underway
  <2>4. request' = [request EXCEPT ![r] = new]
    BY <1>e DEF rateLimitApiQuota
  <2>7. request' \in [Requests -> {Free} \cup Underway] /\ \A s \in Requests : QuotaOf(request'[s])
    BY <2>2, <2>3, <2>4, OneMoved
  <2> QED  BY <1>0, <1>e, <2>7 DEF rateLimitApiQuota, AccessForm, AccessTypeOK, QuotasAreNumbers
<1> QED  BY <1>a, <1>b, <1>c, <1>d, <1>e(***************************************************************************)
(* The quota.  Every answer that counts has been counted, was lost or is   *)
(* about to be counted; and a request passes the check only while what is  *)
(* counted, with all who have passed before it, leaves it room.            *)
(***************************************************************************)

Answered == {r \in Requests : request[r].stage = "count"}
Passed == {r \in Requests : request[r].stage \in {"serve", "count"}}

AnswersAreCounted == answers = usage + lost + Cardinality(Answered)

FewHavePassed ==
    \E top \in Limits : usage + Cardinality(Passed) <= top + Cardinality(Requests) - 1

Counts == AnswersAreCounted /\ FewHavePassed

LEMMA CountsAreFinite ==
    /\ Cardinality(Requests) \in Nat \ {0}
    /\ IsFiniteSet(Answered) /\ Cardinality(Answered) \in Nat
    /\ IsFiniteSet(Passed) /\ Cardinality(Passed) \in Nat
    /\ Cardinality(Passed) <= Cardinality(Requests)
    /\ IsFiniteSet(Answered') /\ Cardinality(Answered') \in Nat
    /\ IsFiniteSet(Passed') /\ Cardinality(Passed') \in Nat
    /\ Cardinality(Passed') <= Cardinality(Requests)
<1>1. IsFiniteSet(Requests) /\ Requests # {}
  BY AccessAssumption
<1>2. Cardinality(Requests) \in Nat /\ Cardinality(Requests) # 0
  BY <1>1, FS_EmptySet, FS_CardinalityType
<1>3. Answered \subseteq Requests /\ Passed \subseteq Requests
      /\ Answered' \subseteq Requests /\ Passed' \subseteq Requests
  BY DEF Answered, Passed
<1>4. \A S \in SUBSET Requests : IsFiniteSet(S) /\ Cardinality(S) <= Cardinality(Requests) /\ Cardinality(S) \in Nat
  BY <1>1, FS_Subset, FS_CardinalityType
<1> QED  BY <1>2, <1>3, <1>4

\* One request moves.
LEMMA CountsMove ==
    ASSUME AccessForm, NEW r \in Requests, NEW q, request' = [request EXCEPT ![r] = q]
    PROVE  /\ Answered' = IF q.stage = "count" THEN Answered \cup {r} ELSE Answered \ {r}
           /\ Passed' = IF q.stage \in {"serve", "count"} THEN Passed \cup {r} ELSE Passed \ {r}
<1>1. request \in [Requests -> {Free} \cup Underway]
  BY DEF AccessForm, AccessTypeOK
<1>2. \A s \in Requests : request'[s] = IF s = r THEN q ELSE request[s]
  BY <1>1
<1> QED  BY <1>2 DEF Answered, Passed

\* A request that has not been served yet, and does not pass the check, changes nothing.
LEMMA CountsKept ==
    ASSUME AccessForm, Counts, NEW r \in Requests, NEW q, request' = [request EXCEPT ![r] = q],
           q.stage \notin {"serve", "count"}, request[r].stage \notin {"serve", "count"},
           UNCHANGED <<usage, answers, lost>>
    PROVE  Counts'
<1>1. r \notin Answered /\ r \notin Passed
  BY DEF Answered, Passed
<1>m. Answered' = Answered \ {r} /\ Passed' = Passed \ {r}
  BY CountsMove
<1>2. Answered' = Answered /\ Passed' = Passed
  BY <1>1, <1>m
<1> QED  BY <1>2 DEF Counts, AnswersAreCounted, FewHavePassed

LEMMA CountsRequests ==
    ASSUME AccessForm, Counts, NEW r \in Requests,
           \/ \E p \in Procs : Arrives(r, p)
           \/ CacheHit(r) \/ ReadsRow(r) \/ CachesRow(r)
    PROVE  Counts'
<1>0. AccessTypeOK /\ QuotasAreNumbers
  BY DEF AccessForm
<1>a. ASSUME NEW p \in Procs, Arrives(r, p) PROVE Counts'
  <2>1. request[r].stage = "free"
    BY <1>a DEF Arrives, Free
  <2> QED  BY <1>a, <2>1, CountsKept DEF Arrives
<1>b. CASE CacheHit(r)
  <2> DEFINE q == request[r]
  <2> DEFINE d == cache[q.on][q.stage].row
  <2>1. q.stage \in Things /\ q \in Underway /\ QuotaOf(q)
    BY <1>b, UnderwayOf DEF CacheHit, Things
  <2>2. q.on \in Procs /\ cache[q.on][q.stage] # Absent
    BY <1>b, <2>1 DEF CacheHit, Underway
  <2>3. d \in ThingRows
    BY <1>0, <2>1, <2>2, RowsOfThings, PresentRows
  <2>4. q.stage = "tiers" => d.n \in Limits /\ q.user # Absent
    BY <1>0, <2>1, <2>2 DEF QuotasAreNumbers, QuotaOf
  <2>5. Proceed(r, d).stage \notin {"serve", "count"}
    BY <1>0, <2>1, <2>3, <2>4, ProceedsTo
  <2> QED  BY <1>b, <2>1, <2>5, CountsKept DEF CacheHit, Things
<1>c. CASE ReadsRow(r)
  <2>1. request[r].stage \in Things /\ request[r] \in Underway
    BY <1>c, UnderwayOf DEF ReadsRow, Things
  <2>2. [request[r] EXCEPT !.read = row[request[r].stage]].stage = request[r].stage
    BY <2>1 DEF Underway
  <2>3. request' = [request EXCEPT ![r] = [request[r] EXCEPT !.read = row[request[r].stage]]]
    BY <1>c DEF ReadsRow
  <2> QED  BY <1>c, <2>1, <2>2, <2>3, CountsKept DEF ReadsRow, Things
<1>d. CASE CachesRow(r)
  <2> DEFINE q == request[r]
  <2>1. q.stage \in Things /\ q \in Underway /\ QuotaOf(q) /\ q.read # Absent
    BY <1>d, UnderwayOf DEF CachesRow, Things
  <2>2. q.read \in ThingRows
    BY <2>1, PresentRows DEF Underway
  <2>3. Proceed(r, q.read).stage \notin {"serve", "count"}
    BY <1>0, <2>1, <2>2, ProceedsTo DEF QuotaOf
  <2>4. Free.stage \notin {"serve", "count"}
    BY DEF Free
  <2>5. request' = [request EXCEPT ![r] = Proceed(r, q.read)] \/ request' = [request EXCEPT ![r] = Free]
    BY <1>d DEF CachesRow
  <2>6. UNCHANGED <<usage, answers, lost>>
    BY <1>d DEF CachesRow
  <2> QED  BY <2>1, <2>3, <2>4, <2>5, <2>6, CountsKept DEF Things
<1> QED  BY <1>a, <1>b, <1>c, <1>d

\* Those who have passed the check before it are requests too.
LEMMA CountsCheck ==
    ASSUME AccessForm, Counts, NEW r \in Requests, rateLimitApiQuota(r)
    PROVE  Counts'
<1> DEFINE q == request[r]
<1>1. q \in Underway /\ QuotaOf(q) /\ q.stage = "usage"
  BY UnderwayOf DEF rateLimitApiQuota
<1>2l. q.limit \in Limits /\ q.limit \in Nat
  BY <1>1, AccessAssumption DEF QuotaOf
<1>2. q.limit \in Limits /\ q.limit \in Nat /\ usage \in Nat
  BY <1>2l, AccessAssumption DEF AccessForm, AccessTypeOK
<1>3. UNCHANGED <<usage, answers, lost>>
  BY DEF rateLimitApiQuota
<1>4. CASE usage >= q.limit
  <2>1. request' = [request EXCEPT ![r] = Free]
    BY <1>4 DEF rateLimitApiQuota
  <2> QED  BY <1>1, <1>3, <2>1, CountsKept DEF Free
<1>5. CASE ~(usage >= q.limit)
  <2>1. request' = [request EXCEPT ![r] = [q EXCEPT !.stage = "serve"]]
    BY <1>5 DEF rateLimitApiQuota
  <2>2. [q EXCEPT !.stage = "serve"].stage = "serve"
    BY <1>1 DEF Underway
  <2>m. Answered' = Answered \ {r}
    BY <2>1, <2>2, CountsMove
  <2>3. Answered' = Answered
    BY <1>1, <2>m DEF Answered
  <2>4. usage + Cardinality(Passed') <= q.limit + Cardinality(Requests) - 1
    BY <1>2, <1>5, CountsAreFinite
  <2> QED  BY <1>2, <1>3, <2>3, <2>4 DEF Counts, AnswersAreCounted, FewHavePassed
<1> QED  BY <1>4, <1>5

\* The room of who passed is used by its answer.
LEMMA CountsAnswers ==
    ASSUME AccessForm, Counts, NEW r \in Requests, Finishes(r) \/ incrementForUser(r)
    PROVE  /\ Counts' /\ {usage, answers, lost}' \subseteq 0 .. MaxAnswers
<1> DEFINE q == request[r]
<1>1. q \in Underway /\ QuotaOf(q) /\ q.stage \in {"serve", "count"}
  BY UnderwayOf DEF Finishes, incrementForUser
<1>2. /\ usage \in Nat /\ answers \in Nat /\ lost \in Nat
      /\ {usage, answers, lost} \subseteq 0 .. MaxAnswers /\ MaxAnswers \in Nat
  BY AccessAssumption DEF AccessForm, AccessTypeOK
<1>3. PICK top \in Limits : usage + Cardinality(Passed) <= top + Cardinality(Requests) - 1
  BY DEF Counts, FewHavePassed
<1>4. top \in Nat
  BY AccessAssumption
<1>5. answers = usage + lost + Cardinality(Answered)
  BY DEF Counts, AnswersAreCounted
<1>6. r \in Passed /\ (q.stage = "count" <=> r \in Answered)
  BY <1>1 DEF Passed, Answered
<1>7. Cardinality(Passed \ {r}) = Cardinality(Passed) - 1
  BY <1>6, CountsAreFinite, FS_RemoveElement
<1>a. CASE /\ q.stage = "serve" /\ answers < MaxAnswers /\ answers' = answers + 1
           /\ request' = [request EXCEPT ![r].stage = "count"] /\ UNCHANGED <<usage, lost>>
  <2>1. request' = [request EXCEPT ![r] = [q EXCEPT !.stage = "count"]]
    BY <1>a
  <2>2. [q EXCEPT !.stage = "count"].stage = "count"
    BY <1>1 DEF Underway
  <2>m. Answered' = Answered \cup {r} /\ Passed' = Passed \cup {r}
    BY <2>1, <2>2, CountsMove
  <2>3. Passed' = Passed
    BY <1>6, <2>m
  <2>4. Cardinality(Answered') = Cardinality(Answered) + 1
    BY <1>6, <1>a, <2>m, CountsAreFinite, FS_AddElement
  <2>5. AnswersAreCounted'
    BY <1>2, <1>5, <1>a, <2>4, CountsAreFinite DEF AnswersAreCounted
  <2>6. FewHavePassed'
    BY <1>a, <2>3 DEF Counts, FewHavePassed
  <2> QED  BY <1>2, <1>a, <2>5, <2>6 DEF Counts
<1>b. CASE /\ q.stage = "serve" /\ request' = [request EXCEPT ![r] = Free]
           /\ UNCHANGED <<usage, lost, answers>>
  <2>m. Answered' = Answered \ {r} /\ Passed' = Passed \ {r}
    BY <1>b, CountsMove DEF Free
  <2>1. Answered' = Answered /\ Passed' = Passed \ {r}
    BY <1>6, <1>b, <2>m
  <2>2. usage + Cardinality(Passed') <= top + Cardinality(Requests) - 1
    BY <1>2, <1>3, <1>4, <1>7, <2>1, CountsAreFinite
  <2> QED  BY <1>2, <1>5, <1>b, <2>1, <2>2 DEF Counts, AnswersAreCounted, FewHavePassed
<1>c. CASE incrementForUser(r)
  <2>0. q.stage = "count" /\ request' = [request EXCEPT ![r] = Free] /\ answers' = answers
    BY <1>c DEF incrementForUser
  <2>1. Answered' = Answered \ {r} /\ Passed' = Passed \ {r}
    BY <2>0, CountsMove DEF Free
  <2>2. Cardinality(Answered') = Cardinality(Answered) - 1
    BY <1>6, <2>0, <2>1, CountsAreFinite, FS_RemoveElement
  <2>3. CASE usage' = usage + 1 /\ UNCHANGED lost
    <3>1. answers' = usage' + lost' + Cardinality(Answered')
      BY <1>2, <1>5, <2>0, <2>2, <2>3, CountsAreFinite
    <3>2. usage' + Cardinality(Passed') <= top + Cardinality(Requests) - 1
      BY <1>2, <1>3, <1>4, <1>7, <2>1, <2>3, CountsAreFinite
    <3>3. usage' <= MaxAnswers
      BY <1>2, <2>0, <2>3, <3>1, CountsAreFinite
    <3> QED  BY <1>2, <2>0, <2>3, <3>1, <3>2, <3>3 DEF Counts, AnswersAreCounted, FewHavePassed
  <2>4. CASE lost' = lost + 1 /\ UNCHANGED usage
    <3>1. answers' = usage' + lost' + Cardinality(Answered')
      BY <1>2, <1>5, <2>0, <2>2, <2>4, CountsAreFinite
    <3>2. usage' + Cardinality(Passed') <= top + Cardinality(Requests) - 1
      BY <1>2, <1>3, <1>4, <1>7, <2>1, <2>4, CountsAreFinite
    <3>3. lost' <= MaxAnswers
      BY <1>2, <2>0, <2>4, <3>1, CountsAreFinite
    <3> QED  BY <1>2, <2>0, <2>4, <3>1, <3>2, <3>3 DEF Counts, AnswersAreCounted, FewHavePassed
  <2> QED  BY <1>c, <2>3, <2>4 DEF incrementForUser
<1> QED  BY <1>a, <1>b, <1>c DEF Finishes

\* A request counts or is done.
LEMMA FormAnswers ==
    ASSUME AccessForm, Counts, NEW r \in Requests, Finishes(r) \/ incrementForUser(r)
    PROVE  AccessForm'
<1> DEFINE q == request[r]
<1>1. q \in Underway /\ QuotaOf(q) /\ q.stage \in {"serve", "count"}
  BY UnderwayOf DEF Finishes, incrementForUser
<1> DEFINE new == [q EXCEPT !.stage = "count"]
<1>2. new \in {Free} \cup Underway /\ QuotaOf(new)
  BY <1>1 DEF Underway, QuotaOf
<1>3. request' = [request EXCEPT ![r] = new] \/ request' = [request EXCEPT ![r] = Free]
  BY DEF Finishes, incrementForUser
<1>4. request' \in [Requests -> {Free} \cup Underway] /\ \A s \in Requests : QuotaOf(request'[s])
  BY <1>2, <1>3, QuotaOfFree, OneMoved
<1>5. {usage, answers, lost}' \subseteq 0 .. MaxAnswers
  BY CountsAnswers
<1>6. UNCHANGED <<row, cache, deleting, editing, before, shown>>
  BY DEF Finishes, incrementForUser
<1> QED  BY <1>4, <1>5, <1>6 DEF AccessForm, AccessTypeOK, QuotasAreNumbers

-----------------------------------------------------------------------------
(* Changes. *)

LEMMA RoomForAChange ==
    ASSUME AccessForm, Changes < MaxVersion
    PROVE  \A x \in Things : row[x].v + 1 \in 0 .. MaxVersion
<1>1. /\ row["key"].v \in 0 .. MaxVersion /\ row["user"].v \in 0 .. MaxVersion
      /\ row["tiers"].v \in 0 .. MaxVersion
  BY RowsOfThings DEF AccessForm, Things
<1> QED  BY <1>1, AccessAssumption DEF Changes, Things

\* A row that changed is a row.
LEMMA RowChanged ==
    ASSUME AccessForm, NEW x \in Things, NEW d \in ThingRows, row' = [row EXCEPT ![x] = d],
           x = "tiers" => d.n \in Limits
    PROVE  row' \in [Things -> ThingRows] /\ row'["tiers"].n \in Limits
BY DEF AccessForm, AccessTypeOK, QuotasAreNumbers, Things

\* Dropping entries leaves the others.
LEMMA Dropping ==
    ASSUME AccessForm, NEW p \in Procs, NEW xs \in SUBSET Things, Drops(p, xs)
    PROVE  /\ cache' \in [Procs -> [Things -> CacheEntries]]
           /\ \A q \in Procs, x \in Things : cache'[q][x] # Absent =>
                cache'[q][x] = cache[q][x] /\ (q = p => x \notin xs)
<1>1. cache \in [Procs -> [Things -> CacheEntries]]
  BY DEF AccessForm, AccessTypeOK
<1> DEFINE left == [x \in Things |-> IF x \in xs THEN Absent ELSE cache[p][x]]
<1>2. left \in [Things -> CacheEntries]
  BY <1>1 DEF CacheEntries
<1>3. cache' = [cache EXCEPT ![p] = left]
  BY DEF Drops
<1>4. \A x \in Things : left[x] # Absent => left[x] = cache[p][x] /\ x \notin xs
  OBVIOUS
<1> HIDE DEF left
<1> QED  BY <1>1, <1>2, <1>3, <1>4

\* What is to be shown is of the row, or as before.
LEMMA Showing ==
    ASSUME AccessForm, NEW p \in Procs, NEW xs \in SUBSET Things, IsToShow(p, xs)
    PROVE  /\ shown' \in [Procs -> [Things -> 0 .. MaxVersion]]
           /\ \A q \in Procs, x \in Things :
                \/ shown'[q][x] = shown[q][x]
                \/ q = p /\ x \in xs /\ ~Reading(p, x) /\ shown'[q][x] = row[x].v
<1>1. /\ shown \in [Procs -> [Things -> 0 .. MaxVersion]]
      /\ \A x \in Things : row[x].v \in 0 .. MaxVersion
  BY RowsOfThings DEF AccessForm, AccessTypeOK
<1> DEFINE new == [x \in Things |-> IF x \in xs /\ ~Reading(p, x) THEN row[x].v ELSE shown[p][x]]
<1>2. new \in [Things -> 0 .. MaxVersion]
  BY <1>1
<1>3. shown' = [shown EXCEPT ![p] = new]
  BY DEF IsToShow
<1>4. \A x \in Things : \/ new[x] = shown[p][x]
                        \/ x \in xs /\ ~Reading(p, x) /\ new[x] = row[x].v
  OBVIOUS
<1> HIDE DEF new
<1> QED  BY <1>1, <1>2, <1>3, <1>4

LEMMA FormKeyDeleted ==
    ASSUME AccessForm, NEW p \in Procs,
           DeletesKey(p) \/ invalidateAuthCachesAfterMutation(p) \/ DeletionIsCutOff(p)
    PROVE  AccessForm'
<1>0. AccessTypeOK /\ QuotasAreNumbers
  BY DEF AccessForm
<1>a. CASE DeletesKey(p)
  <2> DEFINE d == [row["key"] EXCEPT !.alive = FALSE, !.v = @ + 1]
  <2>1. "key" \in Things /\ row["key"] \in ThingRows /\ row["key"].v + 1 \in 0 .. MaxVersion
    BY <1>0, <1>a, RowsOfThings, RoomForAChange DEF DeletesKey, Things
  <2>2. d \in ThingRows
    BY <2>1 DEF ThingRows
  <2>3. row' = [row EXCEPT !["key"] = d]
    BY <1>0, <1>a DEF DeletesKey, AccessTypeOK, Things, ThingRows
  <2>4. row' \in [Things -> ThingRows] /\ row'["tiers"].n \in Limits
    BY <2>1, <2>2, <2>3, RowChanged
  <2> QED  BY <1>0, <1>a, <2>4 DEF DeletesKey, AccessForm, AccessTypeOK, QuotasAreNumbers
<1>b. CASE invalidateAuthCachesAfterMutation(p)
  <2>1. {"key", "user"} \in SUBSET Things /\ Drops(p, {"key", "user"}) /\ IsToShow(p, {"key", "user"})
    BY <1>b DEF invalidateAuthCachesAfterMutation, Things
  <2>2. cache' \in [Procs -> [Things -> CacheEntries]] /\ shown' \in [Procs -> [Things -> 0 .. MaxVersion]]
    BY <2>1, Dropping, Showing
  <2>3. \A q \in Procs : cache'[q]["tiers"] # Absent => cache'[q]["tiers"] = cache[q]["tiers"]
    BY <2>1, Dropping DEF Things
  <2> QED  BY <1>0, <1>b, <2>2, <2>3 DEF invalidateAuthCachesAfterMutation, AccessForm, AccessTypeOK, QuotasAreNumbers
<1>c. CASE DeletionIsCutOff(p)
  BY <1>0, <1>c DEF DeletionIsCutOff, AccessForm, AccessTypeOK, QuotasAreNumbers
<1> QED  BY <1>a, <1>b, <1>c

LEMMA FormQuotaEdited ==
    ASSUME AccessForm, NEW p \in Procs,
           \/ QuotaLoads(p) \/ QuotaInvalidates(p)
           \/ \E n \in Limits \cup {NoLimit} : QuotaSaves(p, n)
    PROVE  AccessForm'
<1>0. AccessTypeOK /\ QuotasAreNumbers
  BY DEF AccessForm
<1>a. CASE QuotaLoads(p)
  <2>1. row["user"] \in ThingRows
    BY <1>0, RowsOfThings DEF Things
  <2> QED  BY <1>0, <1>a, <2>1 DEF QuotaLoads, AccessForm, AccessTypeOK, QuotasAreNumbers
<1>b. ASSUME NEW n \in Limits \cup {NoLimit}, QuotaSaves(p, n) PROVE AccessForm'
  <2> DEFINE d == [v |-> row["user"].v + 1, alive |-> editing[p].alive, n |-> n]
  <2>1. "user" \in Things /\ row["user"] \in ThingRows /\ row["user"].v + 1 \in 0 .. MaxVersion
    BY <1>0, <1>b, RowsOfThings, RoomForAChange DEF QuotaSaves, Things
  <2>2. editing[p] \in ThingRows
    BY <1>0, <1>b, PresentRows DEF QuotaSaves, AccessTypeOK
  <2>3. d \in ThingRows
    BY <2>1, <2>2 DEF ThingRows
  <2>4. row' = [row EXCEPT !["user"] = d]
    BY <1>0, <1>b DEF QuotaSaves, AccessTypeOK, Things
  <2>5. row' \in [Things -> ThingRows] /\ row'["tiers"].n \in Limits
    BY <2>1, <2>3, <2>4, RowChanged
  <2> QED  BY <1>0, <1>b, <2>5 DEF QuotaSaves, AccessForm, AccessTypeOK, QuotasAreNumbers
<1>c. CASE QuotaInvalidates(p)
  <2>1. {"user", "tiers"} \in SUBSET Things /\ Drops(p, {"user", "tiers"}) /\ IsToShow(p, {"user", "tiers"})
    BY <1>c DEF QuotaInvalidates, Things
  <2>2. cache' \in [Procs -> [Things -> CacheEntries]] /\ shown' \in [Procs -> [Things -> 0 .. MaxVersion]]
    BY <2>1, Dropping, Showing
  <2>3. \A q \in Procs : cache'[q]["tiers"] # Absent => cache'[q]["tiers"] = cache[q]["tiers"]
    BY <2>1, Dropping DEF Things
  <2> QED  BY <1>0, <1>c, <2>2, <2>3 DEF QuotaInvalidates, AccessForm, AccessTypeOK, QuotasAreNumbers
<1> QED  BY <1>a, <1>b, <1>c

LEMMA FormOthers ==
    ASSUME AccessForm,
           EditsDatabase \/ \E p \in Procs, x \in Things : Evicts(p, x)
    PROVE  AccessForm'
<1>0. AccessTypeOK /\ QuotasAreNumbers
  BY DEF AccessForm
<1>a. CASE EditsDatabase
  <2>0. Changes < MaxVersion
    BY <1>a DEF EditsDatabase
  <2>1. /\ row["user"] \in ThingRows /\ row["user"].v + 1 \in 0 .. MaxVersion
        /\ row["tiers"] \in ThingRows /\ row["tiers"].v + 1 \in 0 .. MaxVersion
        /\ "user" \in Things /\ "tiers" \in Things
    BY <1>0, <2>0, RowsOfThings, RoomForAChange DEF Things
  <2>2. row' \in [Things -> ThingRows] /\ row'["tiers"].n \in Limits
    <3>1. CASE row' = [row EXCEPT !["user"].alive = FALSE, !["user"].v = @ + 1]
      <4> DEFINE d == [row["user"] EXCEPT !.alive = FALSE, !.v = @ + 1]
      <4>1. d \in ThingRows
        BY <2>1 DEF ThingRows
      <4>2. row' = [row EXCEPT !["user"] = d]
        BY <1>0, <2>1, <3>1 DEF AccessTypeOK, ThingRows
      <4> QED  BY <2>1, <4>1, <4>2, RowChanged
    <3>2. ASSUME NEW n \in Limits, row' = [row EXCEPT !["tiers"].n = n, !["tiers"].v = @ + 1]
          PROVE  row' \in [Things -> ThingRows] /\ row'["tiers"].n \in Limits
      <4> DEFINE d == [row["tiers"] EXCEPT !.n = n, !.v = @ + 1]
      <4>1. d \in ThingRows /\ d.n = n
        BY <2>1 DEF ThingRows
      <4>2. row' = [row EXCEPT !["tiers"] = d]
        BY <1>0, <2>1, <3>2 DEF AccessTypeOK, ThingRows
      <4> QED  BY <2>1, <4>1, <4>2, RowChanged
    <3> QED  BY <1>a, <3>1, <3>2 DEF EditsDatabase
  <2> QED  BY <1>0, <1>a, <2>2 DEF EditsDatabase, AccessForm, AccessTypeOK, QuotasAreNumbers
<1>b. ASSUME NEW p \in Procs, NEW x \in Things, Evicts(p, x) PROVE AccessForm'
  <2>1. cache \in [Procs -> [Things -> CacheEntries]] /\ cache' = [cache EXCEPT ![p][x] = Absent]
    BY <1>0, <1>b DEF AccessTypeOK, Evicts
  <2>2. cache' \in [Procs -> [Things -> CacheEntries]]
    BY <2>1 DEF CacheEntries
  <2>3. \A q \in Procs : cache'[q]["tiers"] = cache[q]["tiers"]
    BY <1>b, <2>1 DEF Evicts, Things
  <2> QED  BY <1>0, <1>b, <2>2, <2>3 DEF Evicts, AccessForm, AccessTypeOK, QuotasAreNumbers
<1> QED  BY <1>a, <1>b

\* What a tick does to an entry and to a request.
LEMMA Ageing ==
    ASSUME NEW e \in CacheEntries
    PROVE  /\ Aged(e) \in CacheEntries
           /\ Aged(e) # Absent =>
                e # Absent /\ e.left > 1 /\ Aged(e).row = e.row /\ Aged(e).left = e.left - 1
<1>1. CASE e = Absent \/ e.left = 1
  BY <1>1 DEF Aged, CacheEntries
<1>2. CASE e # Absent /\ e.left # 1
  <2>1. e = [kind |-> "cached", row |-> e.row, left |-> e.left] /\ e.row \in ThingRows /\ e.left \in 1 .. AUTH_TTL
    BY <1>2, PresentRows
  <2>2. Aged(e) = [kind |-> "cached", row |-> e.row, left |-> e.left - 1]
    BY <1>2, <2>1 DEF Aged
  <2>3. e.left - 1 \in 1 .. AUTH_TTL /\ e.left > 1
    BY <1>2, <2>1, AccessAssumption
  <2> QED  BY <1>2, <2>1, <2>2, <2>3, PresentRows
<1> QED  BY <1>1, <1>2

LEMMA FormTick ==
    ASSUME AccessForm, AccessTick
    PROVE  /\ AccessForm'
           /\ \A r \in Requests : request'[r] =
                IF request[r] = Free THEN Free ELSE [request[r] EXCEPT !.late = TRUE]
           /\ \A p \in Procs, x \in Things : cache'[p][x] = Aged(cache[p][x])
           /\ \A x \in Things : before'[1][x] = row[x].v
           /\ \A i \in 1 .. AUTH_TTL, x \in Things : before'[i + 1][x] = before[i][x]
<1>0. AccessTypeOK /\ QuotasAreNumbers
  BY DEF AccessForm
<1>1. \A r \in Requests : request'[r] =
        IF request[r] = Free THEN Free ELSE [request[r] EXCEPT !.late = TRUE]
  BY DEF AccessTick
<1>2. \A r \in Requests : request'[r] \in {Free} \cup Underway /\ QuotaOf(request'[r])
  <2> SUFFICES ASSUME NEW r \in Requests PROVE request'[r] \in {Free} \cup Underway /\ QuotaOf(request'[r])
    OBVIOUS
  <2>1. CASE request[r] = Free
    BY <1>1, <2>1, QuotaOfFree
  <2>2. CASE request[r] # Free
    <3>1. request[r] \in Underway /\ QuotaOf(request[r])
      BY <1>0, <2>2, PresentRows DEF AccessTypeOK, QuotasAreNumbers
    <3> DEFINE new == [request[r] EXCEPT !.late = TRUE]
    <3>2. new \in Underway
      BY <3>1 DEF Underway
    <3>3. new.stage = request[r].stage /\ new.read = request[r].read /\ new.user = request[r].user
          /\ new.limit = request[r].limit
      BY <3>1 DEF Underway
    <3>4. QuotaOf(new)
      BY <3>1, <3>3 DEF QuotaOf
    <3> QED  BY <1>1, <2>2, <3>2, <3>4
  <2> QED  BY <2>1, <2>2
<1>3. request' \in [Requests -> {Free} \cup Underway]
  BY <1>2 DEF AccessTick
<1>4. \A p \in Procs, x \in Things : cache'[p][x] = Aged(cache[p][x])
  BY DEF AccessTick
<1>5. cache' \in [Procs -> [Things -> CacheEntries]]
  <2>1. \A p \in Procs, x \in Things : Aged(cache[p][x]) \in CacheEntries
    BY <1>0, Ageing DEF AccessTypeOK
  <2>2. \A p \in Procs : [x \in Things |-> Aged(cache[p][x])] \in [Things -> CacheEntries]
    BY <2>1
  <2> QED  BY <2>2 DEF AccessTick
<1>6. \A p \in Procs : cache'[p]["tiers"] # Absent => cache'[p]["tiers"].row.n \in Limits
  <2> SUFFICES ASSUME NEW p \in Procs, cache'[p]["tiers"] # Absent
               PROVE  cache'[p]["tiers"].row.n \in Limits
    OBVIOUS
  <2>1. cache[p]["tiers"] \in CacheEntries /\ cache'[p]["tiers"] = Aged(cache[p]["tiers"])
    BY <1>0, <1>4 DEF AccessTypeOK, Things
  <2>2. cache[p]["tiers"] # Absent /\ cache'[p]["tiers"].row = cache[p]["tiers"].row
    BY <2>1, Ageing
  <2> QED  BY <1>0, <2>2 DEF QuotasAreNumbers
<1>7. before \in [1 .. AUTH_TTL + 1 -> [Things -> 0 .. MaxVersion]] /\ AUTH_TTL \in Nat \ {0}
  BY <1>0, AccessAssumption DEF AccessTypeOK
<1>8. before' = [i \in 1 .. AUTH_TTL + 1 |-> IF i = 1 THEN [x \in Things |-> row[x].v] ELSE before[i - 1]]
  BY <1>7 DEF AccessTick
<1>9. [x \in Things |-> row[x].v] \in [Things -> 0 .. MaxVersion]
  BY <1>0, RowsOfThings
<1>10. before' \in [1 .. AUTH_TTL + 1 -> [Things -> 0 .. MaxVersion]]
  <2>1. \A i \in 1 .. AUTH_TTL + 1 : i # 1 => i - 1 \in 1 .. AUTH_TTL + 1
    BY <1>7
  <2> QED  BY <1>7, <1>8, <1>9, <2>1
<1>11. \A x \in Things : before'[1][x] = row[x].v
  BY <1>7, <1>8
<1>12. \A i \in 1 .. AUTH_TTL, x \in Things : before'[i + 1][x] = before[i][x]
  BY <1>7, <1>8
<1>13. UNCHANGED <<row, deleting, editing, usage, answers, lost, shown>>
  BY DEF AccessTick
<1> QED  BY <1>0, <1>1, <1>2, <1>3, <1>4, <1>5, <1>6, <1>10, <1>11, <1>12, <1>13
         DEF AccessForm, AccessTypeOK, QuotasAreNumbers

\* Nothing but requests and ticks touches a request, and a tick moves none on.
LEMMA CountsOthers ==
    ASSUME AccessForm, Counts,
           \/ \E p \in Procs :
                \/ DeletesKey(p) \/ invalidateAuthCachesAfterMutation(p) \/ DeletionIsCutOff(p)
                \/ QuotaLoads(p) \/ QuotaInvalidates(p)
                \/ \E n \in Limits \cup {NoLimit} : QuotaSaves(p, n)
                \/ \E x \in Things : Evicts(p, x)
           \/ EditsDatabase \/ AccessTick
    PROVE  Counts'
<1>1. UNCHANGED <<usage, answers, lost>>
  BY DEF DeletesKey, invalidateAuthCachesAfterMutation, DeletionIsCutOff, QuotaLoads, QuotaInvalidates,
         QuotaSaves, Evicts, EditsDatabase, AccessTick
<1>2. \A r \in Requests : request'[r].stage = request[r].stage
  <2>1. CASE AccessTick
    <3>1. \A r \in Requests : request[r] # Free => request[r] \in Underway
      BY PresentRows DEF AccessForm, AccessTypeOK
    <3>2. \A r \in Requests : request[r] # Free => [request[r] EXCEPT !.late = TRUE].stage = request[r].stage
      BY <3>1 DEF Underway
    <3> QED  BY <2>1, <3>2, FormTick
  <2>2. CASE ~AccessTick
    BY <2>2 DEF DeletesKey, invalidateAuthCachesAfterMutation, DeletionIsCutOff, QuotaLoads, QuotaInvalidates,
         QuotaSaves, Evicts, EditsDatabase
  <2> QED  BY <2>1, <2>2
<1>3. Answered' = Answered /\ Passed' = Passed
  BY <1>2 DEF Answered, Passed
<1> QED  BY <1>1, <1>3 DEF Counts, AnswersAreCounted, FewHavePassed

-----------------------------------------------------------------------------
(***************************************************************************)
(* What changed, shows.  A request under way has read the row as it was at *)
(* the last tick or, when it has seen one begin, at the tick before; so an *)
(* entry is as old as the time it has left tells, and two ticks.  And a    *)
(* process that has dropped its entry of a row holds nothing older, except *)
(* what a request there had read and not yet cached.                       *)
(***************************************************************************)

VersionsGrow ==
    /\ \A x \in Things : before[1][x] <= row[x].v
    /\ \A i, j \in 1 .. AUTH_TTL + 1, x \in Things : i <= j => before[j][x] <= before[i][x]
    /\ \A p \in Procs, x \in Things : shown[p][x] <= row[x].v

ReadsAreRecent ==
    \A r \in Requests, x \in Things : request[r].stage = x /\ request[r].read # Absent =>
      /\ shown[request[r].on][x] <= request[r].read.v
      /\ before[IF request[r].late THEN 2 ELSE 1][x] <= request[r].read.v

EntriesAreRecent ==
    \A p \in Procs, x \in Things : cache[p][x] # Absent =>
      /\ shown[p][x] <= cache[p][x].row.v
      /\ before[AUTH_TTL + 2 - cache[p][x].left][x] <= cache[p][x].row.v

Recent == VersionsGrow /\ ReadsAreRecent /\ EntriesAreRecent

LEMMA RecentInit == AccessInit => Recent
<1> SUFFICES ASSUME AccessInit PROVE Recent
  OBVIOUS
<1>1. \A x \in Things : row[x].v = 0
  BY DEF AccessInit
<1>2. \A i \in 1 .. AUTH_TTL + 1, x \in Things : before[i][x] = 0
  BY DEF AccessInit
<1>4. VersionsGrow
  BY <1>1, <1>2, AccessAssumption DEF AccessInit, VersionsGrow
<1> QED  BY <1>4 DEF AccessInit, Recent, ReadsAreRecent, EntriesAreRecent, Free, Things

\* A version is a number, wherever it stands.
LEMMA VersionsAreNumbers ==
    ASSUME AccessForm
    PROVE  /\ \A x \in Things : row[x].v \in Nat
           /\ \A i \in 1 .. AUTH_TTL + 1, x \in Things : before[i][x] \in Nat
           /\ \A p \in Procs, x \in Things : shown[p][x] \in Nat
           /\ \A p \in Procs, x \in Things : cache[p][x] # Absent =>
                cache[p][x].row.v \in Nat /\ cache[p][x].left \in 1 .. AUTH_TTL
           /\ \A r \in Requests : request[r].stage \in Things /\ request[r].read # Absent =>
                request[r].read.v \in Nat /\ request[r].on \in Procs /\ request[r].late \in BOOLEAN
<1>0. AccessTypeOK /\ MaxVersion \in Nat
  BY AccessAssumption DEF AccessForm
<1>1. \A d \in ThingRows : d.v \in Nat
  BY <1>0 DEF ThingRows
<1>2. \A x \in Things : row[x].v \in Nat
  BY <1>0, <1>1 DEF AccessTypeOK
<1>3. \A p \in Procs, x \in Things : cache[p][x] # Absent =>
        cache[p][x].row.v \in Nat /\ cache[p][x].left \in 1 .. AUTH_TTL
  BY <1>0, <1>1, PresentRows DEF AccessTypeOK
<1>4. \A r \in Requests : request[r].stage \in Things /\ request[r].read # Absent =>
        request[r].read.v \in Nat /\ request[r].on \in Procs /\ request[r].late \in BOOLEAN
  <2> SUFFICES ASSUME NEW r \in Requests, request[r].stage \in Things, request[r].read # Absent
               PROVE  request[r].read.v \in Nat /\ request[r].on \in Procs /\ request[r].late \in BOOLEAN
    OBVIOUS
  <2>1. request[r] \in Underway
    BY UnderwayOf DEF Things
  <2>2. request[r].read \in ThingRows
    BY <2>1, PresentRows DEF Underway
  <2> QED  BY <1>1, <2>1, <2>2 DEF Underway
<1>5. /\ \A i \in 1 .. AUTH_TTL + 1, x \in Things : before[i][x] \in Nat
      /\ \A p \in Procs, x \in Things : shown[p][x] \in Nat
  <2>1. \A f \in [Things -> 0 .. MaxVersion], x \in Things : f[x] \in Nat
    BY <1>0
  <2>2. \A i \in 1 .. AUTH_TTL + 1 : before[i] \in [Things -> 0 .. MaxVersion]
    BY <1>0 DEF AccessTypeOK
  <2>3. \A p \in Procs : shown[p] \in [Things -> 0 .. MaxVersion]
    BY <1>0 DEF AccessTypeOK
  <2> QED  BY <2>1, <2>2, <2>3
<1> QED  BY <1>2, <1>3, <1>4, <1>5

\* A request that moved on has nothing read.
LEMMA RecentReads ==
    ASSUME AccessForm, Recent, NEW r \in Requests, NEW q, request' = [request EXCEPT ![r] = q],
           q.stage \in Things => q.read = Absent, UNCHANGED <<before, shown>>
    PROVE  ReadsAreRecent'
<1>1. \A s \in Requests : request'[s] = IF s = r THEN q ELSE request[s]
  BY DEF AccessForm, AccessTypeOK
<1> QED  BY <1>1 DEF Recent, ReadsAreRecent

LEMMA RecentRequests ==
    ASSUME AccessForm, Recent, NEW r \in Requests,
           \/ \E p \in Procs : Arrives(r, p)
           \/ CacheHit(r) \/ ReadsRow(r) \/ CachesRow(r)
           \/ rateLimitApiQuota(r) \/ Finishes(r) \/ incrementForUser(r)
    PROVE  Recent'
<1> DEFINE q == request[r]
<1>0. AccessTypeOK /\ QuotasAreNumbers
  BY DEF AccessForm
<1>u. UNCHANGED <<row, before, shown>> /\ VersionsGrow'
  BY DEF Arrives, CacheHit, ReadsRow, CachesRow, rateLimitApiQuota, Finishes, incrementForUser,
         Recent, VersionsGrow
<1>f. Free.stage \notin Things
  BY DEF Free, Things
<1>a. ASSUME NEW p \in Procs, Arrives(r, p) PROVE Recent'
  <2>1. ReadsAreRecent'
    BY <1>a, <1>u, RecentReads DEF Arrives
  <2> QED  BY <1>a, <1>u, <2>1 DEF Arrives, Recent, EntriesAreRecent
<1>b. CASE CacheHit(r)
  <2> DEFINE d == cache[q.on][q.stage].row
  <2>1. q.stage \in Things /\ q \in Underway /\ QuotaOf(q)
    BY <1>b, UnderwayOf DEF CacheHit, Things
  <2>2. q.on \in Procs /\ cache[q.on][q.stage] # Absent
    BY <1>b, <2>1 DEF CacheHit, Underway
  <2>3. d \in ThingRows
    BY <1>0, <2>1, <2>2, RowsOfThings, PresentRows
  <2>4. q.stage = "tiers" => d.n \in Limits /\ q.user # Absent
    BY <1>0, <2>1, <2>2 DEF QuotasAreNumbers, QuotaOf
  <2>5. Proceed(r, d).read = Absent
    BY <1>0, <2>1, <2>3, <2>4, ProceedsTo
  <2>6. request' = [request EXCEPT ![r] = Proceed(r, d)]
    BY <1>b DEF CacheHit
  <2>7. ReadsAreRecent'
    BY <1>u, <2>5, <2>6, RecentReads
  <2> QED  BY <1>b, <1>u, <2>7 DEF CacheHit, Recent, EntriesAreRecent
<1>c. CASE ReadsRow(r)
  <2> DEFINE new == [q EXCEPT !.read = row[q.stage]]
  <2>1. q.stage \in Things /\ q \in Underway
    BY <1>c, UnderwayOf DEF ReadsRow, Things
  <2>2. new.stage = q.stage /\ new.read = row[q.stage] /\ new.on = q.on /\ new.late = q.late
    BY <2>1 DEF Underway
  <2>3. \A s \in Requests : request'[s] = IF s = r THEN new ELSE request[s]
    BY <1>0, <1>c DEF ReadsRow, AccessTypeOK
  <2>4. q.on \in Procs
    BY <2>1 DEF Underway
  <2>5. /\ before[1][q.stage] <= row[q.stage].v /\ before[2][q.stage] <= before[1][q.stage]
        /\ shown[q.on][q.stage] <= row[q.stage].v
    BY <2>1, <2>4, AccessAssumption DEF Recent, VersionsGrow
  <2>6. before[2][q.stage] <= row[q.stage].v
    <3>1. before[1][q.stage] \in Nat /\ before[2][q.stage] \in Nat /\ row[q.stage].v \in Nat
      BY <2>1, VersionsAreNumbers, AccessAssumption
    <3> QED  BY <2>5, <3>1
  <2> HIDE DEF new
  <2>7. ReadsAreRecent'
    BY <1>u, <2>2, <2>3, <2>5, <2>6 DEF Recent, ReadsAreRecent
  <2> QED  BY <1>c, <1>u, <2>7 DEF ReadsRow, Recent, EntriesAreRecent
<1>d. CASE CachesRow(r)
  <2>1. q.stage \in Things /\ q \in Underway /\ QuotaOf(q) /\ q.read # Absent
    BY <1>d, UnderwayOf DEF CachesRow, Things
  <2>2. q.read \in ThingRows /\ q.on \in Procs /\ q.late \in BOOLEAN
    BY <2>1, PresentRows DEF Underway
  <2>3. Proceed(r, q.read).read = Absent
    BY <1>0, <2>1, <2>2, ProceedsTo DEF QuotaOf
  <2>4. ReadsAreRecent'
    <3>1. request' = [request EXCEPT ![r] = Proceed(r, q.read)] \/ request' = [request EXCEPT ![r] = Free]
      BY <1>d DEF CachesRow
    <3> QED  BY <1>u, <1>f, <2>3, <3>1, RecentReads
  <2>5. CASE q.read.alive
    <3> DEFINE e == [kind |-> "cached", row |-> q.read, left |-> AUTH_TTL]
    <3>1. cache' = [cache EXCEPT ![q.on][q.stage] = e]
      BY <1>d, <2>5 DEF CachesRow
    <3>2. e.row = q.read /\ e.left = AUTH_TTL
      OBVIOUS
    <3> HIDE DEF e
    <3>3. \A p \in Procs, x \in Things :
            cache'[p][x] = IF p = q.on /\ x = q.stage THEN e ELSE cache[p][x]
      BY <1>0, <2>1, <2>2, <3>1 DEF AccessTypeOK
    <3>4. /\ shown[q.on][q.stage] <= q.read.v
          /\ before[IF q.late THEN 2 ELSE 1][q.stage] <= q.read.v
      BY <2>1 DEF Recent, ReadsAreRecent
    <3>5. before[2][q.stage] <= q.read.v
      <4>1. /\ before[1][q.stage] \in Nat /\ before[2][q.stage] \in Nat /\ q.read.v \in Nat
            /\ before[2][q.stage] <= before[1][q.stage]
        BY <2>1, VersionsAreNumbers, AccessAssumption DEF Recent, VersionsGrow
      <4> QED  BY <2>2, <3>4, <4>1
    <3>6. AUTH_TTL + 2 - e.left = 2
      BY <3>2, AccessAssumption
    <3>7. EntriesAreRecent'
      BY <1>u, <3>2, <3>3, <3>4, <3>5, <3>6 DEF Recent, EntriesAreRecent
    <3> QED  BY <1>u, <2>4, <3>7 DEF Recent
  <2>6. CASE ~q.read.alive
    BY <1>d, <1>u, <2>4, <2>6 DEF CachesRow, Recent, EntriesAreRecent
  <2> QED  BY <2>5, <2>6
<1>e. CASE rateLimitApiQuota(r) \/ Finishes(r) \/ incrementForUser(r)
  <2>1. q \in Underway
    BY <1>e, UnderwayOf DEF rateLimitApiQuota, Finishes, incrementForUser
  <2>2. /\ [q EXCEPT !.stage = "serve"].stage \notin Things
        /\ [q EXCEPT !.stage = "count"].stage \notin Things
    BY <2>1 DEF Underway, Things
  <2>3. \/ request' = [request EXCEPT ![r] = Free]
        \/ request' = [request EXCEPT ![r] = [q EXCEPT !.stage = "serve"]]
        \/ request' = [request EXCEPT ![r] = [q EXCEPT !.stage = "count"]]
    BY <1>e DEF rateLimitApiQuota, Finishes, incrementForUser
  <2>4. ReadsAreRecent'
    BY <1>u, <1>f, <2>2, <2>3, RecentReads
  <2> QED  BY <1>e, <1>u, <2>4 DEF rateLimitApiQuota, Finishes, incrementForUser, Recent, EntriesAreRecent
<1> QED  BY <1>a, <1>b, <1>c, <1>d, <1>e

\* A row that changes grows.
LEMMA RowsGrow ==
    ASSUME AccessForm,
           \/ EditsDatabase
           \/ \E p \in Procs : DeletesKey(p) \/ \E n \in Limits \cup {NoLimit} : QuotaSaves(p, n)
    PROVE  /\ \A x \in Things : row[x].v <= row'[x].v
           /\ UNCHANGED <<cache, request, before, shown>>
<1>0. AccessTypeOK
  BY DEF AccessForm
<1>1. \A x \in Things : row[x].v \in Nat /\ row[x] = [v |-> row[x].v, alive |-> row[x].alive, n |-> row[x].n]
  BY <1>0, VersionsAreNumbers DEF AccessTypeOK, ThingRows
<1>2. row \in [Things -> ThingRows] /\ "key" \in Things /\ "user" \in Things /\ "tiers" \in Things
  BY <1>0 DEF AccessTypeOK, Things
<1>a. ASSUME NEW y \in Things, NEW d, d.v = row[y].v + 1, row' = [row EXCEPT ![y] = d]
      PROVE  \A x \in Things : row[x].v <= row'[x].v
  BY <1>a, <1>1, <1>2
<1>b. ASSUME NEW p \in Procs, DeletesKey(p) PROVE \A x \in Things : row[x].v <= row'[x].v
  <2>1. row' = [row EXCEPT !["key"] = [row["key"] EXCEPT !.alive = FALSE, !.v = @ + 1]]
    BY <1>2, <1>b DEF DeletesKey, ThingRows
  <2>2. [row["key"] EXCEPT !.alive = FALSE, !.v = @ + 1].v = row["key"].v + 1
    BY <1>2 DEF ThingRows
  <2> QED  BY <1>2, <1>a, <2>1, <2>2
<1>c. ASSUME NEW p \in Procs, NEW n \in Limits \cup {NoLimit}, QuotaSaves(p, n)
      PROVE  \A x \in Things : row[x].v <= row'[x].v
  <2>1. row' = [row EXCEPT !["user"] = [v |-> row["user"].v + 1, alive |-> editing[p].alive, n |-> n]]
    BY <1>2, <1>c DEF QuotaSaves
  <2> QED  BY <1>2, <1>a, <2>1
<1>d. ASSUME row' = [row EXCEPT !["user"].alive = FALSE, !["user"].v = @ + 1]
      PROVE  \A x \in Things : row[x].v <= row'[x].v
  <2>1. row' = [row EXCEPT !["user"] = [row["user"] EXCEPT !.alive = FALSE, !.v = @ + 1]]
    BY <1>2, <1>d DEF ThingRows
  <2>2. [row["user"] EXCEPT !.alive = FALSE, !.v = @ + 1].v = row["user"].v + 1
    BY <1>2 DEF ThingRows
  <2> QED  BY <1>2, <1>a, <2>1, <2>2
<1>e. ASSUME NEW n \in Limits, row' = [row EXCEPT !["tiers"].n = n, !["tiers"].v = @ + 1]
      PROVE  \A x \in Things : row[x].v <= row'[x].v
  <2>1. row' = [row EXCEPT !["tiers"] = [row["tiers"] EXCEPT !.n = n, !.v = @ + 1]]
    BY <1>2, <1>e DEF ThingRows
  <2>2. [row["tiers"] EXCEPT !.n = n, !.v = @ + 1].v = row["tiers"].v + 1
    BY <1>2 DEF ThingRows
  <2> QED  BY <1>2, <1>a, <2>1, <2>2
<1>f. UNCHANGED <<cache, request, before, shown>>
  BY DEF EditsDatabase, DeletesKey, QuotaSaves
<1> QED  BY <1>b, <1>c, <1>d, <1>e, <1>f DEF EditsDatabase

LEMMA RecentChanges ==
    ASSUME AccessForm, AccessForm', Recent,
           \/ EditsDatabase
           \/ \E p \in Procs : DeletesKey(p) \/ \E n \in Limits \cup {NoLimit} : QuotaSaves(p, n)
    PROVE  Recent'
<1>1. /\ \A x \in Things : row[x].v <= row'[x].v
      /\ UNCHANGED <<cache, request, before, shown>>
  BY RowsGrow
<1>2. \A x \in Things : row[x].v \in Nat /\ row'[x].v \in Nat
  <2>1. \A d \in ThingRows : d.v \in Nat
    BY AccessAssumption DEF ThingRows
  <2>2. \A x \in Things : row[x] \in ThingRows /\ row'[x] \in ThingRows
    BY DEF AccessForm, AccessTypeOK
  <2> QED  BY <2>1, <2>2
<1>3. 1 \in 1 .. AUTH_TTL + 1
  BY AccessAssumption
<1>4. \A x \in Things, p \in Procs : before[1][x] \in Nat /\ shown[p][x] \in Nat
  BY <1>3, VersionsAreNumbers
<1>5. VersionsGrow'
  <2>1. \A x \in Things : before'[1][x] <= row'[x].v
    <3> SUFFICES ASSUME NEW x \in Things PROVE before[1][x] <= row'[x].v
      BY <1>1
    <3>1. before[1][x] <= row[x].v
      BY DEF Recent, VersionsGrow
    <3>2. before[1][x] \in Nat
      BY <1>3, VersionsAreNumbers
    <3> QED  BY <1>1, <1>2, <3>1, <3>2
  <2>2. \A p \in Procs, x \in Things : shown'[p][x] <= row'[x].v
    <3> SUFFICES ASSUME NEW p \in Procs, NEW x \in Things PROVE shown[p][x] <= row'[x].v
      BY <1>1
    <3>1. shown[p][x] <= row[x].v
      BY DEF Recent, VersionsGrow
    <3> QED  BY <1>1, <1>2, <1>4, <3>1
  <2> QED  BY <1>1, <2>1, <2>2 DEF Recent, VersionsGrow
<1> QED  BY <1>1, <1>5 DEF Recent, ReadsAreRecent, EntriesAreRecent

\* What is dropped can be shown.
LEMMA RecentDrops ==
    ASSUME AccessForm, Recent, NEW p \in Procs, NEW xs \in SUBSET Things, Drops(p, xs), IsToShow(p, xs),
           UNCHANGED <<row, request, before>>
    PROVE  Recent'
<1>1. \A q \in Procs, x \in Things : cache'[q][x] # Absent =>
        cache'[q][x] = cache[q][x] /\ (q = p => x \notin xs)
  BY Dropping
<1>2. \A q \in Procs, x \in Things :
        \/ shown'[q][x] = shown[q][x]
        \/ q = p /\ x \in xs /\ ~Reading(p, x) /\ shown'[q][x] = row[x].v
  BY Showing
<1>3. \A x \in Things : row[x].v \in Nat
  BY VersionsAreNumbers
<1>4. VersionsGrow'
  BY <1>2, <1>3 DEF Recent, VersionsGrow
<1>5. EntriesAreRecent'
  BY <1>1, <1>2 DEF Recent, EntriesAreRecent
<1>6. ReadsAreRecent'
  <2> SUFFICES ASSUME NEW r \in Requests, NEW x \in Things, request[r].stage = x, request[r].read # Absent
               PROVE  /\ shown'[request[r].on][x] <= request[r].read.v
                      /\ before[IF request[r].late THEN 2 ELSE 1][x] <= request[r].read.v
    BY DEF ReadsAreRecent
  <2>1. request[r].on \in Procs
    BY VersionsAreNumbers
  <2>2. request[r].on = p => Reading(p, x)
    BY DEF Reading
  <2>3. shown'[request[r].on][x] = shown[request[r].on][x]
    BY <1>2, <2>1, <2>2
  <2> QED  BY <2>3 DEF Recent, ReadsAreRecent
<1> QED  BY <1>4, <1>5, <1>6 DEF Recent

LEMMA RecentOthers ==
    ASSUME AccessForm, Recent, NEW p \in Procs,
           \/ invalidateAuthCachesAfterMutation(p) \/ DeletionIsCutOff(p)
           \/ QuotaLoads(p) \/ QuotaInvalidates(p)
           \/ \E x \in Things : Evicts(p, x)
    PROVE  Recent'
<1>a. CASE invalidateAuthCachesAfterMutation(p)
  <2>1. {"key", "user"} \in SUBSET Things
    BY DEF Things
  <2> QED  BY <1>a, <2>1, RecentDrops DEF invalidateAuthCachesAfterMutation
<1>b. CASE QuotaInvalidates(p)
  <2>1. {"user", "tiers"} \in SUBSET Things
    BY DEF Things
  <2> QED  BY <1>b, <2>1, RecentDrops DEF QuotaInvalidates
<1>c. CASE DeletionIsCutOff(p) \/ QuotaLoads(p)
  BY <1>c DEF DeletionIsCutOff, QuotaLoads, Recent, VersionsGrow, ReadsAreRecent, EntriesAreRecent
<1>d. ASSUME NEW y \in Things, Evicts(p, y) PROVE Recent'
  <2>1. cache \in [Procs -> [Things -> CacheEntries]] /\ cache' = [cache EXCEPT ![p][y] = Absent]
    BY <1>d DEF AccessForm, AccessTypeOK, Evicts
  <2>2. \A q \in Procs, x \in Things : cache'[q][x] # Absent => cache'[q][x] = cache[q][x]
    BY <2>1
  <2>3. UNCHANGED <<row, request, before, shown>>
    BY <1>d DEF Evicts
  <2>4. EntriesAreRecent'
    BY <2>2, <2>3 DEF Recent, EntriesAreRecent
  <2> QED  BY <2>3, <2>4 DEF Recent, VersionsGrow, ReadsAreRecent
<1> QED  BY <1>a, <1>b, <1>c, <1>d

LEMMA RecentTick ==
    ASSUME AccessForm, Recent, AccessTick
    PROVE  Recent'
<1>0. AccessTypeOK /\ AUTH_TTL \in Nat \ {0}
  BY AccessAssumption DEF AccessForm
<1>1. /\ \A r \in Requests : request'[r] =
           IF request[r] = Free THEN Free ELSE [request[r] EXCEPT !.late = TRUE]
      /\ \A p \in Procs, x \in Things : cache'[p][x] = Aged(cache[p][x])
      /\ \A x \in Things : before'[1][x] = row[x].v
      /\ \A i \in 1 .. AUTH_TTL, x \in Things : before'[i + 1][x] = before[i][x]
  BY FormTick
<1>2. row' = row /\ shown' = shown
  BY DEF AccessTick
<1>3. \A x \in Things : row[x].v \in Nat
  BY VersionsAreNumbers
<1>4. VersionsGrow'
  <2>1. \A i, j \in 1 .. AUTH_TTL + 1, x \in Things : i <= j => before'[j][x] <= before'[i][x]
    <3> SUFFICES ASSUME NEW i \in 1 .. AUTH_TTL + 1, NEW j \in 1 .. AUTH_TTL + 1, NEW x \in Things, i <= j
                 PROVE  before'[j][x] <= before'[i][x]
      OBVIOUS
    <3>1. \A k \in 1 .. AUTH_TTL + 1 : k # 1 => k - 1 \in 1 .. AUTH_TTL /\ (k - 1) + 1 = k
      BY <1>0
    <3>2. \A k \in 1 .. AUTH_TTL + 1 : k # 1 => before'[k][x] = before[k - 1][x]
      BY <1>1, <3>1
    <3>3. \A k \in 1 .. AUTH_TTL + 1 : before[k][x] <= row[x].v
      <4>1. \A k \in 1 .. AUTH_TTL + 1 : before[k][x] <= before[1][x] /\ before[k][x] \in Nat
        BY <1>0, VersionsAreNumbers DEF Recent, VersionsGrow
      <4>2. before[1][x] <= row[x].v /\ before[1][x] \in Nat
        BY <1>0, VersionsAreNumbers DEF Recent, VersionsGrow
      <4> QED  BY <1>3, <4>1, <4>2
    <3>4. CASE i = 1 /\ j = 1
      BY <1>1, <1>3, <3>4
    <3>5. CASE i = 1 /\ j # 1
      <4>1. j - 1 \in 1 .. AUTH_TTL + 1
        BY <1>0, <3>1, <3>5
      <4> QED  BY <1>1, <3>2, <3>3, <3>5, <4>1
    <3>6. CASE i # 1 /\ j # 1
      <4>1. i - 1 \in 1 .. AUTH_TTL + 1 /\ j - 1 \in 1 .. AUTH_TTL + 1 /\ i - 1 <= j - 1
        BY <1>0, <3>1, <3>6
      <4> QED  BY <3>2, <3>6, <4>1 DEF Recent, VersionsGrow
    <3>7. i # 1 => j # 1
      BY <1>0
    <3> QED  BY <3>4, <3>5, <3>6, <3>7
  <2>2. \A x \in Things : before'[1][x] <= row'[x].v
    BY <1>1, <1>2, <1>3
  <2>3. \A p \in Procs, x \in Things : shown'[p][x] <= row'[x].v
    BY <1>2 DEF Recent, VersionsGrow
  <2> QED  BY <2>1, <2>2, <2>3 DEF VersionsGrow
<1>5. EntriesAreRecent'
  <2> SUFFICES ASSUME NEW p \in Procs, NEW x \in Things, cache'[p][x] # Absent
               PROVE  /\ shown'[p][x] <= cache'[p][x].row.v
                      /\ before'[AUTH_TTL + 2 - cache'[p][x].left][x] <= cache'[p][x].row.v
    BY DEF EntriesAreRecent
  <2> DEFINE e == cache[p][x]
  <2>1. e \in CacheEntries /\ cache'[p][x] = Aged(e)
    BY <1>0, <1>1 DEF AccessTypeOK
  <2>2. /\ e # Absent /\ e.left > 1
        /\ cache'[p][x].row = e.row /\ cache'[p][x].left = e.left - 1
    BY <2>1, Ageing
  <2>3. e.left \in 1 .. AUTH_TTL
    BY <2>2, VersionsAreNumbers
  <2>4. AUTH_TTL + 2 - e.left \in 1 .. AUTH_TTL
        /\ AUTH_TTL + 2 - (e.left - 1) = (AUTH_TTL + 2 - e.left) + 1
    BY <1>0, <2>2, <2>3
  <2>5. before'[AUTH_TTL + 2 - cache'[p][x].left][x] = before[AUTH_TTL + 2 - e.left][x]
    BY <1>1, <2>2, <2>4
  <2>6. shown[p][x] <= e.row.v /\ before[AUTH_TTL + 2 - e.left][x] <= e.row.v
    BY <2>2 DEF Recent, EntriesAreRecent
  <2> QED  BY <1>2, <2>2, <2>5, <2>6
<1>6. ReadsAreRecent'
  <2> SUFFICES ASSUME NEW r \in Requests, NEW x \in Things,
                      request'[r].stage = x, request'[r].read # Absent
               PROVE  /\ shown'[request'[r].on][x] <= request'[r].read.v
                      /\ before'[IF request'[r].late THEN 2 ELSE 1][x] <= request'[r].read.v
    BY DEF ReadsAreRecent
  <2> DEFINE q == request[r]
  <2>1. q # Free
    BY <1>1 DEF Free, Things
  <2>2. q \in Underway /\ q.late = FALSE
    BY <1>0, <2>1, PresentRows DEF AccessTypeOK, AccessTick, Underway
  <2>3. request'[r] = [q EXCEPT !.late = TRUE]
    BY <1>1, <2>1
  <2>4. /\ request'[r].stage = q.stage /\ request'[r].read = q.read /\ request'[r].on = q.on
        /\ request'[r].late = TRUE
    BY <2>2, <2>3 DEF Underway
  <2>5. shown[q.on][x] <= q.read.v /\ before[1][x] <= q.read.v
    BY <2>2, <2>4 DEF Recent, ReadsAreRecent
  <2>6. before'[1 + 1][x] = before[1][x]
    BY <1>0, <1>1
  <2> QED  BY <1>2, <2>4, <2>5, <2>6
<1> QED  BY <1>4, <1>5, <1>6 DEF Recent

-----------------------------------------------------------------------------
(* The theorems. *)

AccessInv == AccessForm /\ Counts /\ Recent

LEMMA CountsInit == AccessInit => Counts
<1> SUFFICES ASSUME AccessInit PROVE Counts
  OBVIOUS
<1>1. Answered = {} /\ Passed = {}
  BY DEF AccessInit, Answered, Passed, Free
<1>2. Cardinality(Answered) = 0 /\ Cardinality(Passed) = 0
  BY <1>1, FS_EmptySet
<1>3. PICK top \in Limits : row["tiers"].n = top
  BY DEF AccessInit, Things
<1>4. top \in Nat /\ usage \in 0 .. top /\ answers = usage /\ lost = 0
  BY <1>3, AccessAssumption DEF AccessInit
<1>5. usage + Cardinality(Passed) <= top + Cardinality(Requests) - 1
  BY <1>2, <1>4, CountsAreFinite
<1>6. answers = usage + lost + Cardinality(Answered)
  BY <1>2, <1>4
<1> QED  BY <1>5, <1>6 DEF Counts, AnswersAreCounted, FewHavePassed

LEMMA AccessStep == AccessInv /\ [AccessNext]_avars => AccessInv'
<1> SUFFICES ASSUME AccessInv, [AccessNext]_avars PROVE AccessInv'
  OBVIOUS
<1>0. AccessForm /\ Counts /\ Recent
  BY DEF AccessInv
<1>1. ASSUME NEW r \in Requests,
             \/ \E p \in Procs : Arrives(r, p)
             \/ CacheHit(r) \/ ReadsRow(r) \/ CachesRow(r) \/ rateLimitApiQuota(r)
      PROVE  AccessInv'
  BY <1>0, <1>1, FormRequests, CountsRequests, CountsCheck, RecentRequests DEF AccessInv
<1>2. ASSUME NEW r \in Requests, Finishes(r) \/ incrementForUser(r) PROVE AccessInv'
  BY <1>0, <1>2, FormAnswers, CountsAnswers, RecentRequests DEF AccessInv
<1>3. ASSUME NEW p \in Procs, DeletesKey(p) PROVE AccessInv'
  BY <1>0, <1>3, FormKeyDeleted, CountsOthers, RecentChanges DEF AccessInv
<1>4. ASSUME NEW p \in Procs, invalidateAuthCachesAfterMutation(p) \/ DeletionIsCutOff(p)
      PROVE  AccessInv'
  BY <1>0, <1>4, FormKeyDeleted, CountsOthers, RecentOthers DEF AccessInv
<1>5. ASSUME NEW p \in Procs, QuotaLoads(p) \/ QuotaInvalidates(p) PROVE AccessInv'
  BY <1>0, <1>5, FormQuotaEdited, CountsOthers, RecentOthers DEF AccessInv
<1>6. ASSUME NEW p \in Procs, NEW n \in Limits \cup {NoLimit}, QuotaSaves(p, n) PROVE AccessInv'
  BY <1>0, <1>6, FormQuotaEdited, CountsOthers, RecentChanges DEF AccessInv
<1>7. ASSUME NEW p \in Procs, NEW x \in Things, Evicts(p, x) PROVE AccessInv'
  BY <1>0, <1>7, FormOthers, CountsOthers, RecentOthers DEF AccessInv
<1>8. CASE EditsDatabase
  BY <1>0, <1>8, FormOthers, CountsOthers, RecentChanges DEF AccessInv
<1>9. CASE AccessTick
  BY <1>0, <1>9, FormTick, CountsOthers, RecentTick DEF AccessInv
<1>10. CASE UNCHANGED avars
  BY <1>0, <1>10 DEF avars, AccessInv, AccessForm, AccessTypeOK, QuotasAreNumbers, Counts, AnswersAreCounted,
     FewHavePassed, Answered, Passed, Recent, VersionsGrow, ReadsAreRecent, EntriesAreRecent
<1> QED  BY <1>1, <1>2, <1>3, <1>4, <1>5, <1>6, <1>7, <1>8, <1>9, <1>10 DEF AccessNext

\* An entry is used only while it has time left.
LEMMA RecentMeans == AccessInv => ChangesShow
<1> SUFFICES ASSUME AccessInv, NEW p \in Procs, NEW x \in Things, cache[p][x] # Absent
             PROVE  /\ cache[p][x].row.v >= shown[p][x]
                    /\ cache[p][x].row.v >= before[AUTH_TTL + 1][x]
  BY DEF ChangesShow
<1> DEFINE e == cache[p][x]
<1>1. /\ AccessForm /\ AUTH_TTL \in Nat \ {0}
      /\ shown[p][x] <= e.row.v /\ before[AUTH_TTL + 2 - e.left][x] <= e.row.v
  BY AccessAssumption DEF AccessInv, Recent, EntriesAreRecent
<1>2. e.left \in 1 .. AUTH_TTL /\ e.row.v \in Nat /\ shown[p][x] \in Nat
  BY <1>1, VersionsAreNumbers
<1>3. /\ AUTH_TTL + 2 - e.left \in 1 .. AUTH_TTL + 1 /\ AUTH_TTL + 1 \in 1 .. AUTH_TTL + 1
      /\ AUTH_TTL + 2 - e.left <= AUTH_TTL + 1
  BY <1>1, <1>2
<1>4. before[AUTH_TTL + 1][x] <= before[AUTH_TTL + 2 - e.left][x]
  BY <1>3 DEF AccessInv, Recent, VersionsGrow
<1>5. before[AUTH_TTL + 1][x] \in Nat /\ before[AUTH_TTL + 2 - e.left][x] \in Nat
  BY <1>1, <1>3, VersionsAreNumbers
<1> QED  BY <1>1, <1>2, <1>4, <1>5

LEMMA CountsMean == AccessInv => QuotaHolds
<1> SUFFICES ASSUME AccessInv PROVE QuotaHolds
  OBVIOUS
<1>1. PICK top \in Limits : usage + Cardinality(Passed) <= top + Cardinality(Requests) - 1
  BY DEF AccessInv, Counts, FewHavePassed
<1>2. answers = usage + lost + Cardinality(Answered)
  BY DEF AccessInv, Counts, AnswersAreCounted
<1>3. top \in Nat /\ usage \in Nat /\ lost \in Nat
  BY AccessAssumption DEF AccessInv, AccessForm, AccessTypeOK
<1>4. Cardinality(Answered) <= Cardinality(Passed)
  BY CountsAreFinite, FS_Subset DEF Answered, Passed
<1>5. answers <= top + Cardinality(Requests) - 1 + lost
  BY <1>1, <1>2, <1>3, <1>4, CountsAreFinite
<1> QED  BY <1>5 DEF QuotaHolds

LEMMA AccessIsInvariant == AccessSpec => []AccessInv
<1>1. AccessInit => AccessInv
  BY FormInit, CountsInit, RecentInit DEF AccessInv
<1> QED  BY <1>1, AccessStep, PTL DEF AccessSpec

\* ChangesShow (authCacheStore.ts, authCacheInvalidation.ts): a deleted key, a closed
\* account, a quota or a tier that was changed shows in the process that served the
\* change, and everywhere once the entries from before it have expired.
THEOREM ChangesAreShown == AccessSpec => []ChangesShow
BY AccessIsInvariant, RecentMeans, PTL

\* QuotaHolds (apiLimiterQuota.ts): only requests in flight together, and those whose
\* increment failed, pass an account's quota.
THEOREM QuotaIsKept == AccessSpec => []QuotaHolds
BY AccessIsInvariant, CountsMean, PTL
=============================================================================
