# Nadeshiko in TLA+

Nadeshiko is a search engine of Japanese sentences from anime and drama: an
Express backend over Postgres, Elasticsearch and the pg-boss job queue, a Nuxt
frontend with a server of its own, a Discord bot and an SDK. Backend and frontend
run as several worker processes, so most of what can go wrong is two handlers, a
handler and a job, a page and its late answers, or one of these and somebody
else's service overlapping. This directory models the parts where they do. Paths
are relative to `src/backend/app/` unless they say otherwise; `site/` stands for
`src/frontend/`.

## Inventory

| Part | State it keeps | Operations | What makes it hard, and what makes it correct |
|---|---|---|---|
| Shirabe link (`services/shirabe/connection.ts`, `controllers/shirabeConnectionController.ts`) | one row of `shirabe_connections` per reader: a token pair, a "disconnected" mark, a copy of the reader's word lists | link, re-link, look up, renew, re-read the stack, record a refusal, unlink, re-encrypt | refresh tokens are single use, and showing Shirabe a spent one ends the grant; calls get lost, workers die, rows are read long before they are written. Never a replay; never a grant nobody refers to; marks only on links that are over |
| Segment pipeline (`controllers/segmentController.ts`, `subscribers/`, `workers/`) | `Segment` rows and their tokens, `SegmentRevision`, two pg-boss queues, the search index | create, upload, update, restore, moderate; parse, sweep, index | jobs are sent from inside or after transactions, workers read rows and act on them later. Tokens are of the sentence in the row; search catches up; revisions are a faithful log |
| Shirabe parse limiter (`services/shirabe/parseSegments.ts`) | slots in flight, the limit, the fastest time seen | take and release a slot, record a timing, retry | the limit falls while lanes wait and climbs when slots are gone. No slot is lost; nobody sleeps beside a free one |
| Search index rebuild (`src/backend/config/elasticsearch.ts`) | numbered indices and the alias | reindex, swap, roll back, clean up | runs by hand beside the sync workers, two at a time, and may die. Search is always served from a whole index |
| Email events and suppression (`services/email/`) | `EmailEvent`, `EmailSuppression` | record, apply, suppress, lift | repeated and concurrent webhook deliveries. Counted once, applied once, for a cause that is on record |
| Lifecycle email (`workers/email*.ts`, `mailers/email.ts`) | `EmailLifecycleSend`, jobs of mail | sweep, claim, enqueue, hand over | at most one mail of a kind per account against retries and crashes; nobody who objected |
| Authentication caches, quota, application cache (`middleware/auth*.ts`, `apiLimiterQuota.ts`, `src/backend/lib/cache.ts`) | keys, users and tiers per process; usage per month | verify, cache, invalidate; check, count | rows read before an invalidation are cached after it; usage is checked before and counted after |
| SSR caches (`site/server/utils/ssrCorpusCache.ts`, `ssrAuthCache.ts`, `backendProxy.ts`) | answers per worker process of the frontend | fetch, share, give up on, evict; stamp, forget | calls that answer after they were given up on; a write must show at once to who made it, on every worker |
| Search page (`site/app/components/search/SearchContainer.vue`, `composables/useSearchFetch.ts`) | the list, its counts, the breakdown of what is hidden | navigate, scroll, retry, reveal, hide | answers of replaced requests, navigations that are given up. The page shows one search, the one in its address |
| Audio player and expansions (`site/app/stores/player.ts`, `composables/useYoutubeSegmentPlayer.ts`, `useSegmentConcatenation.ts`) | playlist, audio element, YouTube player, joined audio | play, pause, move on, close; expand, put back | promises of `play()` and audio that is built settle late. One voice; the button tells the truth; no object URL leaks or is played after release |
| Unsubscribe, sign-in codes, rate limiting, collections, reports, activity, pagination | rows | small transactions and upserts | see "Not modelled" |
| Search queries, media and user administration, SDK, Discord bot, pages, deployment | none of their own, or plain rows | | not modelled: no behaviour that an interleaving decides |

Interaction: editors and uploads write rows, from which jobs follow; the parse
worker goes through the limiter to Shirabe; the sync worker writes through the
alias that a rebuild moves; lifecycle mail is claimed under what the webhook's
deliveries put on the suppression list; pages are rendered through the SSR
caches, whose entries a write through the proxy outdates.

`PROJECT.json` lists all parts under `components`, and under `hazards` the places
in the code that a test would hardly reach, with the properties that would catch
it going wrong there.

## Plan and where it stands

1. `ShirabeLink` with its promise `TokenLedger`: checked and proved.
2. `SegmentPipeline` with its promise `RevisionLog`: checked and proved.
3. `EmailEvents`, and `LifecycleEmail` composed with it: checked and proved.
4. `ParseLimiter`, `ReaderCache`, `SearchList`, `Player`: checked and proved.
5. `IndexAlias`, `CorpusCache`, `ApiAccess`: checked and proved.
6. Left: the properties that hold of one grant, one linking handler or an empty
   fault count (below) under weaker hypotheses that say which overlap breaks them.

Every module is written to be proved about: constants with a named assumption,
one action per operation, no RECURSIVE operator.

## Modules

| Module | What it is |
|---|---|
| `ShirabeLink` | the link of one reader: row, lock, handlers, Shirabe, the clock |
| `TokenLedger` | what the handling of tokens promises, without rows, locks or handlers |
| `ShirabeLink_proofs` | theorems about `ShirabeLink`; its refinement of `TokenLedger` |
| `ParseLimiter`, `ParseLimiter_proofs` | the slots shared by all calls of `parseSegments` in a process |
| `SegmentPipeline`, `SegmentPipeline_proofs` | the segments of one episode: rows, revisions, editors, queues, parse and index workers |
| `RevisionLog` | what editors are promised about the history of a segment |
| `EmailEvents` | webhook deliveries, their rows, suppression |
| `LifecycleEmail` | the nightly sweep, the queue, the worker and the relay; EXTENDS `EmailEvents`, whose reports are about the mail sent here |
| `Mail_proofs` | theorems about both |
| `IndexAlias`, `IndexAlias_proofs` | rebuild, rollback and cleanup of the index under the sync jobs |
| `CorpusCache` | one SSR cache of answers about the corpus |
| `ReaderCache` | what the frontend's workers remember of one session |
| `ApiAccess` | an API key, its owner and the tiers through the backend's caches, and the month's quota |
| `Cache_proofs` | theorems about each of these three |
| `SearchList`, `SearchList_proofs` | the list of a search page and the counts beside it |
| `Player`, `Player_proofs` | the audio player, YouTube and expansions |
| `MC...` | instances for TLC: symmetry, definitions of constants, and the choice of one of several small instances by a variable `part` |

### ShirabeLink

A handler (`Workers`) is one request, or one run of the re-encryption script,
with a program counter; each of its steps is one statement or one HTTP call, and
any other handler, Shirabe, the reader and the clock may act in between. A token
pair is `[g, n]`: the grant it was issued under and how often that had been
renewed. `gen[g]` is Shirabe's count, so `[g, n]` with `n < gen[g]` is spent.

| Code | Actions |
|---|---|
| `getReaderAccessToken` | `FindToken`, `GrantOver` and the fallback in `RenewalRefused`, `RenewalTimesOut` |
| `renewAccessToken` | `LockRow` (transaction, `FOR UPDATE`, second look, the call goes out), `ShirabeRenews`, `StoreRenewal`, `StoreRenewalFails` |
| `completeLink`, `saveConnection` | `StartComplete`, `ShirabeGrants`, `ExchangeLost`, `CheckGrant`, `LoadConnection`, `SaveConnection`, `SaveFails`, `ReleaseGrant` |
| `unlink` | `StartUnlink`, `FindConnection`, `UnlinkRevokes`, `RevokeFails`, `RemoveConnection` |
| `refreshStack` | `StartRefresh`, `FindConnection`, then the token, `ShirabeAnswers`, `PatchStack`, `MarkDisconnected` |
| credential lookup and refusal report | `StartLookup`, `FindToken`, `ShirabeAnswers`, `ReportRefusal`, `MarkDisconnected` |
| `reencryptTokens` | `StartReencrypt`, `FindConnection`, `ReencryptTokens` |
| processes and the outside | `Crash`, `StrayArrives` (a request nobody waits for gets there after all), `ReaderRevokes`, `TokenBecomesDue`, `TokenExpires` |

TypeORM's `save` (a SELECT by id and an UPDATE or INSERT) is one step; sealing,
scopes, profile, fingerprint and the word lists are left out; an access token
stays good until it expires or its grant ends. Calls take at most ten seconds and
a token is renewed a minute before it expires, so a token handed out with time
left does not expire before it is used (`TokenExpires`). Pairs age only while
somebody may present them. `SpentRevokes` covers both things a revoke endpoint
may do with a spent refresh token: all theorems but `NothingIsOrphaned` hold for
either.

### ParseLimiter

A call is one `parseSegments`; a lane is one of its workers. JavaScript runs
without interruption up to an await, so `ChunkIsParsed` is the answer, the
feedback of its timing, the release of the slot, the wake of everybody waiting
and the lane's next attempt at a slot, in that order and in one step. Times are
per text, and the factor of a slow chunk is five halves, as in the code.

### SegmentPipeline

A sentence is a model value, and tokens are named by the sentence they analyse;
`at` stands for every other recorded column. An editor is one request to
`segmentController`: it locks its rows (`LockSegments`), saves them one by one
(`SaveUpdate`, `SaveRestore`, `SaveModerated`, `SaveCreated`; the subscriber
queues an ES sync inside `Save`), commits rows and revisions together (`Commit`)
and queues a parse if the Japanese changed (`EnqueueParse`). `RollBack` is a
failed statement or a dead process: what was sent stays sent. `Upload` is
`createSegmentsBatch`, one upsert, whose column list leaves `tokens` alone.
`SendArrives` and `SendFails` are the un-awaited sends to pg-boss, which writes
on its own connection. `PullParse`, `WriteTokens`, `SyncParsed`, `ParseFails` are
`handleTokenParse`; `handleTokenSweep` is the nightly sweep; `PullSync`,
`WriteIndex`, `IndexPartly`, `IndexFails` are `handleBulkIndex`.

A queue is a set of segments, since `sendDebounced` coalesces and a second waiting
job would only read the row again; the CREATE and UPDATE queues, whose handlers
are the same, are one, served by as many index workers as there are `Indexers`; `IndexFails` and `ParseFails` allow both outcomes, a job
that pg-boss runs again and one that has failed too often. A transaction locks its
rows in one step, so deadlock between row locks is not seen (an upsert locks in
the order of its list, a moderation in that of its query); Postgres would abort
one side, which is `RollBack`.

### EmailEvents and LifecycleEmail

A report is known by the relay's request id and is delivered until it is answered
with a 200, by several handlers at once if it comes to that. A delivery looks for
the row, saves it, and applies what the event means (`recordOne`, `applyEvent`);
`SaveIsUnanswered` is a save whose result the process never learns. A sweep goes
through the kinds of mail in order; for each it reads its candidates, claims
(`INSERT ... ON CONFLICT DO NOTHING`), and queues; the worker looks at the gate and
the suppression list and hands the mail to the relay, which may take it without
our learning. A night stands for a day. The templates, and mail that is not of the
sweep, are left out, and so are webhook payloads without a request id, which are
stored once per delivery.

### IndexAlias

A runner is a person with a shell and a program counter per command; the steps of
a command are its calls to Elasticsearch and its pages of rows. An edit is its
commit, and a sync job reads a row (`SyncReads`) and later writes what it read
through the alias, wherever that is by then (`SyncWrites`): a job may have been sent
by a transaction that had not committed, and a reading may be written late, twice or
never, so any row may be read at any time and a reading stays (`SegmentPipeline` has
where the jobs come from). `since` is a history of what each index may lack: rows
edited since it was created, or written to it by a late job as they were before an
edit. `mishap` records the two things
the code does not survive: a swap that was done and not answered is taken for a
failure and deletes the index search is on (`elasticsearch.ts:281`), and a cleanup
deletes what another command is filling or has just moved to. Nothing is claimed
after it.

### CorpusCache, ReaderCache, ApiAccess

Time is counted in ticks. In `CorpusCache` a call that is given up on after
`inflightTimeoutMs` is not stopped, and still answers. Its Map is a set of entries,
each with the number of its call: an entry is inserted when its call is made and
keeps its place when the answer replaces it, so the order of the calls is the order
of the Map that `gc` drops from. In `ReaderCache` the account
is the number of writes the backend has taken, and a stamp (the cookie a write
leaves) becomes part of the key of what is held; `past` is a history of the
account by ticks. In `ApiAccess` a row has a version, and a request reads key, user
and tiers through the cache of its process, is held against the usage, answered
and then counted; what a change deletes from which process's cache is the code's.
The processes may start in the midst of a month, with empty caches and some usage.
Every account's tier is in the table: what `quota.ts` falls back to for one that is
not is left out. A request to the backend sees at most one tick begin, as does the
fetch of a word lookup, which times out in seconds (`shirabeReader.ts:137`). The
fetches of a render have no timeout (`plugins/identity-auth.ts:80-90, 118-123`) and
may take any number of ticks; `out` counts them, up to one more than an answer is kept.

### SearchList and Player

A step is a turn of the browser's event loop. In `SearchList` a page of results is
known by the search it was asked with and its number; a newer request aborts the
older, whose answer may be there already (`late`). An address has the part its page
is keyed by (`Param`), the word it searches for (`Word`, which `?query=` may set
without another page), and a category (`RawCategory`), without which it has the
reader's, or all of them within a title (`resolveCategorySlug`). A page may be
mounted with a list and counts that the page around it asked for (`PageSearches`),
with either, or with neither, when the list is asked for first and the counts when
it is settled (`CountsFollow`). `adrift` and `detour` record what the code does not
follow: the reader's preferences change without the list being asked for again, the
page around it asked with other preferences or with the reader's titles first, the
category changes only because `?media=` does, and a navigation that is given up for
another leaves the address of the first applied. In `Player` an element is what it is on and whether it
sounds; `plays` are the promises of `play()` and waits for data, each of the present
or of the past; `stray` records four ways in which the button gets out of step with
the sound (`next` on the last clip, `pause` before the YouTube player is there,
`restart` of a YouTube clip that has ended, a list played from beyond its end). The
two flags that decide what follows the end of a clip may change at any time, so any
of the three may follow. The implicit category that lands late
(`SearchContainer.vue:819-828`), volume, speed and seeking are left out.

## Runs

Several runs hold more than one small instance, chosen by `part` at the start, so
that each question is asked of the smallest system that has its hazard.

| Run | Checks | Shows |
|---|---|---|
| `shirabe_pair` | `AloneLeavesNoOrphan`, `ReplayOnlyAfterLoss`, `StoredPairIsNewest`, `ReleaseSparesTheLink`, `ImplementsLedger` | parts `pair` (two handlers that link, re-link, renew and refresh, two grants, one fault: the row lock and the second look under it are enough, and the ledger's promise is kept) and `alone` (lookups, refreshes, and one handler at a time that links or unlinks, no faults: no grant is left behind) |
| `shirabe_waits` | `EveryHandlerFinishes`, `MarkedLinkIsOver`, `DeadLinkIsNoticed`; `SlotsAreKept`, `LimitIsKept`, `LimitFollowsTheTimings`, `EveryCallSettles` | parts `marks` (no fault: a mark means the link is over, and a dead link is marked in the end), `deaths` (lost calls, dead workers and re-encryption: nobody waits for ever), `parses` (a call of four chunks and one of one, ceiling three, one failure) |
| `edits` | `TokensDescribeTheSentence`, `SearchServesWhatWasSaved`, `ImplementsRevisionLog` | parts `tokens` (one segment, two editors, two parsers, an index worker), `history` (two segments moderated and indexed), `again` (the same uploaded again) |
| `jobs` | `UnparsedIsParsed`, `WrongTokensAreReplaced`, `UploadsReachTheIndex` | parts `parse` (everybody edits and things fail) and `index` (uploads and parses, two index workers, nothing fails: search ends up showing every row as it is, in executions in which no row is with both workers at once) |
| `email` | `CauseIsEarned`, `SoftRunIsNoticed`, `MailedOnce`, `ClaimsAreKept`, `OnlyWillingReaders`, `NothingAfterABounce`, `VerdictsSuppress`, `DueReadersAreMailed` | parts `reports` (two deliveries at a time of two reports, one fault, one lift) and `mail` (two sweeps of two kinds over two nights, the worker, and a report of a bounce, delivered twice at a time) |
| `site` | `AliasIsServed`, `RollbackServesWhatWasServed`; `CallsKeepApart`; `WritesShow`, `StaleForAMinute`; `ChangesShow`, `QuotaHolds`; `ListIsOneSearch`, `PageIsOfTheAddress`, `NothingLeftSpinning`; `OneVoice`, `ButtonTellsTheTruth`, `BlobsAreReleased`, `ExpansionIsHeard` | parts `index`, `corpus`, `reader`, `access`, `search`, `player`: one instance of each of the six modules |

`CHECK_DEADLOCK FALSE` is set where the system may stop: when the bounded edits,
writes or expansions have been made and every job is done.

Six runs are expected to be violated; each is a disagreement between the code and
what its comments say, with a counterexample of a few steps:

| Run | What happens |
|---|---|
| `stale_edit` | the subscriber's sync job is picked up before the edit commits: search keeps the old row, and nothing queues another sync |
| `index_race` | the CREATE worker reads a row without tokens, the UPDATE worker reads and writes it with them, and then the first writes its document: search keeps it |
| `reupload` | an upload over an existing row changes its sentence and not its tokens, until a parse replaces them |
| `email_stored` | a delivery finds its own row after a save that reported an error, or that of a delivery that ended before it applied it, takes it for another's and applies nothing; every redelivery does the same |
| `search_breakdown` | a breakdown asked for before the search changed is shown, and kept, for the search that came after |
| `player_pause` | a YouTube clip that has ended is restarted and ends again: nobody looks for its end, and the button says pause over silence |

### Bounds

- Shirabe: `MaxRenewals` (a grant renewed more often is ended by Shirabe) and
  `MaxFaults` (lost calls, failed writes and crashes together). Two handlers are
  enough for every overlap of two operations, two grants for a re-link that
  replaces one, and one fault in each place leaves any call half done. `MCSpec`
  of `MCShirabeLink` leaves the re-encryption script out (see below); its part `pair`
  has no lookups, no unlinks and no token that expires after the fault, its part `alone` no faults, no token that expires, and
  one handler at a time that links or unlinks.
- Parses: times 2, 5 and 6 are the fastest, one that is just not slow and one that
  is slow; five chunks let the limit fall, climb and fall again.
- Segments: `MaxEdits` (requests that write), `MaxAt`, `MaxFaults`. Three edits are
  an upload and two that overlap; two sentences are an old one and a new one.
- Mail: one address, since nothing relates two; two reports reach a soft limit of
  two; two sweeps at a time; two nights and two kinds, one each.
- `site`: two segments with a page of one, three versions and two edits; three ids
  with room for one entry; two workers, two browsers, one write; two processes, two
  requests, a quota of one; two of six addresses for a reader to go between (a word;
  the word within a title the reader may hide, in another order, in a category of its
  own; another word on the same page and on a page of its own), chosen at the start
  (`way`), and two pages; a list of a sentence, a YouTube clip
  and a sentence, two expansions. Four parts are narrowed by constraints on the
  step, named in `MCSite`: `FewEdits` (a second edit only while nothing has failed
  and one runner has run a command, sync jobs only while one of the two is so), `FewEntries` (four entries in all workers
  together), `FewChanges` (two requests at once, or any answer, only while nothing
  was changed), `FewAnswers` (two answers on their way beside a replaced one; one and
  no replaced one where a navigation was given up, or a list or counts are of another
  search without a preference being saved; none with a breakdown; and nothing hidden
  on the ways to another category or word, `MayHide`). `IndexAlias` stops
  at a `mishap`. Processes, workers and runners are permuted, and requests and
  browsers (`Alike`): no module has both kinds.

### Fairness

- Shirabe (`FairSpec`): statements complete, and calls end by their own timeouts
  (`connection.ts:380`), hence weak fairness of a handler's free steps; statements
  that wait for the row get it in turn (Postgres queues them), hence strong
  fairness of those. No visit, fault, revocation or tick of the clock has to
  happen; `DeadLinkIsNoticed` states for itself that the reader keeps visiting.
- Limiter: a lane that was woken runs, and a request is answered or times out.
- Segments: commits, enqueues, sends and job steps go on (weak); `LockSegments`
  and `WriteTokens` wait for row locks (strong); the sweep is a cron job. Nobody
  has to edit and nothing has to fail.
- Mail: a delivery that began goes on, the relay repeats a report until it is
  answered, sweeps and workers go on, and the nightly sweep is a cron job.
- The other modules state safety only.

## What the passing runs leave out because the code does not provide it

- `MarkedLinkIsOver` fails with a fault: after a renewal that got no answer the
  old token is handed out even if it has expired, and the 401 it draws marks a
  live link (`connection.ts:615-620`). It fails with a second grant: a refusal
  of the old one is recorded on whatever row the reader has by then (`:762`). A
  link marked so stays marked: `getReaderAccessToken` gives a marked row no
  token (`:604`), so the read that would clear the mark is never made.
- `NoOrphanGrant` fails if Shirabe does nothing with a spent token that is handed
  back: `unlink` revokes with the refresh token it read without the lock, which a
  renewal may have spent since. It fails with two linking handlers: `unlink` revokes what its
  unlocked read returned and removes the row by id, so a re-link that saves in
  between has its grant removed from the table and never revoked; two completions
  may replace the same pair. It fails with faults, as `revokeGrant` swallows a
  failed call, by design.
- The properties of the pair fail when `reencryptTokens` runs beside the handlers:
  it saves whole entities its script loaded earlier, so a renewal in between is
  undone, and the spent token on the row ends the grant when it is next used.
- `IndexCatchesUp` fails with editors (`stale_edit`), and without any as soon as two
  index workers have a row at once (`index_race`), as the row is read and the document
  written by two calls without a version, and the later write may be of the older
  read: the CREATE and UPDATE queues each have a worker (`esSyncWorker.ts:18, 26`),
  and each takes several jobs at a time. `UploadsReachTheIndex` therefore speaks of
  executions in which no row is with two index workers at once.
- `WrongTokensAreReplaced` and `UploadsReachTheIndex` speak of executions in which
  nothing was lost: the sweep looks for missing tokens, not for wrong ones, and
  nothing looks for documents that are behind. A segment restored from DELETED
  without tokens waits for the sweep.
- `VerdictsSuppress`, `NothingAfterABounce`, `DueReadersAreMailed` hold as long as
  no call fails; `SoftRunIsNoticed` also as long as nobody lifts an address. A
  second delivery of a bounce finds the row and may answer 200 before the first has
  suppressed anything, so `NothingAfterABounce` speaks of addresses no delivery is
  still at. A claim whose enqueue fails is spent, by design.
- Edits made while an index is being rebuilt are missing from it after the swap, and a
  sync job that read a row before an edit may write it over what is newer, in the new
  index too: `AliasIsServed` says that search lacks nothing else.
- A fetch that is out while a session is forgotten puts back what it read before
  the write, so that other browsers of the reader may see it for a minute more; a
  failed identity fetch leaves the reader signed out for as long. The fetch of a
  render has no timeout: one that is out for longer than an answer is kept may put
  what it read before the write under the plain key when the writer's own stamp, kept
  for twice as long as an answer, has run out. `ssrAuthCache.ts:32-34` and `:38-43`
  count on there being "nothing left to miss past" by then. `WritesShow` and
  `StaleForAMinute` say what holds all the same, `out` being how long a fetch was out.
- The first page of a search, when the page around the list has asked for it, was
  asked for with `preferMedia` (`pages/search/[[query]].vue:122`), which multiplies
  the scores of the reader's own titles; the later ones are not
  (`SearchContainer.vue:382-398`) and go on from its cursor in another order, so
  results may be repeated or missed. The API's description of `preferMedia`
  (`src/backend/docs/openapi/components/requestBodies/SearchRequest.yaml:23-28`) and
  the page's own comment (`[[query]].vue:71-73`) promise a tie-break that leaves the
  pages and the cursor as they are. A server that has no preferences of the reader
  (`SearchContainer.vue:423`) asks without them. `ListIsOneSearch` and
  `PageIsOfTheAddress` except such a list until it is asked for anew.
- The counts are asked for again when the `?category=` of an address changes
  (`SearchContainer.vue:867`), and not when what it resolves to does: adding or
  dropping `?media=` changes that for a reader with a default category (`:331-334`).
  `PageIsOfTheAddress` excepts those counts.
- The quota may be passed by the requests that were in flight together, and by
  those whose increment failed. An administrator's change of a quota saves the
  whole `User` row it has read.

## Theorems

TLAPS checks these for every value of the constants.

| Theorem | States |
|---|---|
| `TypeCorrect` | `Spec => []TypeOK` of `ShirabeLink` |
| `NeverReplayed` | `Spec => []ReplayOnlyAfterLoss` |
| `NewestIsStored` | `Spec => []StoredPairIsNewest` |
| `LinkIsSpared` | `Spec => ReleaseSparesTheLink` |
| `LedgerImplemented` | `Spec => ImplementsLedger`, by the mapping at the end of `ShirabeLink` |
| `MarksAreForTheOver` | `Spec => []MarkedLinkIsOver` (which is about runs without a fault), with one grant to have |
| `NothingIsOrphaned` | `Spec => [](faults = 0 => NoOrphanGrant)`, with one linking handler |
| `NoSlotIsLost`, `LimitIsNeverPassed` | `LimiterSpec => []SlotsAreKept`, `LimiterSpec => LimitIsKept` |
| `TimingsSetTheLimit` | `LimiterSpec => []LimitFollowsTheTimings` |
| `RowsAreHeld` | `Spec => [](TypeOK /\ EditInv)` of `SegmentPipeline` |
| `HistoryIsKept` | `Spec => ImplementsRevisionLog` |
| `TokensAreOfTheSentence` | `Spec => []TokensDescribeTheSentence` |
| `SearchIsFaithful` | `Spec => []SearchServesWhatWasSaved` |
| `Types` | `Spec => []TypeOK` of mail |
| `ReportsCountOnce` | `Spec => []CountedOnce` |
| `CausesAreEarned`, `FirstCausesStay` | `Spec => []CauseIsEarned`, `Spec => FirstCauseStays` |
| `SoftRunsAreNoticed`, `BouncesAreHeeded` | `Spec => []SoftRunIsNoticed`, `Spec => NothingAfterABounce` |
| `OnceInALife`, `DryRunsAreFree` | `Spec => []MailedOnce`, `Spec => []DryRunsSpendNothing` |
| `ClaimsAreNotLost` | `Spec => []ClaimsAreKept` |
| `OnlyWillingReadersAreTaken` | `Spec => OnlyWillingReaders` |
| `SearchIsServed`, `RollbackIsToServed` | `IndexSpec => []AliasIsServed`, `IndexSpec => RollbackServesWhatWasServed` |
| `CallsAreKeptApart` | `CorpusSpec => []CallsKeepApart` |
| `NothingIsOlder`, `WritesAreShown` | `ReaderSpec => []StaleForAMinute`, `ReaderSpec => []WritesShow` |
| `ChangesAreShown`, `QuotaIsKept` | `AccessSpec => []ChangesShow`, `AccessSpec => []QuotaHolds` |
| `ListIsRight`, `SpinnerIsTrue` | `SearchSpec => []ListIsOneSearch`, `SearchSpec => []NothingLeftSpinning` |
| `AddressIsShown` | `SearchSpec => []PageIsOfTheAddress` |
| `OneVoiceAtATime`, `BlobsDoNotLeak` | `PlayerSpec => []OneVoice`, `PlayerSpec => []BlobsAreReleased` |
| `ButtonIsTrue`, `ExpansionsAreHeard` | `PlayerSpec => []ButtonTellsTheTruth`, `PlayerSpec => ExpansionIsHeard` |

Assumptions: the named assumption of each module (the constants are what their
comments say), which TLC evaluates in every run; for the link, `NoReseal`: the
re-encryption script is not run, because with it the theorems are false; for
`MarksAreForTheOver` also `OneGrant`, and for `NothingIsOrphaned` `OneLinkAtATime`
(one handler links and unlinks, and Shirabe ends a grant that is handed back by a
spent token), any number of others looking up, renewing and refreshing beside it:
the section above says how each fails without, and why only while `faults = 0`; for
`TokensAreOfTheSentence` and `SearchIsFaithful`, `NoReupload`: no upload replaces
the sentence of a segment that exists, because then they are false (`reupload`).

Why an invariant stronger than the property is needed, and which it is:

- Link (`IInv`). That a token is sent unspent depends on the row holding the newest
  pair (`NewestInv`), which depends on nobody else writing the pair while a renewal
  is between its two halves (`LockInv`), which depends on the other writer,
  `SaveConnection`, only storing pairs of grants the row never held (`FreshInv`,
  `AdoptedInv`); `HandlerInv` says what a handler has in hand at each step. The same
  facts say that a replaced pair is never of the grant on the row, hence
  `LinkIsSpared`, and show each step of a handler to be a step of the ledger or none.
- Marks (`MarkInv`). Nobody has a pair that Shirabe has not issued, so the one a
  renewal stores is new and has its full time: a token is refused only when its
  grant is over, and with one grant that is for good.
- Orphans (`OrphanInv`). Between the read and the write of the one handler that
  links, the link on the row stays the one it read: others renew its pair, and with
  it keep its id and its grant.
- Limiter (`LimiterInv`). The counter is the number of lanes with a request out, and
  lanes of a call that has not started are all out: only there does a step move the
  counter by more than one. A lane is left waiting only by a step in which the
  counter was at the limit, and every step that lowers the counter or moves the limit
  wakes all the others. For the limit itself (`PaceInv`): the floor is the fastest
  timing so far, hence a chunk slow by the floor is slow by one of those before it;
  and since the last slow one the limit has climbed once for every `RecoverAfter`
  chunks, the counter being what is over.
- Pipeline. Everything rests on `EditInv`: from its `SELECT ... FOR UPDATE` to its
  end, the rows a transaction found are the rows there are, because uploads, token
  updates and other transactions wait for the lock; at the commit each has been
  saved. So the revision a commit adds is of what it replaces, and `Commit` is a step
  of `RevisionLog`. A commit writes what the transaction made of the rows it found,
  so tokens must agree with their sentence there too (`TokenInv`); the parser's own
  write is right because it looks at the sentence again. An index job holds a row for
  some time: `IndexInv` says that what it read stays recorded, by the row or by a
  revision, whatever is written until it answers.
- Mail (`EInv`, `MInv`). A row is saved once, and what a delivery is about to apply is
  of a row that is there; a mail is in one place only, with its claim, and what the
  relay took is accounted for by how its job ended or by an answer that was lost.
  Claims that came to nothing are no more than the faults (`ClaimsInv`): a sweep has
  one reader in hand. A delivery keeps its address until it is suppressed, so a run
  of soft bounces has a delivery at it that stores or counts after the last of them
  (`OnRecord`, `NoticedInv`), and an answered hard bounce is on record and either
  suppressed or in the hands of a delivery.
- Index (`IndexInv`). As long as there was no mishap, what is between the alias and
  the index a command started from has been served, and the index it fills is the
  next one, nobody else's (`Order`); and it lacks nothing up to the last page written
  but what was edited, or undone by a late job, since (`Filled`). A cleanup keeps the alias, a rollback goes
  to the largest index below it, which was served.
- Corpus (`CorpusInv`). The entry of a key is of its last call, and a call neither
  overdue nor crowded out still has its entry: only one can. An entry put out by
  `gc` is one with `maxEntries` later entries beside it.
- Access (`AccessInv`). Answers are what was counted, what was lost and what is yet
  to be counted; who gets past the check finds, with those past it already, no more
  than the largest limit in force then and the other requests. Versions: what a
  process keeps, and what a request of it has read, is no older than what it was last
  shown, and than the row was when the time to live began (`Recent`).
- Reader (`AgeInv`, `ShowInv`). What is kept is as old as the ticks it was kept for and
  those its fetch was out. A stamp is in nobody's hands before its write is answered, so whatever is
  held under it was read after the write; and it outlives every answer from before whose fetch was not
  out for longer than an answer is kept.
- Search list (`SearchInv`). An answer is put below what is there without a look at
  it; it fits because a current request was asked for with the search the page shows
  and the cursor it still has. Counts that are of another search are being asked for, or
  will be when a request for the list is settled (`CountsToCome`). The spinner is part of it: whoever
  replaces a request turns it on again, and a request that was replaced no longer
  turns it off.
- Player (`PlayerInv`). The element and the YouTube player are never both in hand, and
  a promise of the present belongs to an element that is there. An element is on its
  clip's own audio or on the joined audio the clip has now, so that putting an
  expansion back finds every element on it; and at most one joined audio is there.
  The button (`ButtonInv`): a YouTube player that is not there yet will play what it
  was told last, and the button knows; one that sounds without a clip is a stray.

Only model-checked: what is temporal under fairness (`EveryHandlerFinishes`,
`DeadLinkIsNoticed`, `EveryCallSettles`, `UnparsedIsParsed`,
`WrongTokensAreReplaced`, `UploadsReachTheIndex`, `VerdictsSuppress`,
`DueReadersAreMailed`), which is out of the prover's reach together with ENABLED.
Nothing here is computed by recursion; where a proof needs the largest of a finite
set, or a minimal one, it takes it from the library's well-founded ordering of finite
subsets.

## Not modelled

- Of the link: the word lists, their fingerprint and `refreshIfStale`'s throttle;
  the database pool (a renewal holds one of its connections for up to ten seconds,
  `connection.ts:650`); paging of the re-encryption script; the circuit breaker of
  the frontend's calls to Shirabe, a hint about latency by its own comment.
- Of the pipeline: hard deletion (no code removes a segment), `bin/reparseTokens.ts`,
  `SWEEP_LIMIT` and the batch sizes (rows that fail every night may crowd out
  others), columns no revision records (`storage`, `hashedId`).
- Of the caches: sessions, key permissions, the start of a month, `getOrCompute`.
- Collections, reports, activity, preferences and keyset pages: single statements or
  short transactions over one user's rows. Positions in a collection are the
  reader's to set, so nothing is promised of them.
- Sign-in codes and rate limits belong to libraries outside the repository.
- Search queries, mappers, pages, the Anki export, the SDK and its generated types,
  the Discord bot and deployment keep no state that an interleaving decides. They,
  with markup and generated code, are most of the repository's lines, which is why
  the share of lines that `map` names is small.
