----------------------------- MODULE SearchList -----------------------------
(***************************************************************************)
(* The list of a search page and the counts beside it                      *)
(* (frontend/app/components/search/SearchContainer.vue, over               *)
(* useSearchFetch.ts), for one reader in one tab.  The reader moves        *)
(* between searches, scrolls, looks past what they hide and hides more,    *)
(* while answers are on their way; a newer request aborts the one before,  *)
(* whose answer may be there already.                                      *)
(*                                                                         *)
(* A page of results is known by the search it was asked with and its      *)
(* number.  The first may have been asked for by the page around the list  *)
(* (pages/search/[[query]].vue), with the preferences known there, none on *)
(* a server without the reader's, and with the reader's own titles put     *)
(* first, which the list itself never asks for.                            *)
(*                                                                         *)
(* A single sentence, a collection, a 403, the check of an empty search    *)
(* and a default category that arrives late are left out.                  *)
(***************************************************************************)
EXTENDS Naturals, Sequences

CONSTANTS
    Routes,        \* addresses of searches
    Param(_),        \* the part of an address the page is keyed by, `:query`
    Word(_),         \* what is searched for: that part, or `?query=` without it
    RawCategory(_),  \* its `?category=`
    Titles,          \* addresses with the `?media=` of the title this reader may hide
    DefaultCategory, \* the category the reader has chosen for searches without one
    PageCount        \* pages a search has

Nowhere == "nowhere"
NoCategory == ""

ASSUME SearchAssumption ==
    Titles \subseteq Routes /\ PageCount \in Nat \ {0} /\ Nowhere \notin Routes

VARIABLES
    url,        \* currentRoute
    pending,    \* where the router is going
    view,       \* what applyRouteQuery made of an address
    hides,      \* do the reader's preferences hide the title?
    toggle,     \* the change of them on its way
    reveal,     \* revealHidden
    override,   \* showHiddenMediaOverride
    sentences,      \* the list and its flags
    asked,      \* the request for sentences that is current
    late,       \* one that it replaced, unanswered
    stats,      \* the counts
    counting,   \* the request for them that is current
    breakdown,  \* the titles behind the notice
    \* History:
    adrift,     \* what is of another search than this, and has not been asked for
                \* since: the preferences changed, the page asked with others, the
                \* way goes to another page, or the category came with the title
    detour      \* was a navigation given up for another?

reader == <<hides, toggle, reveal, override>>
svars == <<url, pending, view, reader, sentences, asked, late, stats, counting, breakdown,
           adrift, detour>>

Both == {"list", "counts"}
None == [none |-> TRUE]

\* An address without a category has the reader's, but within a title all of them.
resolveCategorySlug(r) ==
    IF RawCategory(r) # NoCategory THEN RawCategory(r)
    ELSE IF r \in Titles THEN "all" ELSE DefaultCategory

SearchScopes == [view : Routes, hides : BOOLEAN, prefer : BOOLEAN]
StatScopes == [word : {Word(r) : r \in Routes}, category : {resolveCategorySlug(r) : r \in Routes},
               hides : BOOLEAN]
ListPages == [scope : SearchScopes, n : 1 .. PageCount]

\* A request for sentences is for the navigation `to`, if there is one; the first of a
\* page that has no counts yet is followed by the request for them.
Sentences == [scope : SearchScopes, cursor : 0 .. PageCount, to : Routes \cup {Nowhere},
              counts : BOOLEAN]

SearchTypeOK ==
    /\ url \in Routes /\ view \in Routes /\ pending \in Routes \cup {Nowhere}
    /\ hides \in BOOLEAN /\ reveal \in BOOLEAN /\ override \in BOOLEAN
    /\ toggle \in [kind : {"media", "category"}, previous : BOOLEAN] \cup {None}
    /\ sentences \in [pages : Seq(ListPages), cursor : 0 .. PageCount, loading : BOOLEAN,
                     end : BOOLEAN, more : BOOLEAN, button : BOOLEAN, failed : BOOLEAN]
    /\ asked \in Sentences \cup {None} /\ late \in Sentences \cup {None}
    /\ stats \in [of : StatScopes \cup {None}, failed : BOOLEAN]
    /\ counting \in StatScopes \cup {None}
    /\ breakdown \in [of : SearchScopes \cup {None}, loading : SearchScopes \cup {None},
                     failed : BOOLEAN]
    /\ adrift \subseteq Both /\ detour \in BOOLEAN

searchScope == [view |-> view, hides |-> hides /\ ~reveal, prefer |-> FALSE]

\* What the counts of a search depend on.
Counted(scope) == [word |-> Word(scope.view), category |-> resolveCategorySlug(scope.view),
                   hides |-> scope.hides]
StatScope == Counted(searchScope)
isViewingHiddenMedia == view \in Titles /\ hides /\ ~override

-----------------------------------------------------------------------------
\* Requests.  An operator that changes the state reads what the step has already
\* made of the address and the preferences.

\* What was current is aborted, and taken all the same if it comes (a mutant).
cancelOnlyAborts == UNCHANGED <<asked, late>>

\* The counts are asked for when q is settled.
BringsCounts(q) == q # None /\ q.counts

\* The sequencer: what was current is aborted, and stale if it comes all the same.
abort == late' = IF asked = None THEN late
                 ELSE [asked EXCEPT !.counts = BringsCounts(asked) \/ BringsCounts(late)]

cancelSentences == asked' = None /\ abort

startSentences(scope, cursor, to) ==
    /\ asked' = [scope |-> scope, cursor |-> cursor, to |-> to, counts |-> FALSE]
    /\ abort

\* The counts are asked for before the address is applied (a mutant).
countBefore == counting' = StatScope

loadStats == counting' = StatScope'

resetSentencePagination ==
    [sentences EXCEPT !.pages = <<>>, !.cursor = 0, !.end = FALSE, !.more = TRUE]

\* A fresh list, for the navigation to `to` if there is one.
loadFresh(to) ==
    IF isViewingHiddenMedia'
      THEN /\ cancelSentences
           /\ sentences' = [sentences EXCEPT !.pages = <<>>, !.end = TRUE, !.more = FALSE,
                                     !.loading = FALSE]
      ELSE /\ startSentences(searchScope', 0, to)
           /\ sentences' = [resetSentencePagination EXCEPT !.loading = TRUE, !.button = FALSE]

\* The next page, when the end of the list comes into sight or the button is pressed.
loadAppended ==
    IF isViewingHiddenMedia
      THEN /\ cancelSentences
           /\ sentences' = [sentences EXCEPT !.pages = <<>>, !.end = TRUE, !.more = FALSE,
                                     !.loading = FALSE]
      ELSE /\ ~sentences.end /\ ~sentences.loading
           /\ startSentences(searchScope, sentences.cursor, Nowhere)
           /\ sentences' = [sentences EXCEPT !.loading = TRUE, !.button = FALSE]

\* The breakdown of another search is dropped; one on its way is not.
watchSearchScope ==
    breakdown' = IF searchScope' = searchScope THEN breakdown
                 ELSE [breakdown EXCEPT !.of = None, !.failed = FALSE]

-----------------------------------------------------------------------------
\* The page is mounted, with what the server has already asked for or without.

NewList == [pages |-> <<>>, cursor |-> 0, loading |-> FALSE, end |-> FALSE, more |-> TRUE,
            button |-> FALSE, failed |-> FALSE]

Primed(scope) ==
    [NewList EXCEPT !.pages = <<[scope |-> scope, n |-> 1]>>,
                    !.cursor = IF PageCount > 1 THEN 2 ELSE 0,
                    !.end = PageCount = 1, !.more = PageCount > 1]

Hidden == [NewList EXCEPT !.end = TRUE, !.more = FALSE]

\* What the page at r may have asked with.
PageSearches(r) == [view : {r}, hides : BOOLEAN, prefer : BOOLEAN]

\* The list of a page at r, for a reader who hides the title or not, where the page
\* around it has asked with q and what has `come` was answered.  What has not is asked
\* for now, the counts after the list.
Mounted(r, h, q, come) ==
    LET scope  == [view |-> r, hides |-> h, prefer |-> FALSE]
        asking == "list" \notin come /\ ~(r \in Titles /\ h)
    IN  [list   |-> IF "list" \in come THEN Primed(q)
                    ELSE IF asking THEN [NewList EXCEPT !.loading = TRUE] ELSE Hidden,
         asked  |-> IF asking THEN [scope |-> scope, cursor |-> 0, to |-> Nowhere,
                                    counts |-> "counts" \notin come] ELSE None,
         stats  |-> [of |-> IF "counts" \in come THEN Counted(q) ELSE None, failed |-> FALSE],
         counting |-> IF asking \/ "counts" \in come THEN None ELSE Counted(scope),
         adrift |-> {x \in come : IF x = "list" THEN q # scope ELSE Counted(q) # Counted(scope)}]

NoBreakdown == [of |-> None, loading |-> None, failed |-> FALSE]

SearchInit ==
    /\ url \in Routes /\ view = url /\ pending = Nowhere
    /\ hides \in BOOLEAN /\ toggle = None /\ reveal = FALSE /\ override = FALSE
    /\ \E q \in PageSearches(url), come \in SUBSET Both :
         LET m == Mounted(url, hides, q, come) IN
         /\ sentences = m.list /\ asked = m.asked /\ stats = m.stats
         /\ counting = m.counting /\ adrift = m.adrift
    /\ late = None /\ breakdown = NoBreakdown /\ detour = FALSE

-----------------------------------------------------------------------------
\* Navigation.

\* The router does not go where it is (and runs no guard), but drops where it went.
StayHere ==
    /\ pending # Nowhere
    /\ pending' = Nowhere /\ detour' = TRUE
    /\ UNCHANGED <<url, view, reader, sentences, asked, late, stats, counting, breakdown, adrift>>

\* A new list, and new counts if the word or the category in the address is not that of
\* the page the router is on.  A category that only resolves to another is not looked at.
\* Another page is left to ask by itself.
onBeforeRouteUpdate(to) ==
    /\ to # url
    /\ view' = to /\ pending' = to /\ detour' = (detour \/ pending \notin {Nowhere, to})
    /\ UNCHANGED <<url, hides, toggle, stats>>
    /\ IF Word(to) # Word(url) THEN reveal' = FALSE /\ override' = FALSE
       ELSE UNCHANGED <<reveal, override>>
    /\ watchSearchScope
    /\ IF Param(to) # Param(url)
         THEN adrift' = Both /\ UNCHANGED <<sentences, asked, late, counting>>
         ELSE /\ loadFresh(to)
              /\ IF Word(to) # Word(url) \/ RawCategory(to) # RawCategory(url)
                   THEN loadStats /\ adrift' = {}
                   ELSE /\ UNCHANGED counting
                        /\ adrift' = IF resolveCategorySlug(to) = resolveCategorySlug(url)
                                     THEN adrift \ {"list"} ELSE {"counts"}

\* The guard has waited for its list, or for its list to be given up.
NavigationEnds ==
    /\ pending # Nowhere /\ Param(pending) = Param(url)
    /\ (asked # None => asked.to # pending)
    /\ url' = pending /\ pending' = Nowhere
    /\ UNCHANGED <<view, reader, sentences, asked, late, stats, counting, breakdown, adrift, detour>>

\* Another page: the list is replaced by one of its own.
PageIsReplaced ==
    /\ pending # Nowhere /\ Param(pending) # Param(url)
    /\ url' = pending /\ view' = pending /\ pending' = Nowhere
    /\ reveal' = FALSE /\ override' = FALSE /\ UNCHANGED <<hides, toggle>>
    /\ \E q \in PageSearches(pending), come \in SUBSET Both :
         LET m == Mounted(pending, hides, q, come) IN
         /\ sentences' = m.list /\ asked' = m.asked /\ stats' = m.stats
         /\ counting' = m.counting /\ adrift' = m.adrift
    /\ late' = None /\ breakdown' = NoBreakdown /\ detour' = FALSE

-----------------------------------------------------------------------------
\* What the reader does on the page.

loadMore ==
    /\ sentences.button \/ (sentences.more /\ ~sentences.loading)
    /\ loadAppended
    /\ UNCHANGED <<url, pending, view, reader, stats, counting, breakdown, adrift, detour>>

Reload == loadStats /\ loadFresh(Nowhere) /\ watchSearchScope /\ adrift' = {}

\* The same search is submitted again.
forceSearch ==
    /\ UNCHANGED <<url, pending, view, reader, stats, detour>>
    /\ Reload

setRevealHidden(next) ==
    /\ hides /\ reveal' = next /\ next # reveal
    /\ UNCHANGED <<url, pending, view, hides, toggle, override, stats, detour>>
    /\ Reload

showAnywayAndRefresh ==
    /\ isViewingHiddenMedia /\ override' = TRUE
    /\ UNCHANGED <<url, pending, view, hides, toggle, reveal, stats, detour>>
    /\ Reload

loadHiddenBreakdown ==
    /\ hides /\ breakdown.of = None /\ breakdown.loading = None
    /\ breakdown' = [breakdown EXCEPT !.loading = searchScope, !.failed = FALSE]
    /\ UNCHANGED <<url, pending, view, reader, sentences, asked, late, stats, counting,
                   adrift, detour>>

\* toggleHideMedia, toggleCategory: the preference is changed before it is saved.
ToggleStarts(kind) ==
    /\ toggle = None /\ toggle' = [kind |-> kind, previous |-> hides]
    /\ hides' = ~hides /\ adrift' = Both
    /\ UNCHANGED <<url, pending, view, reveal, override, sentences, asked, late, stats, counting,
                   detour>>
    /\ watchSearchScope

ToggleIsSaved ==
    /\ toggle # None /\ toggle' = None
    /\ UNCHANGED <<url, pending, view, hides, reveal, override, stats, detour>>
    /\ Reload

\* A category that could not be saved is put back without another search.
ToggleFails ==
    /\ toggle # None /\ toggle' = None /\ hides' = toggle.previous
    /\ UNCHANGED <<url, pending, view, reveal, override, stats, detour>>
    /\ IF toggle.kind = "media" THEN Reload
       ELSE watchSearchScope /\ adrift' = Both /\ UNCHANGED <<sentences, asked, late, counting>>

-----------------------------------------------------------------------------
\* Answers.

\* The cursor of the page after n.
NextCursor(n) == IF n < PageCount THEN n + 1 ELSE 0

\* The list with the page that request q was answered with.
WithPage(q) ==
    LET n    == IF q.cursor = 0 THEN 1 ELSE q.cursor
        page == [scope |-> q.scope, n |-> n]
        next == NextCursor(n)
    IN  [sentences EXCEPT !.pages = IF q.cursor = 0 THEN <<page>> ELSE Append(@, page),
                      !.cursor = next, !.end = @ \/ next = 0, !.more = next # 0,
                      !.failed = FALSE, !.loading = FALSE]

\* The first request of a page without counts is settled, one way or another.
CountsFollow(q) ==
    IF q.counts THEN loadStats /\ adrift' = adrift \ {"counts"}
    ELSE UNCHANGED <<counting, adrift>>

SentencesArrive ==
    /\ asked # None /\ asked' = None
    /\ UNCHANGED <<url, pending, view, reader, late, stats, breakdown, detour>>
    /\ sentences' = WithPage(asked) /\ CountsFollow(asked)

SentencesFail ==
    /\ asked # None /\ asked' = None
    /\ UNCHANGED <<url, pending, view, reader, late, stats, breakdown, detour>>
    /\ sentences' = [sentences EXCEPT !.failed = @ \/ sentences.pages = <<>>, !.more = FALSE,
                              !.button = TRUE, !.loading = FALSE]
    /\ CountsFollow(asked)

\* It is sentences as if it were current (a mutant).
showLate(q) == sentences' = WithPage(q)

\* The answer of a request that was replaced is dropped.
dropStale(q) == UNCHANGED sentences

LateSentences ==
    /\ late # None /\ late' = None
    /\ UNCHANGED <<url, pending, view, reader, asked, stats, breakdown, detour>>
    /\ dropStale(late) /\ CountsFollow(late)

StatsArrive ==
    /\ counting # None /\ counting' = None
    /\ stats' \in {[of |-> counting, failed |-> FALSE], [of |-> None, failed |-> TRUE]}
    /\ UNCHANGED <<url, pending, view, reader, sentences, asked, late, breakdown, adrift, detour>>

BreakdownArrives ==
    /\ breakdown.loading # None
    /\ \/ breakdown' = [breakdown EXCEPT !.loading = None, !.of = breakdown.loading]
       \/ breakdown' = [breakdown EXCEPT !.loading = None, !.failed = TRUE]
    /\ UNCHANGED <<url, pending, view, reader, sentences, asked, late, stats, counting,
                   adrift, detour>>

SearchNext ==
    \/ StayHere \/ NavigationEnds \/ PageIsReplaced
    \/ \E to \in Routes : onBeforeRouteUpdate(to)
    \/ loadMore \/ forceSearch \/ showAnywayAndRefresh \/ loadHiddenBreakdown
    \/ \E next \in BOOLEAN : setRevealHidden(next)
    \/ \E kind \in {"media", "category"} : ToggleStarts(kind)
    \/ ToggleIsSaved \/ ToggleFails
    \/ SentencesArrive \/ SentencesFail \/ LateSentences \/ StatsArrive \/ BreakdownArrives

SearchSpec == SearchInit /\ [][SearchNext]_svars

-----------------------------------------------------------------------------
\* Properties.

\* The list is the pages of one search, from the first and without a gap or a
\* repetition, however the reader scrolls, retries and changes their mind: unless the
\* first was asked for by the page, with the reader's own titles first or without the
\* titles they hide left out, or a preference has changed and is not saved yet.
ListIsOneSearch ==
    "list" \notin adrift => \A i \in 1 .. Len(sentences.pages) :
                 sentences.pages[i] = [scope |-> sentences.pages[1].scope, n |-> i]

\* When nothing is on its way the list is of the search in the address, as the reader
\* looks at it now, and so are the counts, or they say that they failed: unless one or
\* the other is adrift, or a navigation has been given up for another.
PageIsOfTheAddress ==
    ~detour =>
      /\ /\ "list" \notin adrift /\ ~isViewingHiddenMedia
         /\ asked = None /\ pending = Nowhere /\ ~sentences.failed
         => /\ sentences.pages # <<>>
            /\ sentences.pages[1].scope = [searchScope EXCEPT !.view = url]
      /\ /\ "counts" \notin adrift
         /\ counting = None /\ ~BringsCounts(asked) /\ ~BringsCounts(late) /\ ~stats.failed
         => stats.of = StatScope

\* The list is loading exactly as long as a request for it is current: no spinner stays
\* when a request is replaced or cancelled, and scrolling is never blocked for good.
NothingLeftSpinning == sentences.loading = (asked # None)

\* The titles named behind the notice are those of this search.  It does not hold.
BreakdownIsOfTheSearch == breakdown.of \in {None, searchScope}
=============================================================================
