-------------------------- MODULE SearchList_proofs --------------------------
(***************************************************************************)
(* What the list of a search page comes to, for any addresses, words,      *)
(* categories and number of pages: it is the pages of one search in order, *)
(* it spins exactly while a request for it is current, and with the counts *)
(* it ends up at what the address says.                                    *)
(*                                                                         *)
(* The answer of a request is put below what is there without a look at    *)
(* what that is.  It fits because a request that is current was asked for  *)
(* with the search the page shows and with the cursor it still has: what   *)
(* changes either of them starts or cancels a request in the same turn.    *)
(***************************************************************************)
EXTENDS SearchList, TLAPS

\* The pages so far, and where the next one would be asked for.  A list that has been
\* hidden keeps its old cursor, and is at its end.
PagesInOrder ==
    /\ \A i \in 1 .. Len(sentences.pages) :
         sentences.pages[i] = [scope |-> searchScope, n |-> i]
    /\ \/ sentences.pages = <<>> /\ (sentences.cursor = 0 \/ sentences.end)
       \/ /\ sentences.pages # <<>> /\ sentences.cursor = NextCursor(Len(sentences.pages))
          /\ sentences.cursor = 0 => sentences.end

\* The current request is for what comes next.
AskedForTheNext ==
    asked # None =>
        ~sentences.end /\ asked.scope = searchScope /\ asked.cursor = sentences.cursor

\* An empty list says why it is empty.
EmptyForAReason ==
    sentences.pages = <<>> /\ asked = None => sentences.failed \/ isViewingHiddenMedia

ListInv == "list" \notin adrift => PagesInOrder /\ AskedForTheNext /\ EmptyForAReason

\* The address that has been applied is the one the router is at or going to.
ViewIsOfTheWay == ~detour => view = IF pending = Nowhere THEN url ELSE pending

\* The counts will be asked for again without anybody's doing.
CountsToCome == BringsCounts(asked) \/ BringsCounts(late)

CountsInv ==
    "counts" \notin adrift /\ ~detour =>
        /\ counting # None => counting = StatScope
        /\ counting = None /\ ~CountsToCome /\ ~stats.failed => stats.of = StatScope

SearchInv ==
    /\ SearchTypeOK
    /\ NothingLeftSpinning /\ ListInv /\ ViewIsOfTheWay /\ CountsInv

-----------------------------------------------------------------------------
\* Types.

ListStates ==
    [pages : Seq(ListPages), cursor : 0 .. PageCount, loading : BOOLEAN,
     end : BOOLEAN, more : BOOLEAN, button : BOOLEAN, failed : BOOLEAN]

LEMMA TypeOfCounted ==
    ASSUME NEW scope \in SearchScopes
    PROVE  Counted(scope) \in StatScopes /\ Counted(scope) # None
<1>1. Counted(scope) \in StatScopes
  BY DEF Counted, SearchScopes, StatScopes
<1>2. QED
  BY <1>1 DEF StatScopes, None

LEMMA TypesOfScopes ==
    ASSUME SearchTypeOK
    PROVE  searchScope \in SearchScopes /\ StatScope \in StatScopes
<1>1. view \in Routes /\ (hides /\ ~reveal) \in BOOLEAN
  BY DEF SearchTypeOK
<1>2. searchScope \in SearchScopes
  BY <1>1 DEF searchScope, SearchScopes
<1>3. StatScope \in StatScopes
  BY <1>2, TypeOfCounted DEF StatScope
<1>4. QED
  BY <1>2, <1>3

\* What is aborted may be late, and the counts that were to follow it are not forgotten.
LEMMA Aborted ==
    ASSUME SearchTypeOK, abort
    PROVE  late' \in Sentences \cup {None} /\ (CountsToCome => BringsCounts(late'))
<1>1. asked \in Sentences \cup {None} /\ late \in Sentences \cup {None}
  BY DEF SearchTypeOK
<1>2. CASE asked = None
  BY <1>1, <1>2 DEF abort, CountsToCome, BringsCounts
<1>3. CASE asked # None
  <2> DEFINE both == BringsCounts(asked) \/ BringsCounts(late)
  <2>1. asked \in Sentences /\ both \in BOOLEAN /\ late' = [asked EXCEPT !.counts = both]
    BY <1>1, <1>3 DEF abort
  <2> HIDE DEF both
  <2>2. late' \in Sentences /\ late'.counts = both /\ late' # None
    BY <2>1 DEF Sentences, None
  <2>3. QED
    BY <2>2 DEF both, CountsToCome, BringsCounts
<1>4. QED
  BY <1>2, <1>3

LEMMA TypeOfPrimed ==
    ASSUME NEW q \in SearchScopes
    PROVE  Primed(q) \in ListStates
<1>1. NewList \in ListStates
  BY SearchAssumption DEF NewList, ListStates
<1> DEFINE pages  == <<[scope |-> q, n |-> 1]>>
           cursor == IF PageCount > 1 THEN 2 ELSE 0
           end    == PageCount = 1
           more   == PageCount > 1
<1>2. cursor \in 0 .. PageCount /\ end \in BOOLEAN /\ more \in BOOLEAN
  BY SearchAssumption
<1>3. pages \in Seq(ListPages)
  BY SearchAssumption DEF ListPages
<1>4. Primed(q) = [NewList EXCEPT !.pages = pages, !.cursor = cursor, !.end = end,
                                  !.more = more]
  BY DEF Primed
<1> HIDE DEF pages, cursor, end, more
<1>5. QED
  BY <1>1, <1>2, <1>3, <1>4 DEF ListStates

\* What a fresh list is, and what is asked for it.
LEMMA FreshList ==
    ASSUME SearchTypeOK, searchScope' \in SearchScopes,
           NEW to \in Routes \cup {Nowhere}, loadFresh(to)
    PROVE  /\ asked' \in Sentences \cup {None} /\ late' \in Sentences \cup {None}
           /\ sentences' \in ListStates /\ sentences'.pages = <<>>
           /\ IF isViewingHiddenMedia'
                THEN asked' = None /\ sentences'.end /\ ~sentences'.loading
                ELSE /\ asked' = [scope |-> searchScope', cursor |-> 0, to |-> to,
                                   counts |-> FALSE]
                     /\ sentences'.cursor = 0 /\ ~sentences'.end /\ sentences'.loading
           /\ CountsToCome => CountsToCome'
<1>0. abort
  BY DEF loadFresh, cancelSentences, startSentences
<1>1. sentences \in ListStates /\ late' \in Sentences \cup {None} /\ <<>> \in Seq(ListPages)
      /\ 0 \in 0 .. PageCount /\ (CountsToCome => CountsToCome')
  BY <1>0, Aborted, SearchAssumption DEF SearchTypeOK, ListStates, CountsToCome
<1>2. CASE isViewingHiddenMedia'
  <2>1. /\ asked' = None
        /\ sentences' = [sentences EXCEPT !.pages = <<>>, !.end = TRUE, !.more = FALSE,
                                          !.loading = FALSE]
    BY <1>2 DEF loadFresh, cancelSentences
  <2>2. sentences' \in ListStates /\ sentences'.pages = <<>> /\ sentences'.end
        /\ ~sentences'.loading
    BY <1>1, <2>1 DEF ListStates
  <2>3. QED
    BY <1>1, <1>2, <2>1, <2>2
<1>3. CASE ~isViewingHiddenMedia'
  <2>1. /\ asked' = [scope |-> searchScope', cursor |-> 0, to |-> to, counts |-> FALSE]
        /\ sentences' = [resetSentencePagination EXCEPT !.loading = TRUE, !.button = FALSE]
    BY <1>3 DEF loadFresh, startSentences
  <2>2. resetSentencePagination \in ListStates
        /\ resetSentencePagination.pages = <<>> /\ resetSentencePagination.cursor = 0
        /\ ~resetSentencePagination.end
    BY <1>1 DEF ListStates, resetSentencePagination
  <2>3. sentences' \in ListStates /\ sentences'.pages = <<>> /\ ~sentences'.end
        /\ sentences'.loading /\ sentences'.cursor = 0
    BY <2>1, <2>2 DEF ListStates
  <2>4. asked' \in Sentences
    BY <1>1, <2>1 DEF Sentences
  <2>5. QED
    BY <1>1, <1>3, <2>1, <2>3, <2>4
<1>4. QED
  BY <1>2, <1>3

\* What asking for the next page leaves.
LEMMA NextPage ==
    ASSUME SearchTypeOK, loadAppended
    PROVE  /\ asked' \in Sentences \cup {None} /\ late' \in Sentences \cup {None}
           /\ sentences' \in ListStates
           /\ IF isViewingHiddenMedia
                THEN /\ asked' = None /\ sentences'.pages = <<>> /\ sentences'.end
                     /\ ~sentences'.loading
                ELSE /\ asked' = [scope |-> searchScope, cursor |-> sentences.cursor,
                                  to |-> Nowhere, counts |-> FALSE]
                     /\ sentences'.cursor = sentences.cursor
                     /\ sentences'.pages = sentences.pages
                     /\ ~sentences.end /\ ~sentences'.end /\ sentences'.loading
           /\ CountsToCome => CountsToCome'
<1>0. abort
  BY DEF loadAppended, cancelSentences, startSentences
<1>1. sentences \in ListStates /\ late' \in Sentences \cup {None} /\ <<>> \in Seq(ListPages)
      /\ searchScope \in SearchScopes /\ (CountsToCome => CountsToCome')
  BY <1>0, Aborted, TypesOfScopes DEF SearchTypeOK, ListStates, CountsToCome
<1>2. CASE isViewingHiddenMedia
  <2>1. /\ asked' = None
        /\ sentences' = [sentences EXCEPT !.pages = <<>>, !.end = TRUE, !.more = FALSE,
                                          !.loading = FALSE]
    BY <1>2 DEF loadAppended, cancelSentences
  <2>2. sentences' \in ListStates /\ sentences'.pages = <<>> /\ sentences'.end
        /\ ~sentences'.loading
    BY <1>1, <2>1 DEF ListStates
  <2>3. QED
    BY <1>1, <1>2, <2>1, <2>2
<1>3. CASE ~isViewingHiddenMedia
  <2>1. /\ asked' = [scope |-> searchScope, cursor |-> sentences.cursor, to |-> Nowhere,
                      counts |-> FALSE]
        /\ ~sentences.end
        /\ sentences' = [sentences EXCEPT !.loading = TRUE, !.button = FALSE]
    BY <1>3 DEF loadAppended, startSentences
  <2>2. sentences' \in ListStates /\ sentences'.pages = sentences.pages
        /\ sentences'.end = sentences.end
        /\ sentences'.loading /\ sentences'.cursor = sentences.cursor
    BY <1>1, <2>1 DEF ListStates
  <2>3. sentences.cursor \in 0 .. PageCount
    BY <1>1 DEF ListStates
  <2>4. asked' \in Sentences
    BY <1>1, <2>1, <2>3 DEF Sentences
  <2>5. QED
    BY <1>1, <1>3, <2>1, <2>2, <2>4
<1>4. QED
  BY <1>2, <1>3

\* The list with one page more.
LEMMA PageAdded ==
    ASSUME SearchTypeOK, NEW q \in Sentences
    PROVE  LET n == IF q.cursor = 0 THEN 1 ELSE q.cursor
               s == WithPage(q)
               page == [scope |-> q.scope, n |-> n]
           IN  /\ s \in ListStates /\ page \in ListPages /\ n \in 1 .. PageCount
               /\ s.pages = IF q.cursor = 0 THEN <<page>> ELSE Append(sentences.pages, page)
               /\ s.cursor = NextCursor(n) /\ s.end = (sentences.end \/ s.cursor = 0)
               /\ ~s.loading /\ ~s.failed
<1> DEFINE n    == IF q.cursor = 0 THEN 1 ELSE q.cursor
           page == [scope |-> q.scope, n |-> n]
           next == NextCursor(n)
           pages == IF q.cursor = 0 THEN <<page>> ELSE Append(sentences.pages, page)
           end == sentences.end \/ next = 0
           more == next # 0
<1>1. sentences \in ListStates /\ sentences.pages \in Seq(ListPages) /\ end \in BOOLEAN
      /\ more \in BOOLEAN
  BY DEF SearchTypeOK, ListStates
<1>2. n \in 1 .. PageCount
  BY SearchAssumption DEF Sentences
<1>3. next \in 0 .. PageCount
  BY <1>2, SearchAssumption DEF NextCursor
<1>4. page \in ListPages
  BY <1>2 DEF ListPages, Sentences
<1>6. pages \in Seq(ListPages)
  BY <1>1, <1>4
<1>7. WithPage(q) = [sentences EXCEPT !.pages = pages, !.cursor = next, !.end = end,
                        !.more = more, !.failed = FALSE, !.loading = FALSE]
  BY <1>1 DEF WithPage, ListStates
<1> HIDE DEF pages, end, more, next
<1>8. /\ WithPage(q) \in ListStates /\ WithPage(q).pages = pages /\ WithPage(q).cursor = next
      /\ WithPage(q).end = end /\ ~WithPage(q).loading /\ ~WithPage(q).failed
  BY <1>1, <1>3, <1>6, <1>7 DEF ListStates
<1>9. end = (sentences.end \/ WithPage(q).cursor = 0)
  BY <1>8 DEF end
<1>10. QED
  BY <1>2, <1>4, <1>8, <1>9 DEF next, pages

-----------------------------------------------------------------------------
\* What the steps have in common.

Breakdowns ==
    [of : SearchScopes \cup {None}, loading : SearchScopes \cup {None}, failed : BOOLEAN]

LEMMA ScopesAfter ==
    ASSUME view' \in Routes
    PROVE  searchScope' \in SearchScopes /\ StatScope' \in StatScopes
<1>1. (hides' /\ ~reveal') \in BOOLEAN
  OBVIOUS
<1>2. searchScope' \in SearchScopes
  BY <1>1 DEF searchScope, SearchScopes
<1>3. Counted(searchScope') \in StatScopes
  BY <1>2, TypeOfCounted
<1>4. QED
  BY <1>2, <1>3 DEF StatScope, Counted

LEMMA BreakdownIsTyped ==
    ASSUME SearchTypeOK, watchSearchScope
    PROVE  breakdown' \in Breakdowns
<1>1. breakdown \in Breakdowns
  BY DEF SearchTypeOK, Breakdowns
<1>2. [breakdown EXCEPT !.of = None, !.failed = FALSE] \in Breakdowns
  BY <1>1 DEF Breakdowns
<1>3. QED
  BY <1>1, <1>2 DEF watchSearchScope

\* A fresh list has all that is asked of a list.
LEMMA FreshIsRight ==
    ASSUME SearchTypeOK, view' \in Routes, NEW to \in Routes \cup {Nowhere}, loadFresh(to)
    PROVE  /\ asked' \in Sentences \cup {None} /\ late' \in Sentences \cup {None}
           /\ sentences' \in ListStates
           /\ NothingLeftSpinning' /\ ListInv' /\ (CountsToCome => CountsToCome')
<1>1. searchScope' \in SearchScopes
  BY ScopesAfter
<1>2. /\ asked' \in Sentences \cup {None} /\ late' \in Sentences \cup {None}
      /\ sentences' \in ListStates /\ sentences'.pages = <<>>
      /\ IF isViewingHiddenMedia'
           THEN asked' = None /\ sentences'.end /\ ~sentences'.loading
           ELSE /\ asked' = [scope |-> searchScope', cursor |-> 0, to |-> to,
                              counts |-> FALSE]
                /\ sentences'.cursor = 0 /\ ~sentences'.end /\ sentences'.loading
      /\ CountsToCome => CountsToCome'
  BY <1>1, FreshList
<1>3. sentences'.loading \in BOOLEAN
  BY <1>2 DEF ListStates
<1>4. CASE isViewingHiddenMedia'
  BY <1>2, <1>3, <1>4
     DEF NothingLeftSpinning, ListInv, PagesInOrder, AskedForTheNext, EmptyForAReason
<1>5. CASE ~isViewingHiddenMedia'
  <2>1. asked' # None /\ asked'.scope = searchScope' /\ asked'.cursor = sentences'.cursor
    BY <1>2, <1>5 DEF None
  <2>2. NothingLeftSpinning'
    BY <1>2, <1>3, <1>5, <2>1 DEF NothingLeftSpinning
  <2>3. QED
    BY <1>2, <1>5, <2>1, <2>2 DEF ListInv, PagesInOrder, AskedForTheNext, EmptyForAReason
<1>6. QED
  BY <1>2, <1>4, <1>5

\* The list and the counts are asked for again.
LEMMA ReloadIsRight ==
    ASSUME SearchTypeOK, view' \in Routes, Reload
    PROVE  /\ asked' \in Sentences \cup {None} /\ late' \in Sentences \cup {None}
           /\ sentences' \in ListStates /\ counting' \in StatScopes
           /\ breakdown' \in Breakdowns /\ adrift' = {}
           /\ NothingLeftSpinning' /\ ListInv' /\ CountsInv'
<1>1. loadFresh(Nowhere) /\ counting' = StatScope' /\ watchSearchScope /\ adrift' = {}
  BY DEF Reload, loadStats
<1>2. counting' \in StatScopes /\ counting' # None
  BY <1>1, ScopesAfter DEF StatScopes, None
<1>3. CountsInv'
  BY <1>1, <1>2 DEF CountsInv
<1>4. QED
  BY <1>1, <1>2, <1>3, FreshIsRight, BreakdownIsTyped

\* What does not touch the list, or what it is of, leaves it right.
LEMMA ListAsBefore ==
    ASSUME NothingLeftSpinning, ListInv, UNCHANGED <<view, reader, sentences, asked>>,
           "list" \in adrift' <=> "list" \in adrift
    PROVE  NothingLeftSpinning' /\ ListInv'
<1>1. /\ searchScope' = searchScope
      /\ isViewingHiddenMedia' <=> isViewingHiddenMedia
  BY DEF reader, searchScope, isViewingHiddenMedia
<1>2. QED
  BY <1>1 DEF NothingLeftSpinning, ListInv, PagesInOrder, AskedForTheNext, EmptyForAReason

LEMMA CountsAsBefore ==
    ASSUME CountsInv, UNCHANGED <<view, reader, stats, counting, adrift, detour>>,
           CountsToCome => CountsToCome'
    PROVE  CountsInv'
<1>1. StatScope' = StatScope
  BY DEF reader, StatScope, Counted, searchScope
<1>2. QED
  BY <1>1 DEF CountsInv

\* While the search has drifted from what was asked for, nothing is said of the list but
\* that it spins as long as it waits.
LEMMA Adrift ==
    ASSUME NothingLeftSpinning, UNCHANGED <<sentences, asked>>, adrift' = Both
    PROVE  NothingLeftSpinning' /\ ListInv' /\ CountsInv'
BY DEF NothingLeftSpinning, ListInv, CountsInv, Both

-----------------------------------------------------------------------------
\* The invariant.

LEMMA MountedIsRight ==
    ASSUME NEW r \in Routes, NEW h \in BOOLEAN, NEW q \in PageSearches(r),
           NEW come \in SUBSET Both
    PROVE  LET m     == Mounted(r, h, q, come)
               list  == m.list
               scope == [view |-> r, hides |-> h, prefer |-> FALSE]
           IN  /\ list \in ListStates /\ m.asked \in Sentences \cup {None}
               /\ m.stats \in [of : StatScopes \cup {None}, failed : BOOLEAN]
               /\ m.counting \in StatScopes \cup {None} /\ m.adrift \subseteq Both
               /\ list.loading = (m.asked # None)
               /\ "list" \notin m.adrift =>
                    /\ \A i \in 1 .. Len(list.pages) : list.pages[i] = [scope |-> scope, n |-> i]
                    /\ \/ list.pages = <<>> /\ (list.cursor = 0 \/ list.end)
                       \/ /\ list.pages # <<>> /\ list.cursor = NextCursor(Len(list.pages))
                          /\ list.cursor = 0 => list.end
                    /\ m.asked # None =>
                         ~list.end /\ m.asked.scope = scope /\ m.asked.cursor = list.cursor
                    /\ list.pages = <<>> /\ m.asked = None => r \in Titles /\ h
               /\ "counts" \notin m.adrift =>
                    /\ m.counting # None => m.counting = Counted(scope)
                    /\ m.counting = None /\ ~BringsCounts(m.asked) /\ ~m.stats.failed
                         => m.stats.of = Counted(scope)
<1> DEFINE m      == Mounted(r, h, q, come)
           scope  == [view |-> r, hides |-> h, prefer |-> FALSE]
           asking == "list" \notin come /\ ~(r \in Titles /\ h)
           first  == [scope |-> scope, cursor |-> 0, to |-> Nowhere, counts |-> "counts" \notin come]
<1>1. /\ m.list = IF "list" \in come THEN Primed(q)
                  ELSE IF asking THEN [NewList EXCEPT !.loading = TRUE] ELSE Hidden
      /\ m.asked = IF asking THEN first ELSE None
      /\ m.stats = [of |-> IF "counts" \in come THEN Counted(q) ELSE None, failed |-> FALSE]
      /\ m.counting = IF asking \/ "counts" \in come THEN None ELSE Counted(scope)
      /\ m.adrift = {x \in come : IF x = "list" THEN q # scope ELSE Counted(q) # Counted(scope)}
  BY DEF Mounted
<1>2. scope \in SearchScopes /\ q \in SearchScopes
  BY DEF SearchScopes, PageSearches
<1>3. /\ Counted(scope) \in StatScopes /\ Counted(scope) # None
      /\ Counted(q) \in StatScopes /\ Counted(q) # None
  BY <1>2, TypeOfCounted
<1>4. first \in Sentences /\ first # None
  BY <1>2, SearchAssumption DEF Sentences, None
<1>5. /\ Primed(q) \in ListStates /\ Hidden \in ListStates
      /\ [NewList EXCEPT !.loading = TRUE] \in ListStates
  <2>1. NewList \in ListStates
    BY SearchAssumption DEF NewList, ListStates
  <2>2. Hidden \in ListStates /\ [NewList EXCEPT !.loading = TRUE] \in ListStates
    BY <2>1 DEF Hidden, ListStates
  <2>3. QED
    BY <1>2, <2>2, TypeOfPrimed
<1>6. m.adrift \subseteq Both
  BY <1>1
<1>7. /\ m.stats \in [of : StatScopes \cup {None}, failed : BOOLEAN]
      /\ m.counting \in StatScopes \cup {None}
      /\ "counts" \notin m.adrift =>
           /\ m.counting # None => m.counting = Counted(scope)
           /\ m.counting = None /\ ~BringsCounts(m.asked) /\ ~m.stats.failed
                => m.stats.of = Counted(scope)
  <2>1. CASE "counts" \in come
    <3>1. m.stats = [of |-> Counted(q), failed |-> FALSE] /\ m.counting = None
      BY <1>1, <2>1
    <3>2. "counts" \notin m.adrift => Counted(q) = Counted(scope)
      BY <1>1, <2>1
    <3>3. QED
      BY <1>3, <3>1, <3>2
  <2>2. CASE "counts" \notin come /\ asking
    <3>1. m.stats = [of |-> None, failed |-> FALSE] /\ m.counting = None /\ m.asked = first
      BY <1>1, <2>2
    <3>2. first.counts
      BY <2>2
    <3>3. BringsCounts(m.asked)
      <4> HIDE DEF first, m
      <4>1. QED
        BY <1>4, <3>1, <3>2 DEF BringsCounts
    <3>4. QED
      BY <3>1, <3>3
  <2>3. CASE "counts" \notin come /\ ~asking
    <3>1. m.stats = [of |-> None, failed |-> FALSE] /\ m.counting = Counted(scope)
      BY <1>1, <2>3
    <3>2. QED
      BY <1>3, <3>1
  <2>4. QED
    BY <2>1, <2>2, <2>3
<1> DEFINE list == m.list
           Listed ==
             /\ list \in ListStates /\ m.asked \in Sentences \cup {None}
             /\ list.loading = (m.asked # None)
             /\ "list" \notin m.adrift =>
                  /\ \A i \in 1 .. Len(list.pages) : list.pages[i] = [scope |-> scope, n |-> i]
                  /\ \/ list.pages = <<>> /\ (list.cursor = 0 \/ list.end)
                     \/ /\ list.pages # <<>> /\ list.cursor = NextCursor(Len(list.pages))
                        /\ list.cursor = 0 => list.end
                  /\ m.asked # None =>
                       ~list.end /\ m.asked.scope = scope /\ m.asked.cursor = list.cursor
                  /\ list.pages = <<>> /\ m.asked = None => r \in Titles /\ h
<1>8. ASSUME "list" \in come
      PROVE  Listed
  <2>1. list = Primed(q) /\ m.asked = None /\ ("list" \notin m.adrift => q = scope)
    BY <1>1, <1>8
  <2>2. /\ list.pages = <<[scope |-> q, n |-> 1]>>
        /\ list.cursor = IF PageCount > 1 THEN 2 ELSE 0
        /\ list.loading = FALSE /\ (PageCount = 1 => list.end)
    BY <2>1 DEF Primed, NewList
  <2>3. list.pages # <<>> /\ Len(list.pages) = 1
        /\ \A i \in 1 .. Len(list.pages) : list.pages[i] = [scope |-> q, n |-> i]
    BY <2>2
  <2>4. list.cursor = NextCursor(1) /\ (list.cursor = 0 => list.end)
    <3>1. CASE PageCount = 1
      BY <2>2, <3>1 DEF NextCursor
    <3>2. CASE PageCount > 1
      BY <2>2, <3>2, SearchAssumption DEF NextCursor
    <3>3. QED
      BY <3>1, <3>2, SearchAssumption
  <2> HIDE DEF scope, m
  <2>5. QED
    BY <1>5, <2>1, <2>2, <2>3, <2>4
<1>9. ASSUME "list" \notin come, ~asking
      PROVE  Listed
  <2>1. list = Hidden /\ m.asked = None /\ r \in Titles /\ h
    BY <1>1, <1>9
  <2>2. list.pages = <<>> /\ list.end /\ list.loading = FALSE
    BY <2>1 DEF Hidden, NewList
  <2>3. list \in ListStates /\ list.loading = (m.asked # None)
    BY <1>5, <2>1, <2>2
  <2> HIDE DEF scope, m
  <2>4. QED
    BY <2>1, <2>2, <2>3
<1>10. ASSUME "list" \notin come, asking
       PROVE  Listed
  <2>1. list = [NewList EXCEPT !.loading = TRUE] /\ m.asked = first
    BY <1>1, <1>10
  <2>2. list.pages = <<>> /\ ~list.end /\ list.cursor = 0 /\ list.loading = TRUE
    BY <2>1 DEF NewList
  <2>3. m.asked.scope = scope /\ m.asked.cursor = 0
    BY <2>1
  <2>4. m.asked # None /\ m.asked \in Sentences
    BY <1>4, <2>1
  <2>5. list \in ListStates /\ list.loading = (m.asked # None)
    BY <1>5, <2>1, <2>2, <2>4
  <2> HIDE DEF scope, m, first
  <2>6. QED
    BY <2>2, <2>3, <2>4, <2>5
<1>11. Listed
  BY <1>8, <1>9, <1>10
<1>12. QED
  BY <1>6, <1>7, <1>11

LEMMA InitIsRight == SearchInit => SearchInv
<1> SUFFICES ASSUME SearchInit
             PROVE  SearchInv
  OBVIOUS
<1>1. /\ url \in Routes /\ view = url /\ pending = Nowhere
      /\ hides \in BOOLEAN /\ toggle = None /\ reveal = FALSE /\ override = FALSE
      /\ late = None /\ breakdown = NoBreakdown /\ detour = FALSE
  BY DEF SearchInit
<1>2. PICK q \in PageSearches(url), come \in SUBSET Both :
        LET m == Mounted(url, hides, q, come) IN
        /\ sentences = m.list /\ asked = m.asked /\ stats = m.stats
        /\ counting = m.counting /\ adrift = m.adrift
  BY DEF SearchInit
<1>3. searchScope = [view |-> url, hides |-> hides, prefer |-> FALSE]
  BY <1>1 DEF searchScope
<1>4. isViewingHiddenMedia <=> url \in Titles /\ hides
  BY <1>1 DEF isViewingHiddenMedia
<1>5. /\ sentences \in ListStates /\ asked \in Sentences \cup {None}
      /\ stats \in [of : StatScopes \cup {None}, failed : BOOLEAN]
      /\ counting \in StatScopes \cup {None} /\ adrift \subseteq Both
      /\ NothingLeftSpinning /\ ListInv /\ CountsInv
  BY <1>1, <1>2, <1>3, <1>4, MountedIsRight
     DEF NothingLeftSpinning, ListInv, PagesInOrder, AskedForTheNext, EmptyForAReason, CountsInv,
         CountsToCome, StatScope
<1>6. breakdown \in Breakdowns
  BY <1>1 DEF NoBreakdown, Breakdowns
<1>7. SearchTypeOK
  BY <1>1, <1>5, <1>6 DEF SearchTypeOK, ListStates, Breakdowns
<1>8. ViewIsOfTheWay
  BY <1>1 DEF ViewIsOfTheWay
<1>9. QED
  BY <1>5, <1>7, <1>8 DEF SearchInv

\* The counts that follow a request are of the search as it is by then.
LEMMA FollowingCounts ==
    ASSUME SearchInv, NEW q \in Sentences, CountsFollow(q),
           UNCHANGED <<view, reader, stats, detour>>,
           CountsToCome => q.counts \/ CountsToCome'
    PROVE  /\ counting' \in StatScopes \cup {None} /\ adrift' \subseteq Both
           /\ "list" \in adrift' <=> "list" \in adrift
           /\ CountsInv'
<1>1. /\ counting \in StatScopes \cup {None} /\ adrift \subseteq Both
      /\ view' \in Routes /\ StatScope' = StatScope
  BY DEF SearchInv, SearchTypeOK, StatScope, searchScope, Counted, reader
<1>2. CASE q.counts
  <2>1. counting' = StatScope' /\ adrift' = adrift \ {"counts"}
    BY <1>2 DEF CountsFollow, loadStats
  <2>2. counting' \in StatScopes /\ counting' # None
    BY <1>1, <2>1, ScopesAfter DEF StatScopes, None
  <2>3. QED
    BY <1>1, <2>1, <2>2 DEF CountsInv
<1>3. CASE ~q.counts
  <2>1. counting' = counting /\ adrift' = adrift
    BY <1>3 DEF CountsFollow
  <2>2. CountsInv'
    BY <1>3, <2>1, CountsAsBefore DEF SearchInv
  <2>3. QED
    BY <1>1, <2>1, <2>2
<1>4. QED
  BY <1>2, <1>3

\* A page of results is put below those it follows.
LEMMA ArrivalIsRight ==
    ASSUME SearchInv, SentencesArrive
    PROVE  sentences' \in ListStates /\ NothingLeftSpinning' /\ ListInv'
<1>1. /\ asked \in Sentences /\ asked # None /\ asked' = None
      /\ sentences' = WithPage(asked) /\ sentences \in ListStates /\ SearchTypeOK
      /\ UNCHANGED <<view, reader>> /\ ("list" \in adrift' <=> "list" \in adrift)
  BY DEF SentencesArrive, SearchInv, SearchTypeOK, ListStates, CountsFollow
<1>2. searchScope' = searchScope
  BY <1>1 DEF searchScope, reader
<1> DEFINE n    == IF asked.cursor = 0 THEN 1 ELSE asked.cursor
           page == [scope |-> asked.scope, n |-> n]
<1>3. /\ sentences' \in ListStates /\ page \in ListPages /\ n \in 1 .. PageCount
      /\ sentences'.pages = IF asked.cursor = 0 THEN <<page>>
                            ELSE Append(sentences.pages, page)
      /\ sentences'.cursor = NextCursor(n)
      /\ sentences'.end = (sentences.end \/ sentences'.cursor = 0)
      /\ ~sentences'.loading
  BY <1>1, PageAdded
<1>4. NothingLeftSpinning'
  BY <1>1, <1>3 DEF NothingLeftSpinning, ListStates
<1>5. ASSUME "list" \notin adrift
      PROVE  PagesInOrder' /\ sentences'.pages # <<>>
  <2>1. /\ ~sentences.end /\ asked.scope = searchScope /\ asked.cursor = sentences.cursor
        /\ PagesInOrder
    BY <1>1, <1>5 DEF SearchInv, ListInv, AskedForTheNext
  <2>2. sentences'.cursor = 0 => sentences'.end
    BY <1>3
  <2>3. CASE sentences.cursor = 0
    <3>1. sentences'.pages = <<page>> /\ n = 1
      BY <1>3, <2>1, <2>3
    <3>2. /\ sentences'.pages # <<>> /\ Len(sentences'.pages) = 1
          /\ \A i \in 1 .. Len(sentences'.pages) : sentences'.pages[i] = page
      BY <3>1
    <3>3. page = [scope |-> searchScope, n |-> 1]
      BY <2>1, <3>1
    <3> HIDE DEF page, n
    <3>4. QED
      BY <1>2, <1>3, <2>2, <3>1, <3>2, <3>3 DEF PagesInOrder
  <2>4. CASE sentences.cursor # 0
    <3>1. /\ sentences.pages # <<>> /\ sentences.pages \in Seq(ListPages)
          /\ sentences.cursor = NextCursor(Len(sentences.pages))
          /\ \A i \in 1 .. Len(sentences.pages) :
               sentences.pages[i] = [scope |-> searchScope, n |-> i]
      BY <1>1, <2>1, <2>4 DEF PagesInOrder, ListStates
    <3>2. n = Len(sentences.pages) + 1 /\ Len(sentences.pages) \in Nat
      BY <2>1, <2>4, <3>1 DEF NextCursor
    <3>3. sentences'.pages = Append(sentences.pages, page)
      BY <1>3, <2>1, <2>4
    <3>4. page = [scope |-> searchScope, n |-> n]
      BY <2>1
    <3> HIDE DEF page, n
    <3>5. /\ Len(sentences'.pages) = n /\ sentences'.pages[n] = page
          /\ \A i \in 1 .. Len(sentences.pages) : sentences'.pages[i] = sentences.pages[i]
      BY <1>3, <3>1, <3>2, <3>3
    <3>6. ASSUME NEW i \in 1 .. Len(sentences'.pages)
          PROVE  sentences'.pages[i] = [scope |-> searchScope, n |-> i]
      <4>1. i = n \/ i \in 1 .. Len(sentences.pages)
        BY <3>2, <3>5
      <4>2. QED
        BY <3>1, <3>4, <3>5, <4>1
    <3>7. sentences'.pages # <<>>
      BY <3>2, <3>5
    <3>8. QED
      BY <1>2, <1>3, <2>2, <3>5, <3>6, <3>7 DEF PagesInOrder
  <2>5. QED
    BY <2>3, <2>4
<1>6. ListInv'
  BY <1>1, <1>5 DEF ListInv, AskedForTheNext, EmptyForAReason
<1>7. QED
  BY <1>3, <1>4, <1>6

LEMMA FailureIsRight ==
    ASSUME SearchInv, SentencesFail
    PROVE  sentences' \in ListStates /\ NothingLeftSpinning' /\ ListInv'
<1> DEFINE failed == sentences.failed \/ sentences.pages = <<>>
<1>1. /\ asked # None /\ asked' = None /\ sentences \in ListStates
      /\ sentences' = [sentences EXCEPT !.failed = failed, !.more = FALSE, !.button = TRUE,
                                        !.loading = FALSE]
      /\ UNCHANGED <<view, reader>> /\ ("list" \in adrift' <=> "list" \in adrift)
      /\ failed \in BOOLEAN
  BY DEF SentencesFail, SearchInv, SearchTypeOK, ListStates, CountsFollow
<1>2. searchScope' = searchScope
  BY <1>1 DEF searchScope, reader
<1>3. sentences.pages = <<>> => failed
  OBVIOUS
<1> HIDE DEF failed
<1>4. /\ sentences' \in ListStates /\ sentences'.pages = sentences.pages
      /\ sentences'.cursor = sentences.cursor /\ sentences'.end = sentences.end
      /\ sentences'.loading = FALSE /\ sentences'.failed = failed
  BY <1>1 DEF ListStates
<1>5. NothingLeftSpinning'
  BY <1>1, <1>4 DEF NothingLeftSpinning
<1>6. ASSUME "list" \notin adrift
      PROVE  PagesInOrder' /\ AskedForTheNext' /\ EmptyForAReason'
  BY <1>1, <1>2, <1>3, <1>4, <1>6
     DEF SearchInv, ListInv, PagesInOrder, AskedForTheNext, EmptyForAReason
<1>7. QED
  BY <1>1, <1>4, <1>5, <1>6 DEF ListInv

LEMMA MoreIsRight ==
    ASSUME SearchInv, loadMore
    PROVE  /\ asked' \in Sentences \cup {None} /\ late' \in Sentences \cup {None}
           /\ sentences' \in ListStates /\ NothingLeftSpinning' /\ ListInv'
           /\ CountsToCome => CountsToCome'
<1>1. /\ asked' \in Sentences \cup {None} /\ late' \in Sentences \cup {None}
      /\ sentences' \in ListStates
      /\ IF isViewingHiddenMedia
           THEN /\ asked' = None /\ sentences'.pages = <<>> /\ sentences'.end
                /\ ~sentences'.loading
           ELSE /\ asked' = [scope |-> searchScope, cursor |-> sentences.cursor,
                             to |-> Nowhere, counts |-> FALSE]
                /\ sentences'.cursor = sentences.cursor
                /\ sentences'.pages = sentences.pages
                /\ ~sentences.end /\ ~sentences'.end /\ sentences'.loading
      /\ CountsToCome => CountsToCome'
  BY NextPage DEF loadMore, SearchInv
<1>2. UNCHANGED <<view, reader, adrift>>
  BY DEF loadMore
<1>3. searchScope' = searchScope /\ (isViewingHiddenMedia' <=> isViewingHiddenMedia)
  BY <1>2 DEF searchScope, reader, isViewingHiddenMedia
<1>4. sentences'.loading \in BOOLEAN
  BY <1>1 DEF ListStates
<1>5. CASE isViewingHiddenMedia
  BY <1>1, <1>3, <1>4, <1>5
     DEF NothingLeftSpinning, ListInv, PagesInOrder, AskedForTheNext, EmptyForAReason
<1>6. CASE ~isViewingHiddenMedia
  <2>1. asked' # None /\ asked'.scope = searchScope /\ asked'.cursor = sentences.cursor
    BY <1>1, <1>6 DEF None
  <2>2. NothingLeftSpinning'
    BY <1>1, <1>4, <1>6, <2>1 DEF NothingLeftSpinning
  <2>3. ASSUME "list" \notin adrift
        PROVE  PagesInOrder'
    BY <1>1, <1>3, <1>6, <2>3 DEF SearchInv, ListInv, PagesInOrder
  <2>4. AskedForTheNext' /\ EmptyForAReason'
    BY <1>1, <1>3, <1>6, <2>1 DEF AskedForTheNext, EmptyForAReason
  <2>5. QED
    BY <1>1, <1>2, <2>2, <2>3, <2>4 DEF ListInv
<1>7. QED
  BY <1>1, <1>5, <1>6

\* What a step has to show, beside what it leaves alone.
LEMMA TypesAfter ==
    ASSUME SearchTypeOK,
           url' \in Routes, view' \in Routes, pending' \in Routes \cup {Nowhere},
           hides' \in BOOLEAN, reveal' \in BOOLEAN, override' \in BOOLEAN,
           toggle' \in [kind : {"media", "category"}, previous : BOOLEAN] \cup {None},
           sentences' \in ListStates,
           asked' \in Sentences \cup {None}, late' \in Sentences \cup {None},
           stats' \in [of : StatScopes \cup {None}, failed : BOOLEAN],
           counting' \in StatScopes \cup {None}, breakdown' \in Breakdowns,
           adrift' \subseteq Both, detour' \in BOOLEAN
    PROVE  SearchTypeOK'
BY DEF SearchTypeOK, ListStates, Breakdowns

\* The steps by which the reader changes the search, or where it is.
LEMMA NavigationIsRight ==
    ASSUME SearchInv,
           StayHere \/ NavigationEnds \/ PageIsReplaced
             \/ \E to \in Routes : onBeforeRouteUpdate(to)
    PROVE  SearchInv'
<1> USE DEF SearchInv
<1>0. /\ SearchTypeOK /\ url \in Routes /\ view \in Routes
      /\ pending \in Routes \cup {Nowhere}
      /\ hides \in BOOLEAN /\ reveal \in BOOLEAN /\ override \in BOOLEAN
      /\ toggle \in [kind : {"media", "category"}, previous : BOOLEAN] \cup {None}
      /\ sentences \in ListStates
      /\ asked \in Sentences \cup {None} /\ late \in Sentences \cup {None}
      /\ stats \in [of : StatScopes \cup {None}, failed : BOOLEAN]
      /\ counting \in StatScopes \cup {None} /\ breakdown \in Breakdowns
      /\ adrift \subseteq Both /\ detour \in BOOLEAN
  BY DEF SearchTypeOK, ListStates, Breakdowns
<1>1. CASE StayHere
  <2>1. UNCHANGED <<url, view, reader, sentences, asked, late, stats, counting, breakdown,
                    adrift>> /\ pending' = Nowhere /\ detour' = TRUE
    BY <1>1 DEF StayHere
  <2>2. SearchTypeOK'
    BY <1>0, <2>1, TypesAfter DEF reader
  <2>3. NothingLeftSpinning' /\ ListInv'
    BY <2>1, ListAsBefore
  <2>4. QED
    BY <2>1, <2>2, <2>3 DEF ViewIsOfTheWay, CountsInv
<1>2. CASE NavigationEnds
  <2>1. UNCHANGED <<view, reader, sentences, asked, late, stats, counting, breakdown,
                    adrift, detour>> /\ url' = pending /\ pending' = Nowhere
        /\ pending # Nowhere
    BY <1>2 DEF NavigationEnds
  <2>2. SearchTypeOK'
    BY <1>0, <2>1, TypesAfter DEF reader
  <2>3. NothingLeftSpinning' /\ ListInv' /\ CountsInv'
    BY <2>1, ListAsBefore, CountsAsBefore DEF CountsToCome
  <2>4. ViewIsOfTheWay'
    BY <2>1 DEF ViewIsOfTheWay
  <2>5. QED
    BY <2>2, <2>3, <2>4
<1>3. CASE PageIsReplaced
  <2>1. /\ pending \in Routes /\ url' = pending /\ view' = pending /\ pending' = Nowhere
        /\ reveal' = FALSE /\ override' = FALSE /\ hides' = hides /\ toggle' = toggle
        /\ late' = None /\ breakdown' = NoBreakdown /\ detour' = FALSE
    BY <1>0, <1>3 DEF PageIsReplaced
  <2>2. PICK q \in PageSearches(pending), come \in SUBSET Both :
          LET m == Mounted(pending, hides, q, come) IN
          /\ sentences' = m.list /\ asked' = m.asked /\ stats' = m.stats
          /\ counting' = m.counting /\ adrift' = m.adrift
    BY <1>3 DEF PageIsReplaced
  <2>3. searchScope' = [view |-> pending, hides |-> hides, prefer |-> FALSE]
    BY <1>0, <2>1 DEF searchScope
  <2>4. isViewingHiddenMedia' <=> pending \in Titles /\ hides
    BY <2>1 DEF isViewingHiddenMedia
  <2>5. StatScope' = Counted([view |-> pending, hides |-> hides, prefer |-> FALSE])
    BY <2>3 DEF StatScope, Counted
  <2>6. /\ sentences' \in ListStates /\ asked' \in Sentences \cup {None}
        /\ stats' \in [of : StatScopes \cup {None}, failed : BOOLEAN]
        /\ counting' \in StatScopes \cup {None} /\ adrift' \subseteq Both
        /\ NothingLeftSpinning' /\ ListInv' /\ CountsInv'
    BY <1>0, <2>1, <2>2, <2>3, <2>4, <2>5, MountedIsRight
       DEF NothingLeftSpinning, ListInv, PagesInOrder, AskedForTheNext, EmptyForAReason, CountsInv,
           CountsToCome, BringsCounts
  <2>7. breakdown' \in Breakdowns
    BY <2>1 DEF NoBreakdown, Breakdowns
  <2>8. SearchTypeOK'
    BY <1>0, <2>1, <2>6, <2>7, TypesAfter
  <2>9. ViewIsOfTheWay'
    BY <2>1 DEF ViewIsOfTheWay
  <2>10. QED
    BY <2>6, <2>8, <2>9
<1>4. ASSUME NEW to \in Routes, onBeforeRouteUpdate(to)
      PROVE  SearchInv'
  <2>1. /\ view' = to /\ pending' = to /\ detour' = (detour \/ pending \notin {Nowhere, to})
        /\ UNCHANGED <<url, hides, toggle, stats>> /\ watchSearchScope /\ to # Nowhere
    BY <1>4, SearchAssumption DEF onBeforeRouteUpdate
  <2>2. /\ breakdown' \in Breakdowns /\ detour' \in BOOLEAN
        /\ reveal' \in BOOLEAN /\ override' \in BOOLEAN
    BY <1>0, <1>4, <2>1, BreakdownIsTyped DEF onBeforeRouteUpdate
  <2>3. ViewIsOfTheWay'
    BY <2>1 DEF ViewIsOfTheWay
  <2>4. CASE Param(to) # Param(url)
    <3>1. adrift' = Both /\ UNCHANGED <<sentences, asked, late, counting>>
      BY <1>4, <2>4 DEF onBeforeRouteUpdate
    <3>2. SearchTypeOK'
      BY <1>0, <2>1, <2>2, <3>1, TypesAfter
    <3>3. QED
      BY <2>3, <3>1, <3>2, Adrift
  <2>5. CASE Param(to) = Param(url)
    <3>1. loadFresh(to)
      BY <1>4, <2>5 DEF onBeforeRouteUpdate
    <3>2. /\ asked' \in Sentences \cup {None} /\ late' \in Sentences \cup {None}
          /\ sentences' \in ListStates /\ NothingLeftSpinning' /\ ListInv'
          /\ CountsToCome => CountsToCome'
      BY <1>0, <2>1, <3>1, FreshIsRight
    <3>3. counting' \in StatScopes \cup {None} /\ adrift' \subseteq Both /\ CountsInv'
      <4>1. CASE Word(to) # Word(url) \/ RawCategory(to) # RawCategory(url)
        <5>1. counting' = StatScope' /\ StatScope' \in StatScopes /\ adrift' = {}
          BY <1>4, <2>1, <2>5, <4>1, ScopesAfter DEF onBeforeRouteUpdate, loadStats
        <5>2. counting' # None
          BY <5>1 DEF StatScopes, None
        <5>3. QED
          BY <5>1, <5>2 DEF CountsInv
      <4>2. CASE /\ Word(to) = Word(url) /\ RawCategory(to) = RawCategory(url)
                 /\ resolveCategorySlug(to) # resolveCategorySlug(url)
        <5>1. counting' = counting /\ adrift' = {"counts"}
          BY <1>4, <2>5, <4>2 DEF onBeforeRouteUpdate
        <5>2. QED
          BY <1>0, <5>1 DEF CountsInv, Both
      <4>3. CASE /\ Word(to) = Word(url) /\ RawCategory(to) = RawCategory(url)
                 /\ resolveCategorySlug(to) = resolveCategorySlug(url)
        <5>1. /\ counting' = counting /\ adrift' = adrift \ {"list"}
              /\ UNCHANGED <<reveal, override>>
          BY <1>4, <2>5, <4>3 DEF onBeforeRouteUpdate
        <5>2. ASSUME ~detour'
              PROVE  ~detour /\ StatScope' = StatScope
          <6>1. ~detour /\ pending \in {Nowhere, to}
            BY <2>1, <5>2
          <6>2. view \in {url, to}
            BY <6>1 DEF ViewIsOfTheWay
          <6>3. Word(view') = Word(view) /\ resolveCategorySlug(view') = resolveCategorySlug(view)
            BY <2>1, <4>3, <6>2
          <6>4. QED
            BY <2>1, <5>1, <6>1, <6>3 DEF StatScope, Counted, searchScope
        <5>3. CountsInv'
          BY <2>1, <3>2, <5>1, <5>2 DEF CountsInv
        <5>4. QED
          BY <1>0, <5>1, <5>3
      <4>4. QED
        BY <4>1, <4>2, <4>3
    <3>4. SearchTypeOK'
      BY <1>0, <2>1, <2>2, <3>2, <3>3, TypesAfter
    <3>5. QED
      BY <2>3, <3>2, <3>3, <3>4
  <2>6. QED
    BY <2>4, <2>5
<1>5. QED
  BY <1>1, <1>2, <1>3, <1>4

LEMMA RequestsAreRight ==
    ASSUME SearchInv,
           loadMore \/ loadHiddenBreakdown \/ SentencesArrive \/ SentencesFail
             \/ LateSentences \/ StatsArrive \/ BreakdownArrives
    PROVE  SearchInv'
<1> USE DEF SearchInv
<1>0. /\ SearchTypeOK /\ url \in Routes /\ view \in Routes
      /\ pending \in Routes \cup {Nowhere}
      /\ hides \in BOOLEAN /\ reveal \in BOOLEAN /\ override \in BOOLEAN
      /\ toggle \in [kind : {"media", "category"}, previous : BOOLEAN] \cup {None}
      /\ sentences \in ListStates
      /\ asked \in Sentences \cup {None} /\ late \in Sentences \cup {None}
      /\ stats \in [of : StatScopes \cup {None}, failed : BOOLEAN]
      /\ counting \in StatScopes \cup {None} /\ breakdown \in Breakdowns
      /\ adrift \subseteq Both /\ detour \in BOOLEAN
  BY DEF SearchTypeOK, ListStates, Breakdowns
<1>1. /\ UNCHANGED <<url, pending, view, reader, detour>>
      /\ ViewIsOfTheWay'
  <2>1. UNCHANGED <<url, pending, view, reader, detour>>
    BY DEF loadMore, loadHiddenBreakdown, SentencesArrive, SentencesFail, LateSentences,
           StatsArrive, BreakdownArrives
  <2>2. QED
    BY <2>1 DEF ViewIsOfTheWay
<1>2. ASSUME sentences' \in ListStates, asked' \in Sentences \cup {None},
             late' \in Sentences \cup {None},
             stats' \in [of : StatScopes \cup {None}, failed : BOOLEAN],
             counting' \in StatScopes \cup {None}, breakdown' \in Breakdowns,
             adrift' \subseteq Both
      PROVE  SearchTypeOK'
  <2>1. hides' \in BOOLEAN /\ reveal' \in BOOLEAN /\ override' \in BOOLEAN
        /\ toggle' \in [kind : {"media", "category"}, previous : BOOLEAN] \cup {None}
    BY <1>0, <1>1 DEF reader
  <2>2. QED
    BY <1>0, <1>1, <1>2, <2>1, TypesAfter
<1>3. CASE loadMore
  <2>1. UNCHANGED <<stats, counting, breakdown, adrift>>
    BY <1>3 DEF loadMore
  <2>2. QED
    BY <1>0, <1>1, <1>2, <1>3, <2>1, MoreIsRight, CountsAsBefore
<1>4. CASE SentencesArrive \/ SentencesFail
  <2>1. /\ UNCHANGED <<stats, breakdown, late>> /\ asked' = None
        /\ asked # None /\ asked \in Sentences /\ CountsFollow(asked)
    BY <1>0, <1>4 DEF SentencesArrive, SentencesFail
  <2>2. sentences' \in ListStates /\ NothingLeftSpinning' /\ ListInv'
    BY <1>4, ArrivalIsRight, FailureIsRight
  <2>3. counting' \in StatScopes \cup {None} /\ adrift' \subseteq Both /\ CountsInv'
    <3>1. CountsToCome => asked.counts \/ CountsToCome'
      BY <2>1 DEF CountsToCome, BringsCounts
    <3>2. QED
      BY <1>1, <2>1, <3>1, FollowingCounts
  <2>4. QED
    BY <1>0, <1>1, <1>2, <2>1, <2>2, <2>3
<1>5. CASE LateSentences
  <2>1. /\ UNCHANGED <<stats, breakdown, asked, sentences>> /\ late' = None
        /\ late # None /\ late \in Sentences /\ CountsFollow(late)
    BY <1>0, <1>5 DEF LateSentences, dropStale
  <2>2. /\ counting' \in StatScopes \cup {None} /\ adrift' \subseteq Both /\ CountsInv'
        /\ "list" \in adrift' <=> "list" \in adrift
    <3>1. CountsToCome => late.counts \/ CountsToCome'
      BY <2>1 DEF CountsToCome, BringsCounts
    <3>2. QED
      BY <1>1, <2>1, <3>1, FollowingCounts
  <2>3. NothingLeftSpinning' /\ ListInv'
    BY <1>1, <2>1, <2>2, ListAsBefore
  <2>4. QED
    BY <1>0, <1>1, <1>2, <2>1, <2>2, <2>3
<1>6. CASE loadHiddenBreakdown \/ BreakdownArrives
  <2>1. UNCHANGED <<stats, counting, asked, late, sentences, adrift>>
    BY <1>6 DEF loadHiddenBreakdown, BreakdownArrives
  <2>2. breakdown' \in Breakdowns
    <3>1. searchScope \in SearchScopes
      BY TypesOfScopes
    <3>2. breakdown.loading \in SearchScopes \cup {None}
      BY <1>0 DEF Breakdowns
    <3>3. /\ [breakdown EXCEPT !.loading = searchScope, !.failed = FALSE] \in Breakdowns
          /\ [breakdown EXCEPT !.loading = None, !.of = breakdown.loading] \in Breakdowns
          /\ [breakdown EXCEPT !.loading = None, !.failed = TRUE] \in Breakdowns
      BY <1>0, <3>1, <3>2 DEF Breakdowns
    <3>4. CASE loadHiddenBreakdown
      BY <3>3, <3>4 DEF loadHiddenBreakdown
    <3>5. CASE BreakdownArrives
      BY <3>3, <3>5 DEF BreakdownArrives
    <3>6. QED
      BY <1>6, <3>4, <3>5
  <2>3. QED
    BY <1>0, <1>1, <1>2, <2>1, <2>2, ListAsBefore, CountsAsBefore DEF CountsToCome
<1>7. CASE StatsArrive
  <2>1. /\ UNCHANGED <<asked, late, sentences, breakdown, adrift>> /\ counting # None
        /\ counting' = None
        /\ stats' \in {[of |-> counting, failed |-> FALSE], [of |-> None, failed |-> TRUE]}
    BY <1>7 DEF StatsArrive
  <2>2. stats' \in [of : StatScopes \cup {None}, failed : BOOLEAN]
    <3>1. CASE stats' = [of |-> counting, failed |-> FALSE]
      BY <1>0, <3>1
    <3>2. CASE stats' = [of |-> None, failed |-> TRUE]
      BY <3>2
    <3>3. QED
      BY <2>1, <3>1, <3>2
  <2>3. CountsInv'
    <3>1. StatScope' = StatScope
      BY <1>1 DEF StatScope, Counted, searchScope, reader
    <3>2. ~stats'.failed => stats'.of = counting
      BY <2>1
    <3>3. QED
      BY <1>1, <2>1, <3>1, <3>2 DEF CountsInv
  <2>4. QED
    BY <1>0, <1>1, <1>2, <2>1, <2>2, <2>3, ListAsBefore
<1>8. QED
  BY <1>3, <1>4, <1>5, <1>6, <1>7

LEMMA ReloadsAreRight ==
    ASSUME SearchInv,
           \/ forceSearch \/ showAnywayAndRefresh
           \/ \E next \in BOOLEAN : setRevealHidden(next)
           \/ \E kind \in {"media", "category"} : ToggleStarts(kind)
           \/ ToggleIsSaved \/ ToggleFails
    PROVE  SearchInv'
<1> USE DEF SearchInv
<1>0. /\ SearchTypeOK /\ url \in Routes /\ view \in Routes
      /\ pending \in Routes \cup {Nowhere}
      /\ hides \in BOOLEAN /\ reveal \in BOOLEAN /\ override \in BOOLEAN
      /\ toggle \in [kind : {"media", "category"}, previous : BOOLEAN] \cup {None}
      /\ sentences \in ListStates
      /\ asked \in Sentences \cup {None} /\ late \in Sentences \cup {None}
      /\ stats \in [of : StatScopes \cup {None}, failed : BOOLEAN]
      /\ counting \in StatScopes \cup {None} /\ breakdown \in Breakdowns
      /\ adrift \subseteq Both /\ detour \in BOOLEAN
  BY DEF SearchTypeOK, ListStates, Breakdowns
<1>1. /\ UNCHANGED <<url, pending, view, stats, detour>> /\ ViewIsOfTheWay'
  <2>1. UNCHANGED <<url, pending, view, stats, detour>>
    BY DEF forceSearch, showAnywayAndRefresh, setRevealHidden, ToggleStarts, ToggleIsSaved,
           ToggleFails
  <2>2. QED
    BY <2>1 DEF ViewIsOfTheWay
<1>2. /\ hides' \in BOOLEAN /\ reveal' \in BOOLEAN /\ override' \in BOOLEAN
      /\ toggle' \in [kind : {"media", "category"}, previous : BOOLEAN] \cup {None}
  <2>1. CASE forceSearch
    BY <1>0, <2>1 DEF forceSearch, reader
  <2>2. CASE showAnywayAndRefresh
    BY <1>0, <2>2 DEF showAnywayAndRefresh
  <2>3. ASSUME NEW next \in BOOLEAN, setRevealHidden(next)
        PROVE  hides' \in BOOLEAN /\ reveal' \in BOOLEAN /\ override' \in BOOLEAN
               /\ toggle' = toggle
    BY <1>0, <2>3 DEF setRevealHidden
  <2>4. ASSUME NEW kind \in {"media", "category"}, ToggleStarts(kind)
        PROVE  /\ hides' \in BOOLEAN /\ reveal' \in BOOLEAN /\ override' \in BOOLEAN
               /\ toggle' \in [kind : {"media", "category"}, previous : BOOLEAN]
    BY <1>0, <2>4 DEF ToggleStarts
  <2>5. CASE ToggleIsSaved
    BY <1>0, <2>5 DEF ToggleIsSaved
  <2>6. CASE ToggleFails
    <3>1. toggle.previous \in BOOLEAN /\ hides' = toggle.previous /\ toggle' = None
          /\ UNCHANGED <<reveal, override>>
      BY <1>0, <2>6 DEF ToggleFails
    <3>2. QED
      BY <1>0, <3>1
  <2>7. QED
    BY <1>0, <2>1, <2>2, <2>3, <2>4, <2>5, <2>6
<1>3. ASSUME sentences' \in ListStates, asked' \in Sentences \cup {None},
             late' \in Sentences \cup {None}, counting' \in StatScopes \cup {None},
             breakdown' \in Breakdowns, adrift' \subseteq Both
      PROVE  SearchTypeOK'
  BY <1>0, <1>1, <1>2, <1>3, TypesAfter
<1>4. CASE Reload
  <2>1. /\ asked' \in Sentences \cup {None} /\ late' \in Sentences \cup {None}
        /\ sentences' \in ListStates /\ counting' \in StatScopes
        /\ breakdown' \in Breakdowns /\ adrift' = {}
        /\ NothingLeftSpinning' /\ ListInv' /\ CountsInv'
    BY <1>0, <1>1, <1>4, ReloadIsRight
  <2>2. QED
    BY <1>1, <1>3, <2>1
<1>5. CASE /\ watchSearchScope /\ adrift' = Both
           /\ UNCHANGED <<sentences, asked, late, counting>>
  <2>1. breakdown' \in Breakdowns
    BY <1>0, <1>5, BreakdownIsTyped
  <2>2. NothingLeftSpinning' /\ ListInv' /\ CountsInv'
    BY <1>5, Adrift
  <2>3. QED
    BY <1>0, <1>1, <1>3, <1>5, <2>1, <2>2
<1>6. Reload \/ (/\ watchSearchScope /\ adrift' = Both
                 /\ UNCHANGED <<sentences, asked, late, counting>>)
  BY DEF forceSearch, showAnywayAndRefresh, setRevealHidden, ToggleStarts, ToggleIsSaved,
         ToggleFails
<1>7. QED
  BY <1>4, <1>5, <1>6

-----------------------------------------------------------------------------
\* The theorems.

LEMMA SearchInvHolds == SearchSpec => []SearchInv
<1>1. SearchInit => SearchInv
  BY InitIsRight
<1>2. SearchInv /\ [SearchNext]_svars => SearchInv'
  <2> SUFFICES ASSUME SearchInv, [SearchNext]_svars
               PROVE  SearchInv'
    OBVIOUS
  <2>1. CASE SearchNext
    BY <2>1, NavigationIsRight, RequestsAreRight, ReloadsAreRight DEF SearchNext
  <2>2. CASE UNCHANGED svars
    <3>1. UNCHANGED <<url, pending, view, reader, sentences, asked, late, stats, counting,
                      breakdown, adrift, detour>>
      BY <2>2 DEF svars
    <3>2. SearchTypeOK'
      BY <3>1 DEF SearchInv, SearchTypeOK, reader
    <3>3. NothingLeftSpinning' /\ ListInv' /\ CountsInv'
      BY <3>1, ListAsBefore, CountsAsBefore DEF SearchInv, CountsToCome
    <3>4. ViewIsOfTheWay'
      BY <3>1 DEF SearchInv, ViewIsOfTheWay
    <3>5. QED
      BY <3>2, <3>3, <3>4 DEF SearchInv
  <2>3. QED
    BY <2>1, <2>2
<1>3. QED
  BY <1>1, <1>2, PTL DEF SearchSpec

\* The list is the pages of one search in order, for any addresses, however the reader
\* moves and whatever fails.
THEOREM ListIsRight == SearchSpec => []ListIsOneSearch
<1>1. SearchInv => ListIsOneSearch
  <2> SUFFICES ASSUME SearchInv, "list" \notin adrift, NEW i \in 1 .. Len(sentences.pages)
               PROVE  sentences.pages[i] = [scope |-> sentences.pages[1].scope, n |-> i]
    BY DEF ListIsOneSearch
  <2>1. /\ sentences.pages \in Seq(ListPages)
        /\ \A j \in 1 .. Len(sentences.pages) :
             sentences.pages[j] = [scope |-> searchScope, n |-> j]
    BY DEF SearchInv, SearchTypeOK, ListInv, PagesInOrder
  <2>2. 1 \in 1 .. Len(sentences.pages)
    BY <2>1
  <2>3. sentences.pages[1] = [scope |-> searchScope, n |-> 1]
    BY <2>1, <2>2
  <2>4. QED
    BY <2>1, <2>3
<1>2. QED
  BY <1>1, SearchInvHolds, PTL

\* The page shows that it waits exactly while a request for the list is current, whichever
\* one was replaced, cancelled or answered late.
THEOREM SpinnerIsTrue == SearchSpec => []NothingLeftSpinning
<1>1. SearchInv => NothingLeftSpinning
  BY DEF SearchInv
<1>2. QED
  BY <1>1, SearchInvHolds, PTL

\* Once nothing is on its way, list and counts are those of the search in the address,
\* unless one of them is adrift or a navigation was given up for another.
THEOREM AddressIsShown == SearchSpec => []PageIsOfTheAddress
<1>1. SearchInv => PageIsOfTheAddress
  <2> SUFFICES ASSUME SearchInv, ~detour
               PROVE  /\ /\ "list" \notin adrift /\ ~isViewingHiddenMedia
                         /\ asked = None /\ pending = Nowhere /\ ~sentences.failed
                         => /\ sentences.pages # <<>>
                            /\ sentences.pages[1].scope = [searchScope EXCEPT !.view = url]
                      /\ /\ "counts" \notin adrift
                         /\ counting = None /\ ~BringsCounts(asked) /\ ~BringsCounts(late)
                         /\ ~stats.failed
                         => stats.of = StatScope
    BY DEF PageIsOfTheAddress
  <2>1. /\ "counts" \notin adrift
        /\ counting = None /\ ~BringsCounts(asked) /\ ~BringsCounts(late) /\ ~stats.failed
        => stats.of = StatScope
    BY DEF SearchInv, CountsInv, CountsToCome
  <2>2. ASSUME "list" \notin adrift, asked = None, pending = Nowhere, ~sentences.failed,
               ~isViewingHiddenMedia
        PROVE  /\ sentences.pages # <<>>
               /\ sentences.pages[1].scope = [searchScope EXCEPT !.view = url]
    <3>1. sentences.pages # <<>> /\ PagesInOrder /\ sentences.pages \in Seq(ListPages)
      BY <2>2 DEF SearchInv, SearchTypeOK, ListInv, EmptyForAReason
    <3>2. 1 \in 1 .. Len(sentences.pages)
      BY <3>1
    <3>3. sentences.pages[1] = [scope |-> searchScope, n |-> 1]
      BY <3>1, <3>2 DEF PagesInOrder
    <3>4. view = url
      BY <2>2 DEF SearchInv, ViewIsOfTheWay
    <3>5. searchScope = [searchScope EXCEPT !.view = url]
      <4>1. searchScope.view = url /\ searchScope \in SearchScopes
        BY <3>4, TypesOfScopes DEF searchScope, SearchInv
      <4>2. QED
        BY <4>1 DEF SearchScopes
    <3>6. QED
      BY <3>1, <3>3, <3>5
  <2>3. QED
    BY <2>1, <2>2
<1>2. QED
  BY <1>1, SearchInvHolds, PTL
=============================================================================
