------------------------------- MODULE MCSite -------------------------------
(***************************************************************************)
(* The caches of the site, the index it searches, the list it shows and    *)
(* the player under it, each on an instance of its own, chosen at the      *)
(* start.                                                                  *)
(*                                                                         *)
(* Four are cut down further than their constants do.  IndexAlias has a    *)
(* second edit only while nothing has failed and one runner has run a      *)
(* command, sync jobs only while one of the two is so, and stops where the *)
(* alias has moved without its mover knowing.                              *)
(* ReaderCache holds at most four entries in all.  ApiAccess has two       *)
(* requests at once, and answers, only while nobody has changed an account *)
(* or its key.  SearchList has two addresses for a reader to *)
(* go between, and at most two answers on their way beside a replaced one; *)
(* one and no replaced one where a navigation was given up, or a list or   *)
(* counts are of another search without a preference being saved; none     *)
(* with a breakdown, and no replaced request while a preference is saved;  *)
(* and nothing is hidden on the ways to another category or word.          *)
(***************************************************************************)
EXTENDS IndexAlias, CorpusCache, ReaderCache, ApiAccess, MCSearchList, MCPlayer, TLC

VARIABLES
    part,
    way    \* the addresses of the reader of the list

parts == <<ivars, cvars, rvars, avars, svars, plvars>>

\* Where the reader's preferences matter besides the way.
MayHide == way \cap {"title", "sorted"} # {}

MCInit ==
    /\ IndexInit /\ CorpusInit /\ ReaderInit /\ AccessInit
    /\ part \in {"index", "corpus", "reader", "access", "search", "player"}
    /\ SearchInit /\ PlayerInit
    /\ way \in Ways /\ url \in way /\ (hides => MayHide)
    /\ part # "access" => usage = 0
    /\ part # "search" => /\ way = {"cat", "title"} /\ url = "cat" /\ ~hides
                          /\ asked = None /\ counting = None /\ adrift = {}

OneRunner == \E r \in Runners : from[r] = NoIndex

FewEdits ==
    /\ edits = 2 => failures = 0 /\ OneRunner
    /\ reads # {} => failures = 0 \/ OneRunner

FewChanges ==
    \/ (\A x \in Things : row[x].v = 0) /\ editing = [p \in Procs |-> Absent]
    \/ Cardinality({r \in Requests : request[r] # Free}) <= 1 /\ answers = 0

AnswersOut == Cardinality({i \in 1 .. 3 : <<asked, counting, toggle>>[i] # None})

FewAnswers ==
    /\ {url, view, pending} \subseteq way \cup {Nowhere}
    /\ AnswersOut <= IF detour \/ (adrift # {} /\ toggle = None) THEN 1 ELSE 2
    /\ hides \/ toggle # None => MayHide
    /\ late # None => toggle = None /\ ~detour
    /\ (adrift # {} /\ toggle = None) => late = None
    /\ breakdown # NoBreakdown => AnswersOut = 0 /\ late = None /\ adrift = {}

FewEntries ==
    Cardinality({x \in Forks \X SessionKeys : held[x[1]][x[2]].kind # "none"}) <= 4

MCNext ==
    /\ UNCHANGED <<part, way>>
    /\ \/ /\ part = "index" /\ IndexNext /\ ~mishap /\ FewEdits'
          /\ UNCHANGED <<cvars, rvars, avars, svars, plvars>>
       \/ part = "corpus" /\ CorpusNext /\ UNCHANGED <<ivars, rvars, avars, svars, plvars>>
       \/ /\ part = "reader" /\ ReaderNext /\ FewEntries'
          /\ UNCHANGED <<ivars, cvars, avars, svars, plvars>>
       \/ /\ part = "access" /\ AccessNext /\ FewChanges'
          /\ UNCHANGED <<ivars, cvars, rvars, svars, plvars>>
       \/ /\ part = "search" /\ SearchNext /\ FewAnswers'
          /\ UNCHANGED <<ivars, cvars, rvars, avars, plvars>>
       \/ part = "player" /\ PlayerNext /\ UNCHANGED <<ivars, cvars, rvars, avars, svars>>

MCSpec == MCInit /\ [][MCNext]_<<parts, part, way>>

\* Processes, forks of the frontend and runners are alike, and so are requests and
\* browsers: no module looks at two of these kinds together, and the instances use the
\* same two values for them.
Alike == Permutations(Procs) \cup Permutations(Requests)
=============================================================================
