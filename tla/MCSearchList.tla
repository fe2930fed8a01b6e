---------------------------- MODULE MCSearchList ----------------------------
(* Six addresses: a word; the word within a title the reader may hide, in    *)
(* another order and in a category of its own; another word on the same page *)
(* (`?query=`) and on a page of its own.                                     *)
EXTENDS SearchList

MCParam(r) == IF r = "page" THEN "page" ELSE ""
MCWord(r) == IF r \in {"dog", "page"} THEN "dog" ELSE "cat"
MCRawCategory(r) == IF r = "drama" THEN "drama" ELSE NoCategory

\* The addresses a reader may go between.
Ways == {{"cat", "title"}, {"cat", "sorted"}, {"cat", "drama"}, {"cat", "dog"},
         {"title", "page"}}
=============================================================================
