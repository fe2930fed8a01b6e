------------------------------ MODULE MCPlayer ------------------------------
(* One list: a sentence, a clip of YouTube and another sentence.              *)
EXTENDS Player

CONSTANTS clip1, clip2, tube

MCLists == {<<clip1, tube, clip2>>}
=============================================================================
