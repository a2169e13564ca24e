--------------------------- MODULE MCDocumentIndex ---------------------------
(* Instances of DocumentIndex for TLC.                                       *)
EXTENDS DocumentIndex, TLC

CONSTANTS a, b, w, v

\* Two names in DOCUMENTS_ROOT and the first of them in a subdirectory.
SmallPath == {<<"root", 1>>, <<"root", 2>>, <<"sub", 1>>}
\* A profile other than the first puts documents back outside DOCUMENTS_ROOT.
ProfilePath == {<<"root", 1>>, <<"profile", 1>>}
SmallChunks == [c \in Content |-> IF c = a THEN 2 ELSE 1]
Alike == Permutations(Worker)
=============================================================================
