------------------------------- MODULE MCRecall -------------------------------
(***************************************************************************)
(* Instances of Recall for TLC.                                             *)
(***************************************************************************)
EXTENDS Recall

\* Much of everything with a message that leaves room for most or little of it,
\* or little of everything, which just fits; with and without a gap, and asked
\* to go on or not.
SomeInputs ==
    {[message |-> l[1], decisions |-> IF l[2] THEN <<3, 2, 4>> ELSE <<>>, rows |-> IF l[2] THEN 3 ELSE 0,
      rag |-> IF l[2] THEN 5 ELSE 0, web |-> 2, gap |-> g, continuation |-> c]
        : l \in {<<1, TRUE>>, <<9, TRUE>>, <<9, FALSE>>}, g \in {0, 200}, c \in BOOLEAN}
=============================================================================
