---------------------------- MODULE MCKeyScripts ----------------------------
(***************************************************************************)
(* Instances of KeyScripts for TLC.                                         *)
(***************************************************************************)
EXTENDS KeyScripts, TLC

\* No password means more than another.
Symmetry == Permutations(Password)
=============================================================================
