---------------------------- MODULE MCDecisionLog ----------------------------
(* Instances of DecisionLog for TLC.                                         *)
EXTENDS DecisionLog, TLC

CONSTANTS a, b, t, u

Alike == Permutations(Connection) \cup Permutations(Text)
=============================================================================
