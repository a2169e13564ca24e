-------------------------- MODULE MCMemoryGovernance --------------------------
(* Instances of MemoryGovernance for TLC.                                    *)
EXTENDS MemoryGovernance, TLC

CONSTANTS a, b, editor, python, x, y

Alike == Permutations(Connection) \cup Permutations(Value)
=============================================================================
