-------------------------- MODULE MCSessionLifecycle --------------------------
(* Instances of SessionLifecycle for TLC: two sockets and two conversations  *)
(* to choose from, interchangeable where no liveness is checked.             *)
EXTENDS SessionLifecycle, TLC

CONSTANTS w1, w2, c1, c2

Alike == Permutations(Connection) \cup Permutations(Conversation)
=============================================================================
