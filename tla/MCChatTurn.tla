----------------------------- MODULE MCChatTurn ------------------------------
(* Instances of ChatTurn for TLC.                                            *)
EXTENDS ChatTurn

\* The local model first, one endpoint behind it.
LocalFirst == <<"ollama", "remote">>
=============================================================================
