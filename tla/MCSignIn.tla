------------------------------ MODULE MCSignIn ------------------------------
(***************************************************************************)
(* Instances of SignIn for TLC.                                             *)
(***************************************************************************)
EXTENDS SignIn, TLC

\* Passwords, processes and clients are each interchangeable, and the random
\* keys are.
Symmetry ==
    Permutations(Password) \cup Permutations(OldKey)
        \cup Permutations(Backend) \cup Permutations(Client)
=============================================================================
