-------------------------- MODULE MCJobAcceptance --------------------------
(* Instances of JobAcceptance for TLC.                                     *)
EXTENDS JobAcceptance, TLC

SameKeys ==
  Permutations(Users) \cup Permutations(Keys) \cup Permutations(Requests)
    \cup Permutations(Repositories)
=============================================================================
