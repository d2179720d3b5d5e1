----------------------- MODULE MCRepositoryOwnership -----------------------
(* Instances of RepositoryOwnership for TLC.                               *)
EXTENDS RepositoryOwnership, TLC

Anonymous == Permutations(Users) \cup Permutations(Jobs)
=============================================================================
