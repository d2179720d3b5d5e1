---------------------------- MODULE MCGithubApp ----------------------------
(* Instances of GithubApp for TLC.                                         *)
EXTENDS GithubApp, TLC

Anonymous == Permutations(Users) \cup Permutations(Syncs)
=============================================================================
