----------------------------- MODULE MCSessions -----------------------------
(* Instances of Sessions for TLC.                                          *)
EXTENDS Sessions, TLC

Anonymous == Permutations(Accounts) \cup Permutations(Requests)
=============================================================================
