------------------------ MODULE MCInstallationToken ------------------------
(* An instance of InstallationToken for TLC.                               *)
EXTENDS InstallationToken, TLC

CONSTANTS q1, q2, i1, r1

\* One installation whose only repository fills a page.
OnePage == i1 :> <<r1>>

SameRequests == Permutations(Requests)
=============================================================================
