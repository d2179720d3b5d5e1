----------------------- MODULE MCRepositoryCollection -----------------------
(* Instances of RepositoryCollection for TLC: one pull request with two    *)
(* pages of reviews, one without any, one with two pages of comments.      *)
EXTENDS RepositoryCollection, TLC

ThreeReviews == (1 :> 3) @@ (2 :> 0) @@ (3 :> 1)
ThreeComments == (1 :> 1) @@ (2 :> 0) @@ (3 :> 3)
=============================================================================
