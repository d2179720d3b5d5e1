--------------------------- MODULE MCJobDelivery ---------------------------
(* Small instances of JobDelivery. Their runs check liveness, so publish   *)
(* calls and copies are told apart although they are interchangeable.      *)
EXTENDS JobDelivery, TLC
=============================================================================
