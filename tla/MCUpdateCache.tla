---------------------------- MODULE MCUpdateCache ----------------------------
(* Model checking of UpdateCache: see the configurations UpdateCache*.cfg. *)
EXTENDS UpdateCache, TLC
=============================================================================
