---------------------------- MODULE MCPublishing ----------------------------
(* Instance for TLC: two publish configurations, one of them GitHub. *)
EXTENDS Publishing

CONSTANTS github, s3

MCConfigList == <<github, s3>>
=============================================================================
