----------------------------- MODULE MCRlEngine ------------------------------
(* RlEngine for TLC. *)
EXTENDS RlEngine

TwoBackends == {1, 2}
=============================================================================
