------------------------ MODULE MCOperatorIsolation ------------------------
(* Two backends, so that the quorum lets one be isolated.                  *)
EXTENDS OperatorIsolation, TLC
=============================================================================
