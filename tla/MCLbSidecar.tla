---------------------------- MODULE MCLbSidecar ----------------------------
(* Small instances of LbSidecar.  Scores of ten and twenty thousandths give *)
(* weights 1 and 2, the smallest skew a ranking can ask for.                *)
EXTENDS LbSidecar, TLC

BackendSymmetry == Permutations(Backends)
=============================================================================
