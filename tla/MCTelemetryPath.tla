-------------------------- MODULE MCTelemetryPath ---------------------------
(* TelemetryPath for TLC. *)
EXTENDS TelemetryPath
=============================================================================
