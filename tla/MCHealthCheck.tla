----------------------------- MODULE MCHealthCheck -----------------------------
(* HealthCheck on small instances. *)
EXTENDS HealthCheck

CONSTANTS call, probe
CallAndProbe == {call, probe}
================================================================================
