------------------------- MODULE MCMonitorTelemetry -------------------------
(* Monitor with its counters for TLC; the instance is MCMonitorHostile.cfg. *)
EXTENDS MonitorTelemetry
=============================================================================
