------------------------------ MODULE MCMonitor ------------------------------
(* Monitor with its abstract Watchdog for TLC; the instances are           *)
(* MCMonitorReliable.cfg, MCMonitorRoomy.cfg, MCLostRebootReply.cfg and    *)
(* MCCtrlC.cfg.                                                            *)
EXTENDS MonitorWatchdog, TLC
=============================================================================
