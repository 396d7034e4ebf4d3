------------------------------ MODULE MCService ------------------------------
(* Service for TLC; the instances are MCService.cfg and MCStopped.cfg.     *)
EXTENDS Service
=============================================================================
