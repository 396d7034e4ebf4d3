----------------------------- MODULE MCCollector -----------------------------
(* An IP and an Ethernet interface of one name, and one without a name     *)
(* that can be exported.                                                   *)
EXTENDS Collector

MCType == [i \in Interface |-> IF i = "port" THEN "ethernet" ELSE "ip"]
MCName == [i \in Interface |-> IF i = "tunnel" THEN "unsafe" ELSE "wan1"]
=============================================================================
