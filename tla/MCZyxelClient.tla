---------------------------- MODULE MCZyxelClient ----------------------------
(* ZyxelClient for TLC.                                                    *)
EXTENDS ZyxelClient, TLC
=============================================================================
