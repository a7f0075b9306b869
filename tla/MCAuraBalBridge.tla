--------------------------- MODULE MCAuraBalBridge ---------------------------
(* Instances of AuraBalBridge for TLC.                                     *)
EXTENDS AuraBalBridgeProperties

CONSTANTS alice, proxy, c1, c2

MCWallet  == [u \in Users |-> IF u = alice THEN 3 ELSE 0]
MCReports == {[c \in Chains |-> IF c = c1 THEN 2 ELSE 1]}
=============================================================================
