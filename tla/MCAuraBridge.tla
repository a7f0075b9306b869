---------------------------- MODULE MCAuraBridge ----------------------------
(* Instances of AuraBridge for TLC.                                        *)
EXTENDS AuraBridgeProperties

CONSTANTS alice, bob, arbitrum, optimism

MCBalance == [a \in Accounts |-> IF a = alice THEN 2 ELSE 0]

=============================================================================
