---------------------------- MODULE MCAuraLocker ----------------------------
(* Instances of AuraLocker for TLC.                                        *)
EXTENDS AuraLockerProperties, TLC

CONSTANTS alice, bob, dan, eve, aurabal, keeper

MCWalletOneEach == [a \in Accounts |-> 1]
MCWalletUneven  == [a \in Accounts |-> IF a = alice THEN 2 ELSE 1]

NoKickSettings == {}
MCKickSettings == {<<2, 2>>}

DelegateeSymmetry == Permutations(Delegatees)
AccountSymmetry == Permutations(Accounts)
=============================================================================
