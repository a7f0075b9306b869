--------------------------- MODULE MCExtraRewards ---------------------------
(* Instance of ExtraRewards for TLC.                                       *)
EXTENDS ExtraRewards, TLC

CONSTANTS alice, bob, keeper

MCWallet == [a \in Accounts |-> 1]
NoKickSettings == {}
AccountSymmetry == Permutations(Accounts)
=============================================================================
