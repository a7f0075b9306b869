----------------------- MODULE AuraBalVaultProperties -----------------------
(* What the compounder is checked for.                                     *)
EXTENDS AuraBalVault

VaultTypeOK ==
  /\ wallet \in [Users -> Nat] /\ balanceOf \in [Users -> Nat]
  /\ totalSupply \in Nat /\ totalUnderlying \in Nat /\ rewards \in Nat
  /\ withdrawalPenalty \in 0 .. FEE_DENOMINATOR - 1

(* A share is worth at least one auraBAL: no deposit or withdrawal divides *)
(* by zero and none gets more shares than the auraBAL it brings            *)
(* (GenericUnionVault.deposit, _withdraw).                                 *)
SharesAreBacked == totalSupply <= totalUnderlying

(* While somebody holds shares no step makes a share worth less: deposits, *)
(* mints and withdrawals round against the one who makes them              *)
(* (GenericUnionVault.deposit, _withdraw).                                 *)
ShareNeverLoses ==
  [][totalSupply > 0 /\ totalSupply' > 0 =>
       totalUnderlying' * totalSupply >= totalUnderlying * totalSupply']_vaultVars

(* The shares that withdraw burns pay for the assets that were asked for,  *)
(* whatever the penalty, as AuraBalProxyOFT._withdraw requires             *)
(* (GenericUnionVault.previewWithdraw).                                    *)
WithdrawCoversAssets ==
  totalSupply > 0 =>
    \A assets \in Amounts :
      LET shares == PreviewWithdraw(assets, withdrawalPenalty)
      IN  shares < totalSupply => AfterPenalty(UnderlyingOf(shares), withdrawalPenalty) >= assets
=============================================================================
