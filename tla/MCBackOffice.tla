---------------------------- MODULE MCBackOffice ----------------------------
(* BackOffice for TLC: the constants that a .cfg cannot write.               *)
EXTENDS BackOffice

\* A price below zero passes where a quantity is given.
MCSlippagePrices == {-1000, 0, 30}

\* What is minted may be below zero; above it a mint is like a deposit or a faucet claim.
MCMinted == {-500}

\* Prices of fills, which may be below zero as well.
MCCosts == {-3, 5}
=============================================================================
