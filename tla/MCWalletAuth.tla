----------------------------- MODULE MCWalletAuth -----------------------------
(* WalletAuth on a small instance: a wallet with two accounts.               *)
EXTENDS WalletAuth, TLC

CONSTANTS alice, bob

Accounts == Permutations({alice, bob})
=============================================================================
