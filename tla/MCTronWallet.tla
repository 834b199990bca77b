---------------------------- MODULE MCTronWallet ----------------------------
(* TronWallet for TLC: the constants are given their values in the cfg files. *)
EXTENDS TronWallet
=============================================================================
