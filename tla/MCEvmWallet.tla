---------------------------- MODULE MCEvmWallet ----------------------------
(* EvmWallet for TLC: the constants are given their values in the cfg files. *)
EXTENDS EvmWallet
=============================================================================
