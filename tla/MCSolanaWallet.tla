--------------------------- MODULE MCSolanaWallet ---------------------------
(* SolanaWallet for TLC: the constants are given their values in the cfg files. *)
EXTENDS SolanaWallet
=============================================================================
