---------------------------- MODULE MCWalWriter ----------------------------
(* Instances of WalWriter for TLC. *)
EXTENDS WalWriter, TLC

ValueSymmetry == Permutations(Values)
=============================================================================
