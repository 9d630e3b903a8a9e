---------------------------- MODULE MCVaultBackup ----------------------------
(* VaultBackup for TLC: which installation makes which backup. *)
EXTENDS VaultBackup, TLC
CONSTANTS d1, d2, t1, t2, r1

TwoDevices == t1 :> d1 @@ t2 :> d2
OneDevice == t1 :> d1
Symmetry == Permutations(Keys)
=============================================================================
