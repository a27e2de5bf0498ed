---------------------------- MODULE MCMemoryVault ----------------------------
EXTENDS MemoryVault, TLC

VaultSymmetry == Permutations(Procs) \cup Permutations(Notes)
=============================================================================
