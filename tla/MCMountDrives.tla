--------------------------- MODULE MCMountDrives ---------------------------
EXTENDS MountDrives, TLC

CONSTANTS d1, d2, d3

Symmetric == Permutations(Drives)
=============================================================================
