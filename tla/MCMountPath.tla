---------------------------- MODULE MCMountPath ----------------------------
EXTENDS MountPath

CONSTANTS plain, other, bad, worse, nested
=============================================================================
