----------------------------- MODULE MCR8125Rx -----------------------------
EXTENDS R8125Rx
=============================================================================
