----------------------------- MODULE MCR8125Tx -----------------------------
EXTENDS R8125Tx
=============================================================================
