------------------------------ MODULE MCR8125 ------------------------------
EXTENDS R8125
=============================================================================
