--------------------------- MODULE MCIntelDisplay ---------------------------
EXTENDS IntelDisplay
=============================================================================
