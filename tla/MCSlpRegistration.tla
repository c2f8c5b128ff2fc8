-------------------------- MODULE MCSlpRegistration --------------------------
EXTENDS SlpRegistration
CONSTANTS printer, raid
MCXid == [s \in Services |-> s]
=============================================================================
