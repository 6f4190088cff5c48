---------------------------- MODULE MCActionGate ----------------------------
EXTENDS ActionGate
=============================================================================
