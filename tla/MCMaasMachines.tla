--------------------------- MODULE MCMaasMachines ---------------------------
EXTENDS MaasMachines
=============================================================================
