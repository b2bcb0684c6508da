--------------------------- MODULE MCDedicatedNode ---------------------------
EXTENDS DedicatedNode, MCOpctEnvironment
=============================================================================
