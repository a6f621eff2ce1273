--------------------------- MODULE MCPowerHistory ---------------------------
\* A small instance of PowerHistory: days of six instants, a hold of two.
EXTENDS PowerHistory

MCJumps == {-2, 0, 2}
=============================================================================
