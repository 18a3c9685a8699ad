------------------------- MODULE MCStatusProjection -------------------------
EXTENDS StatusProjection
=============================================================================
