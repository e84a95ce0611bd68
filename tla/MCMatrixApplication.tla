------------------------- MODULE MCMatrixApplication -------------------------
EXTENDS AnimationParams, TLC
=============================================================================
