---------------------------- MODULE MCStandalone ----------------------------
EXTENDS Standalone, TLC
=============================================================================
