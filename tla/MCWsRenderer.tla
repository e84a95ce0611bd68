---------------------------- MODULE MCWsRenderer ----------------------------
EXTENDS WsRenderer, TLC
=============================================================================
