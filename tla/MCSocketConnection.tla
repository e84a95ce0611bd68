------------------------- MODULE MCSocketConnection -------------------------
EXTENDS SocketConnection, TLC

\* With MaxCode = 3: a single byte, a full block at the end, and a full block
\* before a zero.
MCMessages == {<<1>>, <<3, 2>>, <<2, 1, 0>>}

\* The decoder's limit is as tight as the messages allow.
ASSUME MessagesFit
=============================================================================
