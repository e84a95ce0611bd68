----------------------------- MODULE MCIpcSystem -----------------------------
EXTENDS IpcSystem, TLC

\* Left out are the variables that are only written and those of the default
\* application, which decide about nothing here; and shown: what a step makes
\* of it does not depend on it, and ImplementsArbiter compares the two within
\* each step.
IpcView ==
  <<apps, [r \in Regs |-> <<app[r].id, app[r].conn>>], registered,
    connections, dead, job, tickAt, told, appState, appId, frameAcked, mainAt,
    looping, ioAt, posted, connDead, c2s, s2c, hand, holder, gone>>
=============================================================================
