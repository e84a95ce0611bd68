------------------------------ MODULE MCServer ------------------------------
EXTENDS Server, TLC

ConnSymmetry == Permutations(Conns)

\* Left out is sent, which says what the step just taken has sent.
ServerView ==
  <<apps, app, registered, connections, dead, job, shown, brightness, panel,
    tickAt, defaultAppStarted, defaultAppPid, proc, told>>

\* Left out too are panel and what app holds besides ids and connections: no
\* guard reads them, and the properties of the runs with this view do not.
StackView ==
  <<apps, [r \in Regs |-> <<app[r].id, app[r].conn>>], registered, connections,
    dead, job, shown, brightness, tickAt, defaultAppStarted, defaultAppPid,
    proc, told>>
=============================================================================
