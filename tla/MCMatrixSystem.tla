--------------------------- MODULE MCMatrixSystem ---------------------------
EXTENDS MatrixSystem, TLC

(***************************************************************************)
(* The variables a step or a property of the runs reads.  Left out are     *)
(* those that are only written (sent, told, shown, brightness, panel, the  *)
(* states and schemas of app, screens) and the default application's,      *)
(* which only decide about one another.                                    *)
(***************************************************************************)
SystemView ==
  <<apps, [r \in Regs |-> <<app[r].id, app[r].conn>>], registered,
    connections, dead, job, tickAt, appState, appId, frameAcked, mainAt,
    looping, ioAt, posted, connDead, channelVars>>
=============================================================================
