------------------------------ MODULE Display -------------------------------
(***************************************************************************)
(* The server's setup and the drawing library.  What is drawn does not     *)
(* depend on the layout of the panels, nor the other way round: drawing    *)
(* goes on while the server runs the simulator with its own configuration. *)
(***************************************************************************)
EXTENDS CubeDrawing, ServerSetup

vars == <<drawingVars, setupVars>>

Init == DrawingInit /\ SetupInit

Drawing == /\ backend = "simulator" /\ etcFile = NoFile /\ cwdFile = NoFile
           /\ config = createDefaultCubeConfig(backend)

Next ==
  \/ Drawing /\ DrawingNext /\ UNCHANGED setupVars
  \/ last = Nothing /\ SetupNext /\ UNCHANGED drawingVars

Spec == Init /\ [][Next]_vars

=============================================================================
