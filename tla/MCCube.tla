------------------------------- MODULE MCCube -------------------------------
(***************************************************************************)
(* Two halves in one run, which share no variable: drawing on a cube with  *)
(* the server's setup, while the menu rests, and the menu with its         *)
(* joysticks, while nothing is drawn and there is no configuration.        *)
(***************************************************************************)
EXTENDS Display, MainMenu

VARIABLE half

cubeVars == <<vars, allVars, half>>

CubeInit ==
  /\ Init /\ MenuInit
  /\ \/ half = "display" /\ plugs = 0 /\ \A j \in Slots : real[j] = Released
     \/ half = "menu" /\ etcFile = NoFile /\ cwdFile = NoFile

DisplayHalf == half = "display" /\ Next /\ UNCHANGED <<allVars, half>>

MenuHalf == half = "menu" /\ MenuNext /\ UNCHANGED <<vars, half>>

CubeSpec ==
  /\ CubeInit /\ [][DisplayHalf \/ MenuHalf]_cubeVars
  /\ half = "menu" => MenuFairness

\* What the half that rests has never changes.
CubeView == <<half, IF half = "display" THEN vars ELSE allVars>>

\* Off the screen, on it, at its end and beyond.
MCCoordinates == {-2, -1, 0, 2, 5}

\* Outside of the cube, on its planes, and between pixels of a screen.
MCSmooth == {-2, 0, 2, 5, 7, 8, 20}
MCColors == {<<255, 100, 40>>}

\* A full deflection one way, half a one the other.
MCAxisValues == {-2, 0, 1}
=============================================================================
