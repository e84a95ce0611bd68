---------------------------- MODULE ServerSetup -----------------------------
(***************************************************************************)
(* From the configuration to the panels: which configuration the server    *)
(* starts with (server/ServerSetup.cpp), and where a hardware renderer     *)
(* puts the pixels of the screens in it (renderer).  A panel's cell is     *)
(* <<column, row>> of all panels together.                                 *)
(***************************************************************************)
EXTENDS CubeGeometry, FiniteSets, Sequences

CONSTANTS
  CompiledIn,  \* the backends in this binary
  Offsets,     \* bound: offsets written into a file by hand
  EditedFiles  \* bound: the configurations that get edited

Backends == {"simulator", "fpga-ftdi", "fpga-rpispi", "rgb-matrix"}

ASSUME SetupAssumption ==
  /\ CompiledIn \subseteq Backends /\ "simulator" \in CompiledIn
  /\ Offsets \subseteq Int /\ EditedFiles \subseteq Backends

VARIABLES
  etcFile, cwdFile,  \* matrixServerConfig.json in /etc and where it is started
  backend,           \* of the server that runs, or "off"
  config             \* the screens it has

setupVars == <<etcFile, cwdFile, backend, config>>

Rotations == {0, 90, 180, 270}

\* A configuration is a set of screens; screen s has orientation s.
ScreenInfo(s, layout) == [s |-> s, x |-> layout[1], y |-> layout[2], rot |-> layout[3]]

\* Fault variant of Layouts: the last screen is put where the first one is.
LayoutsRepeated(hw) == [s \in Screens |-> <<s % 5, 0, 0>>]

\* setScreenDefaults: offsets and rotation of front, right, back, left, top
\* and bottom.
Layouts(hw) ==
  LET table ==
        CASE hw = "fpga-ftdi" ->
               << <<4, 0, 180>>, <<3, 0, 180>>, <<1, 0, 90>>,
                  <<5, 0, 180>>, <<0, 0, 270>>, <<2, 0, 270>> >>
          [] hw = "fpga-rpispi" ->
               << <<1, 1, 0>>, <<2, 1, 0>>, <<1, 0, 90>>,
                  <<0, 1, 0>>, <<0, 0, 270>>, <<2, 0, 270>> >>
          [] hw = "rgb-matrix" ->
               << <<0, 0, 270>>, <<1, 0, 180>>, <<2, 0, 270>>,
                  <<3, 0, 180>>, <<4, 0, 90>>, <<5, 0, 0>> >>
          [] hw = "simulator" -> [i \in 1..6 |-> <<0, 0, 0>>]
  IN [s \in Screens |-> table[s + 1]]

createDefaultCubeConfig(hw) == {ScreenInfo(s, Layouts(hw)[s]) : s \in Screens}

\* A file is absent, not JSON, or a configuration; some are edited by hand.
NoFile == [is |-> "absent", screens |-> {}]
BadFile == [is |-> "bad", screens |-> {}]
File(screens) == [is |-> "json", screens |-> screens]
Edited ==
  UNION {{File({IF e.s = s THEN ScreenInfo(s, <<x, y, rot>>) ELSE e :
                  e \in createDefaultCubeConfig(hw)}) :
            s \in Screens, x \in Offsets, y \in Offsets, rot \in Rotations} :
         hw \in EditedFiles}

SetupInit ==
  /\ etcFile \in {NoFile, BadFile}
                 \cup {File(createDefaultCubeConfig(hw)) : hw \in Backends}
  /\ cwdFile \in {NoFile, BadFile}
  /\ backend = "off"
  /\ config = {}

\* handleServerConfig: a file that cannot be parsed leaves the configuration
\* empty, without a screen.  A file named on the command line is read whether
\* or not it is there; without any, a default is made and, if the user says
\* so, written for the next start - with whatever backend that will be.
Start(hw, path) ==
  /\ backend = "off" /\ hw \in CompiledIn
  /\ backend' = hw
  /\ LET file == CASE path = "etc" -> etcFile
                   [] path = "cwd" -> cwdFile
                   [] path = "none" -> IF etcFile # NoFile THEN etcFile ELSE cwdFile
         default == createDefaultCubeConfig(hw)
     IN IF path # "none" \/ file # NoFile
        THEN /\ config' = file.screens
             /\ UNCHANGED etcFile
        ELSE /\ config' = default
             /\ etcFile' \in {NoFile, File(default)}
  /\ UNCHANGED cwdFile

\* The constructor of the SPI renderer refuses to work without screens, and
\* main ends; the others start.
NoScreens ==
  /\ backend = "fpga-rpispi" /\ config = {}
  /\ backend' = "off"
  /\ UNCHANGED <<etcFile, cwdFile, config>>

Stop ==
  /\ backend # "off"
  /\ backend' = "off"
  /\ config' = {}
  /\ UNCHANGED <<etcFile, cwdFile>>

Edit ==
  /\ backend = "off" /\ cwdFile = NoFile
  /\ cwdFile' \in Edited
  /\ UNCHANGED <<etcFile, backend, config>>

SetupNext ==
  \/ \E hw \in Backends, path \in {"none", "etc", "cwd"} : Start(hw, path)
  \/ NoScreens \/ Stop \/ Edit

-----------------------------------------------------------------------------
(* warnIfConfigSuspicious. *)

\* Fault variant of SameOffset: screens that are turned differently are let by.
SameOffsetAndTurn(e, f) == e.x = f.x /\ e.y = f.y /\ e.rot = f.rot

SameOffset(e, f) == e.x = f.x /\ e.y = f.y

Warned ==
  \/ \E e \in config : e.s # front /\ e.x = 0 /\ e.y = 0 /\ e.rot = 0
  \/ \E e, f \in config : e # f /\ SameOffset(e, f)

-----------------------------------------------------------------------------
(* The renderers. *)

\* The pixel of a screen turned by rot that is at <<i, j>> of its panel.
Turned(rot, i, j) ==
  CASE rot = 0 -> <<i, j>>
    [] rot = 90 -> <<N - 1 - j, i>>
    [] rot = 180 -> <<N - 1 - i, N - 1 - j>>
    [] rot = 270 -> <<j, N - 1 - i>>

\* The RGB matrix turns the other way and places screens by both offsets, the
\* FTDI renderer looks at the column only; the SPI renderer sends two rows of
\* panels, and a screen is in the one that offsetY names, if it names one.
Turn(hw, rot) == IF hw = "rgb-matrix" THEN (360 - rot) % 360 ELSE rot

Columns(hw) == IF hw = "fpga-rpispi" THEN Cardinality(config) \div 2 ELSE 6
Rows(hw) == IF hw = "fpga-rpispi" THEN 2 ELSE 1

Place(hw, e, i, j) ==
  <<e.x * N + i, (IF hw = "fpga-ftdi" THEN 0 ELSE e.y * N) + j>>

Cells(hw) == (0..Columns(hw) * N - 1) \X (0..Rows(hw) * N - 1)

\* render: which pixel ends up in which cell.
Rendered(hw) ==
  {r \in {<<Place(hw, e, i, j), <<e.s>> \o Turned(Turn(hw, e.rot), i, j)>> :
            e \in config, i \in 0..N-1, j \in 0..N-1} : r[1] \in Cells(hw)}

-----------------------------------------------------------------------------
Hardware == backend \notin {"off", "simulator"}

\* With the configuration made for its backend a server shows every pixel of
\* the cube, once, and leaves no cell of the panels to what the line buffer
\* held before (ServerSetup.cpp:19-68 against the loops of the renderers).
PanelsComplete ==
  (Hardware /\ config = createDefaultCubeConfig(backend)) =>
    LET R == Rendered(backend)
    IN /\ {r[1] : r \in R} = Cells(backend)
       /\ {r[2] : r \in R} = Pixels
       /\ Cardinality(R) = Cardinality(Pixels)

\* Whatever file the server was given: if a screen hides another one, there is
\* a warning - but for the FTDI renderer, which ignores the row the check looks
\* at (ServerSetup.cpp:108-162).
OverlapIsWarned ==
  (Hardware /\ (backend = "fpga-ftdi" => \A e \in config : e.y = 0)) =>
    LET R == Rendered(backend)
    IN Cardinality(R) > Cardinality({r[1] : r \in R}) => Warned

=============================================================================
