CONSTANTS
  N = 4
  FontWidth = 2
  FontHeight = 2
  Coordinates <- MCCoordinates
  SpaceCoordinates = {0, 1, 3, 5}
  SmoothQuarters <- MCSmooth
  SmoothColors <- MCColors
  CompiledIn = {"simulator", "fpga-ftdi", "fpga-rpispi", "rgb-matrix"}
  Offsets = {0, 1, 6}
  EditedFiles = {"fpga-rpispi", "rgb-matrix"}
  NSlots = 2
  AxisValues <- MCAxisValues
  PlugSlots = {1}
  MaxPlugs = 2
  MaxInputs = 2
  NApps = 1
  Brightness = {95}
SPECIFICATION CubeSpec
INVARIANTS LineFollowsIdeal ShapesClipToScreen SurfaceQueriesAgree SmoothKeepsLight ColorWheel PanelsComplete OverlapIsWarned SelectionInList OneChoicePerPress
PROPERTIES SlotFollowsDevice
VIEW CubeView
