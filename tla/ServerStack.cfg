CONSTANTS
  Conns = {c1, c2}
  IpcConns = {}
  NoConn = NoConn
  IoThread = IoThread
  MaxRegs = 3
  NRenderers = 2
  MaxLevel = 1
  DistinctIds = TRUE
  Alphabet = {"registerApp", "setScreenFrame", "appKill"}
SPECIFICATION Spec
INVARIANTS TypeOK CoveredToldToPause DefaultAppTracked RenderersAgree
PROPERTIES UncoveredTopIsResumed
SYMMETRY ConnSymmetry
VIEW StackView
