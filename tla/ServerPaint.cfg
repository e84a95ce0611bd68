CONSTANTS
  Conns = {c1, c2}
  IpcConns = {c1}
  NoConn = NoConn
  IoThread = IoThread
  MaxRegs = 2
  NRenderers = 1
  MaxLevel = 0
  DistinctIds = TRUE
  Alphabet = {"registerApp", "setScreenFrame", "appKill"}
SPECIFICATION Spec
PROPERTIES NewAppNotPaintedOver
VIEW ServerView
