CONSTANTS
  MaxConns = 1
  NoConn = NoConn
  IoThread = IoThread
  NRenderers = 1
  Clients = {a, b}
  MaxRegs = 2
  MaxLevel = 0
  MaxPosted = 0
  MaxUnread = 2
  Events = {"button"}
SPECIFICATION Spec
INVARIANTS TopAppCanDraw
VIEW SystemView
CHECK_DEADLOCK FALSE
