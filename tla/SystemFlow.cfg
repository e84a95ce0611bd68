CONSTANTS
  MaxConns = 1
  NoConn = NoConn
  IoThread = IoThread
  NRenderers = 1
  Clients = {a, b}
  MaxRegs = 2
  MaxLevel = 0
  MaxPosted = 0
  MaxUnread = 1
  Events = {"button", "early"}
SPECIFICATION FairSpec
PROPERTIES CoveredAppPauses TopAppDrawsAgain KilledAppLeaves
VIEW SystemView
CHECK_DEADLOCK FALSE
