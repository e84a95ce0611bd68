CONSTANTS
  MaxConns = 2
  NoConn = NoConn
  IoThread = IoThread
  NRenderers = 1
  Clients = {a}
  MaxRegs = 2
  MaxLevel = 0
  MaxPosted = 0
  MaxUnread = 1
  Events = {"tick", "cut", "crash", "button", "throw", "quit", "input"}
SPECIFICATION Spec
INVARIANTS WindowOfOne FramesAreOwn
PROPERTIES CreditLostOnlyByRefusal
VIEW SystemView
