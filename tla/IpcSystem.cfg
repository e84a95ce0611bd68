CONSTANTS
  Clients = {a}
  Others = {o}
  NoConn = NoConn
  IoThread = IoThread
  NRenderers = 1
  MaxRegs = 3
  MaxLevel = 0
  MaxPosted = 0
  QueueSize = 1
  MaxAsked = 1
  Events = {"input","crash","tick"}
SPECIFICATION FairSpec
PROPERTIES MutexIsReleased CoveredAppPauses ImplementsArbiter
INVARIANTS CoveredNeverResumed OnlyOthersCoverApproved
VIEW IpcView
CHECK_DEADLOCK FALSE
