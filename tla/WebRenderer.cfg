CONSTANTS
  Callers = {t}
  NoSession = NoSession
  MaxSessions = 2
  MaxFrames = 1
  MaxCalls = 3
SPECIFICATION FairSpec
INVARIANTS OneWriteAtATime FramesBounded NoMessageDropped
PROPERTIES MessageArrives
CHECK_DEADLOCK FALSE
