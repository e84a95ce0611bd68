CONSTANTS
  MaxCode = 3
  MaxStream = 9
  Messages <- MCMessages
  QueueLimit = 1
  RecvBuffer = 4
  MaxSent = 4
SPECIFICATION FairSpec
INVARIANTS OneWriteAtATime HandledInOrder BufferHoldsOneMessage CodecRoundTrip
PROPERTIES AcceptedIsHandled
CHECK_DEADLOCK FALSE
