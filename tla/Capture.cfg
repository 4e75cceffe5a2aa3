SPECIFICATION Spec
CONSTANTS
  Dev = {d1, d2}
  NoDev = NoDev
  Buf = {b1, b2}
  NoBuf = NoBuf
  Fds <- TwoFds
  TV_IN_SYNC = 2
  TV_NO_SYNC = 2
  Requests <- AllRequests
  InsertAtHead = FALSE
  MaxTime = 4
  MaxFaults = 1
SYMMETRY Symmetry
INVARIANTS
  TypeOK
  BufferAccounting
  FrameHoldsImage
  OneCallbackPerPass
PROPERTIES
  DeliverySynced
  DeliveryFresh
  HaltIsFinal
  ReturnsCount
  ImplementsSession
