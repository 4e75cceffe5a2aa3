SPECIFICATION Spec
CONSTANTS
  Dev = {d1, d2}
  NoDev = NoDev
  Buf = {b1, b2}
  NoBuf = NoBuf
  Fds <- TwoFds
  TV_IN_SYNC = 2
  TV_NO_SYNC = 2
  Requests <- AllRequests
  InsertAtHead = FALSE
  MaxTime = 5
  MaxFaults = 0
SYMMETRY Symmetry
PROPERTIES
  FatalJustified
