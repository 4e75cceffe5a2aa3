SPECIFICATION Spec
CONSTANTS
  Dev = {d1, d2}
  NumBufs = 2
  TV_IN_SYNC = 2
  TV_NO_SYNC = 2
  SignalGap = 3
INVARIANTS
  TypeOK
  SilenceBounded
PROPERTIES
  CaptureGoesOn
  HaltEnds
