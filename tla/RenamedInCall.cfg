SPECIFICATION Spec
CONSTANTS
  Name = {video0, video1}
  Dev = {v1, v2, null}
  NoDev = NoDev
  Capable = {v1, v2}
  Fds <- ThreeFds
  File = {x1, x2, x3, x4}
  NoFile = NoFile
  NoObj = NoObj
  NumBufs = 2
  RenameInCall = TRUE
  MaxFaults = 2
INVARIANTS
  OneOpenPerDevice
