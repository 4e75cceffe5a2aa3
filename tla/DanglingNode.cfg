SPECIFICATION SelfTestSpec
CONSTANTS
  video0 = video0
  video3 = video3
  video4 = video4
  Dev = {video0, video3, video4}
  Base <- OneBase
  Extra <- TwoExtra
  Sets = 5
  Captures = 5
  NoDev = NoDev
  Buf = {b1, b2}
  NoBuf = NoBuf
  Fds <- ThreeFds
  TV_IN_SYNC = 2
  TV_NO_SYNC = 2
  Requests = {5}
  InsertAtHead = TRUE
  MaxTime = 5
  MaxFaults = 0
INVARIANTS
  LoopNodeLives
