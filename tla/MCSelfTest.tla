----------------------------- MODULE MCSelfTest -----------------------------
EXTENDS SelfTest

CONSTANTS video0, video3, video4

OneBase == <<video0>>
TwoExtra == <<video3, video4>>
ThreeFds == {3, 4, 5}
=============================================================================
