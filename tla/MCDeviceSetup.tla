--------------------------- MODULE MCDeviceSetup ---------------------------
EXTENDS DeviceSetup

ThreeFds == {3, 4, 5}
=============================================================================
