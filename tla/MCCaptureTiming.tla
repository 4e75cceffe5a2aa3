-------------------------- MODULE MCCaptureTiming --------------------------
EXTENDS CaptureTiming
=============================================================================
