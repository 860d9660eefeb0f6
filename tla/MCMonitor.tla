----------------------------- MODULE MCMonitor -----------------------------
EXTENDS Monitor

CONSTANTS c1, c2
=============================================================================
