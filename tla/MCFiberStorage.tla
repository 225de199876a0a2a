---------------------------- MODULE MCFiberStorage ----------------------------
\* Small instances of FiberStorage for TLC.
EXTENDS FiberStorage

===============================================================================
