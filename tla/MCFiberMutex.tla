----------------------------- MODULE MCFiberMutex -----------------------------
\* Small instances of FiberMutex for TLC.
EXTENDS FiberMutex
================================================================================
