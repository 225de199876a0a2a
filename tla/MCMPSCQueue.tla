------------------------------ MODULE MCMPSCQueue ------------------------------
\* Small instances of MPSCQueue for TLC.
EXTENDS MPSCQueue
================================================================================
