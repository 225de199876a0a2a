---------------------------- MODULE MCChaseLevQueue ----------------------------
\* The work-stealing deque by itself, for TLC.
EXTENDS ChaseLevQueue
================================================================================
