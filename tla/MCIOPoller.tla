------------------------------ MODULE MCIOPoller ------------------------------
\* Small instances of IOPoller and CompletionPort for TLC: the build is chosen at
\* the start.
EXTENDS CompletionPort
===============================================================================
