------------------------------- MODULE MCReactor -------------------------------
(***************************************************************************)
(* Two reactors for TLC.  The inbox of one has a single slot, so that      *)
(* within a few messages a thread spins on its own full inbox while a      *)
(* caller waits for it; that of the other takes batches of two.            *)
(***************************************************************************)
EXTENDS Reactor

SmallInboxes == [r \in Reactors |-> r + 1]
================================================================================
