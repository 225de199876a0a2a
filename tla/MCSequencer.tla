------------------------------ MODULE MCSequencer ------------------------------
(***************************************************************************)
(* Arrangements of the disruptor: a diamond behind one publisher, a chain  *)
(* behind two, three processors that are alerted, a pipeline of which only *)
(* the last stage is a gate, and a processor that blocks until signalled.  *)
(***************************************************************************)
EXTENDS Sequencer, TLC

CONSTANTS p1, p2, a, b, c

Diamond == [publishers |-> {p1}, multi |-> FALSE, last |-> 3,
            processors |-> {a, b, c}, gates |-> {c}, timed |-> {a}, alertable |-> {},
            dependents |-> a :> {} @@ b :> {} @@ c :> {a, b},
            kind |-> a :> "busy spin" @@ b :> "pause" @@ c :> "dont wait"]

Chain == [publishers |-> {p1, p2}, multi |-> TRUE, last |-> 2,
          processors |-> {a, b}, gates |-> {b}, timed |-> {a, b}, alertable |-> {},
          dependents |-> a :> {} @@ b :> {a} @@ c :> {},
          kind |-> a :> "block" @@ b :> "block" @@ c :> "dont wait"]

Alerted == [publishers |-> {p1}, multi |-> FALSE, last |-> 0,
            processors |-> {a, b, c}, gates |-> {b, c}, timed |-> {b, c}, alertable |-> {a, b, c},
            dependents |-> a :> {} @@ b :> {} @@ c :> {a},
            kind |-> a :> "busy spin" @@ b :> "pause" @@ c :> "block"]

Pipeline == [publishers |-> {p1}, multi |-> FALSE, last |-> 3,
             processors |-> {a, b, c}, gates |-> {c}, timed |-> {a}, alertable |-> {},
             dependents |-> a :> {} @@ b :> {a} @@ c :> {b},
             kind |-> a :> "block" @@ b :> "busy spin" @@ c :> "pause"]

Blocked == [publishers |-> {p1}, multi |-> FALSE, last |-> 1,
            processors |-> {a, b}, gates |-> {a, b}, timed |-> {}, alertable |-> {},
            dependents |-> a :> {} @@ b :> {a} @@ c :> {},
            kind |-> a :> "block" @@ b :> "busy spin" @@ c :> "dont wait"]

Timely == {Diamond, Chain, Alerted, Pipeline}
Untimely == {Blocked}
================================================================================
