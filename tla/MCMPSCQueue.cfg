\* Three producers over a ring of two slots, six messages: the ring wraps twice
\* and is full, empty, partly consumed, and full with a producer at the gate.
SPECIFICATION Spec
CONSTANTS
    Producers = {p1, p2, p3}
    Msgs = {m1, m2}
    NoMsg = NoMsg
    N = 2
    MaxSequence = 5
INVARIANTS
    NoSlotRace
    ClaimsAccountedFor
PROPERTIES
    ImplementsFifo
    SendReturns
