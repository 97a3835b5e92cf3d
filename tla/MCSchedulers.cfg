\* Every clock keeps the promise of Agenda.
SPECIFICATION FairSpec

CONSTANTS
    KINDS = {"manual", "wall", "sim", "mux", "simpy"}
    TIMERS = 3
    DELAYS <- MCDelays
    SPANS <- MCSpans
    HORIZON = 2
    SETTLE = 2
    MAX_STEPS = 2

\* A simpy clock at the horizon with no callback left has nothing to do.
CHECK_DEADLOCK FALSE

INVARIANTS
    NothingOverdue
    TiesInOrder

PROPERTIES
    SpanIsServed
    KeepsThePromise
    NoTimerLost
