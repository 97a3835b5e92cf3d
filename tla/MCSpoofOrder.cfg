\* SpoofClock and timers due together: RegistrationOrder.
SPECIFICATION Spec

CONSTANTS
    KINDS = {"sim"}
    TIMERS = 3
    DELAYS <- MCDelays
    SPANS <- MCSpans
    HORIZON = 2
    SETTLE = 2
    MAX_STEPS = 2

CHECK_DEADLOCK FALSE

INVARIANT RegistrationOrder
