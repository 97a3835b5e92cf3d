\* The two bodies, the lock and the simulator.
SPECIFICATION Spec

CONSTANTS
    TESTS = {"engines", "transport", "raw"}
    EMITS = 3
    IMAGES = 3
    PHASES = 2
    TIMEOUT = 2
    QUANTUM = 2
    RAISES = 1
    DROPS = 1

INVARIANTS
    OneActivation
    NoLostWakeup
    InStep
    VerdictIsRight

PROPERTY EveryTestReports
