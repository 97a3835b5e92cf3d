\* The parts that can be checked by themselves, each against what it is for.
SPECIFICATION AlgorithmsSpec

CONSTANTS
    MOD = 16
    MAX_LEN = 3
    MAX_WND = 3
    RTO_INITIAL = 4
    RTO_MIN = 2
    RTO_MAX = 16
    RTT_G = 1
    ROUND_TRIPS <- MCRoundTrips
    MAX_FRAME_BYTES = 25
    MIN_FRAME_BYTES = 20
    MIN_PREAMBLE_LEN = 4
    NUM_PACKETS = 2
    Fcs <- MCFcs
    FRAMES <- MCFrames
    FILLERS <- MCFillers

\* The slide, the streams and the messages come to an end.
CHECK_DEADLOCK FALSE

INVARIANTS
    OrderFollowsDistance
    AcceptableFollowsWindow
    OptionsMean
    BuildThenParse
    RtoIsPrudent
    EveryFrameComesOut
    LastMarksTheEnd
