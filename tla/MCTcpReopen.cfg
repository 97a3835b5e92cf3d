\* An abort behind a closed window: NoDataBeforeEstablished.
SPECIFICATION SeededSpec

CONSTANTS
    MOD = 32
    MSS = 2
    RCV_WND = 1
    NAGLE = FALSE
    DELAYED_ACK = FALSE
    SWS_AVOIDANCE = TRUE
    KEEPALIVE = FALSE
    KEEPALIVE_COUNT = 1
    MAX_RETRANSMITS = 2
    EOF = EOF
    ISS <- MCIss
    PORT_KNOWN <- MCPort
    SEND_LIMIT <- MCSend
    OPENERS = {"A"}
    LISTENERS = {}
    CLOSERS = {}
    BUDGET <- MCBudget
    PATIENT = FALSE

CHECK_DEADLOCK FALSE

INVARIANTS
    NoDataBeforeEstablished
