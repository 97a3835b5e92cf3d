\* A close over the default wire: EofIsSignalledOnce.
SPECIFICATION Spec

CONSTANTS
    MOD = 32
    MSS = 2
    RCV_WND = 2
    NAGLE = FALSE
    DELAYED_ACK = FALSE
    SWS_AVOIDANCE = TRUE
    KEEPALIVE = FALSE
    KEEPALIVE_COUNT = 1
    MAX_RETRANSMITS = 2
    EOF = EOF
    ISS <- MCIss
    STACK_LIMIT = 20

CHECK_DEADLOCK FALSE

INVARIANTS
    EofIsSignalledOnce
