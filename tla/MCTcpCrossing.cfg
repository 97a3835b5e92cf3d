\* Opens that cross, and the connection they make.
SPECIFICATION Spec

CONSTANTS
    MOD = 32
    MSS = 2
    RCV_WND = 2
    NAGLE = FALSE
    DELAYED_ACK = FALSE
    SWS_AVOIDANCE = FALSE
    KEEPALIVE = FALSE
    KEEPALIVE_COUNT = 1
    MAX_RETRANSMITS = 2
    EOF = EOF
    ISS <- MCIss
    PORT_KNOWN <- MCPort
    SEND_LIMIT <- MCSend
    OPENERS = {"A", "B"}
    LISTENERS = {"B"}
    CLOSERS = {"A", "B"}
    BUDGET <- MCBudget
    PATIENT = FALSE

\* Both sides may end up closed, with nothing left to do.
CHECK_DEADLOCK FALSE

INVARIANTS
    StateMatchesFins
    RetxCoversOutstanding

PROPERTIES
    LegalTransitions
