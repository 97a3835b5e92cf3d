\* Keepalive keeps a live connection and finds a dead one.
SPECIFICATION FairSeededSpec

CONSTANTS
    MOD = 32
    MSS = 2
    RCV_WND = 2
    NAGLE = TRUE
    DELAYED_ACK = TRUE
    SWS_AVOIDANCE = TRUE
    KEEPALIVE = TRUE
    KEEPALIVE_COUNT = 2
    MAX_RETRANSMITS = 2
    EOF = EOF
    ISS <- MCIss
    PORT_KNOWN <- MCPort
    SEND_LIMIT <- MCSend
    OPENERS = {}
    LISTENERS = {}
    CLOSERS = {}
    BUDGET <- MCBudget
    PATIENT = TRUE

\* Both sides may end up closed, with nothing left to do.
CHECK_DEADLOCK FALSE

PROPERTIES
    NoLivePeerIsDropped
    HalfOpenIsFound
