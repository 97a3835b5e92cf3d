\* What eventually happens, with every rule that can delay it switched on.
SPECIFICATION FairSeededSpec

CONSTANTS
    MOD = 32
    MSS = 2
    RCV_WND = 1
    NAGLE = TRUE
    DELAYED_ACK = TRUE
    SWS_AVOIDANCE = TRUE
    KEEPALIVE = FALSE
    KEEPALIVE_COUNT = 2
    MAX_RETRANSMITS = 2
    EOF = EOF
    ISS <- MCIss
    PORT_KNOWN <- MCPort
    SEND_LIMIT <- MCSend
    OPENERS = {}
    LISTENERS = {}
    CLOSERS = {"A", "B"}
    BUDGET <- MCBudget
    PATIENT = TRUE

\* Both sides may end up closed, with nothing left to do.
CHECK_DEADLOCK FALSE

PROPERTIES
    NoLivePeerIsDropped
    EverythingIsDelivered
    CloseCompletes
