\* One direction of an established connection, against its abstract stream.
SPECIFICATION SeededSpec

CONSTANTS
    MOD = 32
    MSS = 2
    RCV_WND = 2
    NAGLE = FALSE
    DELAYED_ACK = FALSE
    SWS_AVOIDANCE = TRUE
    KEEPALIVE = FALSE
    KEEPALIVE_COUNT = 1
    MAX_RETRANSMITS = 2
    EOF = EOF
    ISS <- MCIss
    PORT_KNOWN <- MCPort
    SEND_LIMIT <- MCSend
    OPENERS = {}
    LISTENERS = {}
    CLOSERS = {"A"}
    BUDGET <- MCBudget
    PATIENT = FALSE

\* The transfer ends: everything sent, closed and acknowledged.
CHECK_DEADLOCK FALSE

INVARIANTS
    TypeOK
    FinAckedMeansAllDelivered
    RetxCoversOutstanding
    WorkIsTimed
    KarnTiming
    RightEdgeHolds
    WindowWasGranted
    ReceiveBufferBounded

PROPERTIES
    AToBIsAStream
