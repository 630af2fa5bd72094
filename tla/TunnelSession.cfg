\* One CLI process, two sockets reused for ever, two requests, and a failure
\* placed anywhere: safety of the whole session, and what must eventually
\* happen once the failure is over.
CONSTANTS
    Tunnel = tunnel
    Clis = {p1}
    Sockets = {s1, s2}
    Requests = {r1, r2}
    Handshake = handshake
    NoSocket = NoSocket
    MaxFailures = 1
    BackoffCap = 1
SPECIFICATION FairSpec
INVARIANTS
    FramesAccepted
    OutcomeTellsWhatRan
    SilentUntilHeard
PROPERTIES
    SettledForGood
    ImplementsRegistry
    EveryRequestSettles
    TunnelStaysAlive
CHECK_DEADLOCK FALSE
