\* Two CLI sockets and two browser sockets, reused for ever, over the sessions
\* of two tenants: every order of connect, authenticate, close and restart.
CONSTANTS
    t1 = t1
    t2 = t2
    t3 = t3
    u1 = u1
    u2 = u2
    c1 = c1
    c2 = c2
    Tunnels = {t1, t3}
    Users = {u1, u2}
    Connections = {c1, c2}
    Owner <- MCOwner
    ConnectionOf <- MCConnectionOf
    CliSockets = {s1, s2}
    BrowserSockets = {b1, b2}
    NoSocket = NoSocket
SPECIFICATION Spec
SYMMETRY SocketSymmetry
INVARIANTS
    SlotIffOccupied
    OneLiveCli
    BrowsersStayRouted
    
