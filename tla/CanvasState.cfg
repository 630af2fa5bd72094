\* Two requests at a time over two connections of a team, for ever, with one
\* canvas allowed: the same instance, copies of it, connections not yet described.
CONSTANTS
    Requests = {r1, r2}
    Conns = {c1, c2}
    team = team
    TeamOf <- MCTeamOf
    Prints = {p1}
    Checksums = {a, b}
    Ids = {k1, k2, k3, k4, k5}
    None = None
    MaxReports = 1
    MaxCanvases = 1
    HistoryCap = 1
SPECIFICATION Spec
INVARIANTS
    TypeOK
    
    
PROPERTIES
    QuotaHeld
    SavedIsFound
SYMMETRY Symmetry
CHECK_DEADLOCK FALSE
