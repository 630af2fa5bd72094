\* Two canvases, opened from the gallery or in place, one failure.
CONSTANTS
    Canvases = {c1, c2}
    Undo = FALSE
    Blank = Blank
    None = None
    MaxStrokes = 2
    MaxInFlight = 2
    MaxFailures = 1
SPECIFICATION FairSpec
INVARIANTS
    
    IdleMeansSynced
PROPERTIES
    ReopenShowsServer
    
    DrawingsReachServer
CHECK_DEADLOCK FALSE
