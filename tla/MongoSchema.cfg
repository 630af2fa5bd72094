\* Two statements one after the other or at the same time, over two documents.
CONSTANTS
    Clients = {c1, c2}
    Cols = {x}
    Docs = {d1, d2}
    Enums = {e, f}
    Members = {m1, m2}
    None = None
    MaxStatements = 2
SPECIFICATION Spec
INVARIANTS
    
    EnumFollowed
PROPERTIES
    DropRestricts
SYMMETRY Symmetry
CHECK_DEADLOCK FALSE
