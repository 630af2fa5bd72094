\* Two clients and every consistent database of three documents, whatever the
\* rule of each constraint and the order in which they are read.
CONSTANTS
    a1 = a1
    a2 = a2
    b1 = b1
    people = people
    orders = orders
    manager = manager
    owner = owner
    Clients = {c1, c2}
    Nodes = {a1, a2, b1}
    HasId = {a1, a2, b1}
    Refs = {manager, owner}
    CollOf <- MCCollOf
    From <- MCFrom
    To <- MCTo
    None = None
    MaxQueries = 2
SPECIFICATION Writes

    
PROPERTIES
    
    DeleteKeepsTheRest
SYMMETRY Symmetry
CHECK_DEADLOCK FALSE
