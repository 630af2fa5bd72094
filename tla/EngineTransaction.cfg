\* Two callers on each of the three adapters; blocks of three items, one
\* document, and an error placed anywhere.
CONSTANTS
    Callers = {c1, c2}
    Ids = {i1}
    Values = {v1}
    Absent = Absent
    Nobody = Nobody
    PoolSize = 1
    MaxItems = 3
    MaxErrors = 1
SPECIFICATION FairSpec
PROPERTIES
    
    EveryCallAnswered
