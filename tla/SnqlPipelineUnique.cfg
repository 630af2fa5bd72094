\* The same queries: what `pick unique on' keeps is not what the sort asks.
CONSTANTS
    Fields = {"a", "b"}
    Numbers = {1, 2}
    Tables <- MCTables
    Queries <- MCQueries
    Engines <- MCEngines
    Schemas <- MCSchemas
SPECIFICATION Spec
INVARIANTS
    SortDecidesTheFirst
CHECK_DEADLOCK FALSE
