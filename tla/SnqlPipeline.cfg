\* Every combination of some stages on tables of up to three rows.
CONSTANTS
    Fields = {"a", "b"}
    Numbers = {1, 2}
    Tables <- MCTables
    Queries <- MCQueries
    Engines <- MCEngines
    Schemas <- MCSchemas
SPECIFICATION Spec
INVARIANTS
    AnswersTheQuery
CHECK_DEADLOCK FALSE
