\* Every comparison of two operands, under every two connectives.
CONSTANTS
    Fields = {a, b}
    Numbers = {1, 2}
    MaxConnectives = 2
SPECIFICATION Spec
INVARIANTS
    FindKeepsTheTrue
    RemoveTakesTheTrue
SYMMETRY Symmetry
CHECK_DEADLOCK FALSE
