\* Four states and a history of four: the cap is reached, states recur.
CONSTANTS
    Shows = {a, b, c, d}
    None = None
    Cap = 4
SPECIFICATION Spec
PROPERTIES
    ImplementsUndoRedo
    SavesWhatWasShown
