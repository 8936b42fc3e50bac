SPECIFICATION Spec
CONSTANTS
    MaxRestarts = 1
    Duplicating = FALSE
INVARIANT Agreement
