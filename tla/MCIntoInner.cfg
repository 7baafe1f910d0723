SPECIFICATION RaceSpec
CHECK_DEADLOCK FALSE
CONSTANTS
    Handles = {1, 2, 3}
INVARIANTS
    IntoInnerSucceeds
