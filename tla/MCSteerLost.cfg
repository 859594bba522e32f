CONSTANTS
    MaxInputs = 3
    MaxPending = 2
    Oversized = {}
SPECIFICATION Spec
INVARIANT SteerNeverDisappears
CHECK_DEADLOCK FALSE
