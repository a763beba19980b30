SPECIFICATION Spec
CONSTANTS
    Hook = "hook"
    Direct = "direct"
    Horizon = 1
    MaxMishaps = 1
CHECK_DEADLOCK FALSE
PROPERTIES
    ReversedIsNotReleased
