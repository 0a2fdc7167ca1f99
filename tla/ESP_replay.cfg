SPECIFICATION Spec
CONSTANTS
    WindowSize = 3
    Modulus = 9
INVARIANTS
    AtMostOnce
PROPERTIES
    ImplementsAntiReplay
CHECK_DEADLOCK FALSE
