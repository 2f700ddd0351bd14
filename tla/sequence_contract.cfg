SPECIFICATION Spec
CONSTANTS
    ByteBits = 2
    Bytes = 2
    Distance = 9
    Numbers <- MCNumbers
CHECK_DEADLOCK FALSE
INVARIANT BisectionIsExact
PROPERTIES ImplementsSets
