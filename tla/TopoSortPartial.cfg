CONSTANTS
    n1 = n1
    n2 = n2
    n3 = n3
    Names <- MCNames
SPECIFICATION Spec
INVARIANTS
    NoPartialEmission
CHECK_DEADLOCK FALSE
