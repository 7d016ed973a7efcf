SPECIFICATION Spec
CONSTANTS
    Labels <- MCLabels
    LowerOf <- MCLowerOf
INVARIANTS
    DecodesToLabel
    DeltaBounded
CHECK_DEADLOCK FALSE
