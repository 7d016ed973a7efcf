SPECIFICATION CanonSpec
CONSTANTS
    NameChars = {"a", "A", "v"}
    Absent = Absent
    MaxEdits = 2
    LowerOf <- MCLowerOf
    Messages <- MCMessages
INVARIANTS
    NoLineEmpty
    FieldsAreWhole
    HeadersUnchanged
    BodyUnchanged
    SignedPrefixKept
    LinewiseAgrees
CHECK_DEADLOCK FALSE
