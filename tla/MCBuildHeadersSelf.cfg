SPECIFICATION Spec
CONSTANTS
    Absent = Absent
    Empty = Empty
    Junk = Junk
    MaxFields = 4
    MaxNames = 4
    SigName = "dkim-signature"
    Names <- MCNames
    Fields <- MCFields
    Blocks <- MCBlocks
    NameLists <- MCNameLists
INVARIANTS
    FieldBeingVerifiedNeverSelected
CHECK_DEADLOCK FALSE
