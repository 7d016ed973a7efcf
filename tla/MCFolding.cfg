SPECIFICATION FairSpec
CONSTANTS
    LineLimit = 12
    FirstCol = 5
    MaxTag = 10
    MaxField = 5
    MaxFields = 3
    TagLists <- SmallTagLists
    SigLengths = {1, 25}
INVARIANTS
    TypeOK
    ColumnIsTrue
    LineBound
    NoBlankLine
    SignedTextUnchanged
    WholeText
PROPERTIES
    Terminates
CHECK_DEADLOCK FALSE
