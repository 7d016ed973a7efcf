SPECIFICATION Spec
CONSTANTS
    LineLimit = 78
    FirstCol = 16
    MaxTag = 3
    MaxField = 1
    MaxFields = 1
    TagLists <- RealTagLists
    SigLengths = {344}
INVARIANT WithinLineLimit
CHECK_DEADLOCK FALSE
