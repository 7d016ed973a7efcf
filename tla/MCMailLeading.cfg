SPECIFICATION MailSpec
CONSTANTS
    Absent = Absent
    Empty = Empty
    Junk = Junk
    MinRSABits = 1024
    Ed25519Bits = 256
    MaxTimestamp = 9
    MaxTime = 2
    MaxHops = 2
    SemicolonNames = {"x;y"}
    ALabelOf <- MCALabelOf
    DNSLabels <- MCLabels
    RecordNames <- MCRecordNames
    Zones <- MCZones
    Drafts <- MCLeadingDrafts
    OptionSets <- MCOptionSets
    TraceFields <- MCTraceFields
    FieldNames <- MCFieldNames
INVARIANTS
    IntactVerifies
CHECK_DEADLOCK FALSE
