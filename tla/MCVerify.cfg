SPECIFICATION Spec
CONSTANTS
    Absent = Absent
    Empty = Empty
    Junk = Junk
    MinRSABits = 1024
    Ed25519Bits = 256
    MaxTimestamp = 9
    MaxTime = 2
    DNSLabels <- MCLabels
    ALabelOf <- MCALabelOf
    RecordNames <- MCRecordNames
    Zones <- MCZones
INVARIANTS
    TypeOK
    NoCrossTalk
    PassMeansVerified
    NonPassHasCause
    QueryOnlyIfVerifiable
PROPERTIES
    ImplementsVerdicts
    Returns
CHECK_DEADLOCK FALSE
