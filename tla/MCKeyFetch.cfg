SPECIFICATION FairSpec
CONSTANTS
    Absent = Absent
    Empty = Empty
    Junk = Junk
    MinRSABits = 1024
    Ed25519Bits = 256
    MaxRecords = 3
    KeyTypes = {"rsa", "ed25519"}
    HashAlgs = {"sha256", "sha1"}
    Answers <- MCAnswers
    Records <- MCRecords
INVARIANTS
    TypeOK
    KeyAndFlagsOfFirstUsable
    UnusableRecordsInvisible
PROPERTIES
    ImplementsLookup
    AnsweredReturns
CHECK_DEADLOCK FALSE
