SPECIFICATION RecordSpec
CONSTANTS
    Alpha = {"b", "v", "B"}
    AlnumPunc = {"7"}
    Unprintable = {"NUL"}
    OtherSpace = {"VT"}
    MaxLen = 3
    Sextet <- MCSextet
    Texts <- MCTexts
    Records <- MCRecords
INVARIANTS
    ChunksCarryTheRecord
    AcceptsTheGrammar
    SignatureIsWhatIsBlanked
    ReadersAgree
    PaddingAndFoldsIgnored
CHECK_DEADLOCK FALSE
