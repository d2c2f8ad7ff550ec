\* Every value in every wrapping.
SPECIFICATION ReplySpec
CONSTANTS
    Failed = Failed
    Error = Failed
    Json <- MCJson
    Texts <- MCTexts
INVARIANTS
    WrappedValueIsRead
    BrokenListGivesItsHead
CHECK_DEADLOCK FALSE
