\* Every request with every way its calls may end, two retries.
SPECIFICATION Spec
CONSTANTS
    Utf8 <- MCUtf8
    Absent = Absent
    Garbled = Garbled
    Bad = Bad
    Crash = Crash
    Unit = 6
    LabelIds <- MCLabelIds
    ClassIds <- MCClassIds
    MaxRetries = 2
    Requests <- MCRequests
    Replies <- MCReplies
INVARIANTS
    UnreachableIs502
    NoReplyIsLost
    TensorsAsSent
    DetectionsStayWithTheirPage
    TextsKeepTheirPlace
CHECK_DEADLOCK FALSE
