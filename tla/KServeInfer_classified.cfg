\* The picture classifier with the inputs its metadata names.
SPECIFICATION Spec
CONSTANTS
    Utf8 <- MCUtf8
    Absent = Absent
    Garbled = Garbled
    Bad = Bad
    Crash = Crash
    Unit = 6
    LabelIds <- MCLabelIds
    ClassIds <- MCClassIds
    MaxRetries = 1
    Requests <- MCRequests
    Replies <- MCReplies
INVARIANTS
    ClassifierAsksTheModel
CHECK_DEADLOCK FALSE
