CONSTANTS
    MaxLog = 3
    MaxText = 3
    MaxPolls = 3
SPECIFICATION FairSpec
CHECK_DEADLOCK FALSE
INVARIANTS
    NothingLost
PROPERTIES
    StreamsEnd
