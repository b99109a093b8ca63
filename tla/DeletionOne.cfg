\* two builders, one of them not built yet, an owner and one cleaner on one tree
CONSTANTS
    Cleaners = {c1}
    Profiles = {debug, release}
    Built = {debug}
    Owner = Owner
    NoOne = NoOne
    Mandate = "anything"
    MaxTrees = 1
    MaxLocks = 1
    MaxObjects = 1
SPECIFICATION FairSpec
INVARIANTS NobodyWorksUnderRemoval KeptIsNotDeleted
PROPERTIES LocksGoLast EveryCandidateSettled
CHECK_DEADLOCK FALSE
