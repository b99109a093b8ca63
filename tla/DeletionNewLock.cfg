\* a profile that is built for the first time while the tree is removed
CONSTANTS
    Cleaners = {c1}
    Profiles = {debug, release}
    Built = {debug}
    Owner = Owner
    NoOne = NoOne
    Mandate = "anything"
    MaxTrees = 1
    MaxLocks = 2
    MaxObjects = 1
SPECIFICATION Spec
PROPERTY LocksHeldWhileRemoved
CHECK_DEADLOCK FALSE
