\* two cleaners, and a second tree that may take the place of the first
CONSTANTS
    Cleaners = {c1, c2}
    Profiles = {debug}
    Built = {debug}
    Owner = Owner
    NoOne = NoOne
    Mandate = "anything"
    MaxTrees = 2
    MaxLocks = 2
    MaxObjects = 1
SPECIFICATION Spec
SYMMETRY Symmetry
PROPERTIES OnlyRecordedTree DeletedIsGone
CHECK_DEADLOCK FALSE
