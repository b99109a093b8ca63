\* two commands and two watchers, with one failed run and one death
CONSTANTS
    Commands = {c1, c2}
    Watchers = {w1, w2}
    NoOne = NoOne
    MaxRequests = 2
    MaxFailedRuns = 1
    MaxDeaths = 1
SPECIFICATION FairSpec
INVARIANTS OneSweep NobodyForgets
PROPERTIES ImplementsService EveryRequestAnswered StrandedRescued
CHECK_DEADLOCK FALSE
