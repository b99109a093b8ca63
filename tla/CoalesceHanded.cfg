\* what the hand-over message promises, with one run that fails and no crash
CONSTANTS
    Commands = {c1, c2}
    Watchers = {}
    NoOne = NoOne
    MaxRequests = 2
    MaxFailedRuns = 1
    MaxDeaths = 0
SPECIFICATION FairSpec
PROPERTY HandedRunsOnceMore
CHECK_DEADLOCK FALSE
