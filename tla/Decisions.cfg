\* every marker; every worktree, but for the released ones those with one
\* fact amiss; every ask of sites that differ from a plain
\* one in one respect; seven directories and three names of two or three files
CONSTANTS
    MaxOwn = 1
    MaxNested = 1
    MaxBytes = 9
    MaxFaults = 1
    Paths <- Tree
    MarkersIn <- Marked
    FileNames <- ThreeNames
    Disks <- Scanned
    Requests <- Wanted
    Observed <- NearPlain
    Directories = {1, 2}
    TierAt <- Tiers
    Invocations <- Given
    MaxChanges = 2
    Sightings <- PlacesSeen
SPECIFICATION MCSpec
INVARIANTS DeletionNeedsAll UnprovenLockProtects
    ClearedIsSafe DeletedAsShown ExitTells
    ReclaimableIsFreed OverlapsCountedOnce CandidatesLieApart
    AreasHold
PROPERTY NestedNeverReleases
CHECK_DEADLOCK FALSE
