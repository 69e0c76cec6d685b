\* Index 1 is shared by both leaders; two crashes.
CONSTANTS
    MaxIndex = 4
    Memberships <- MembershipIndexes
    Shared = 1
    MaxBatch = 2
    MaxCrashes = 2
SPECIFICATION FairSpec
INVARIANTS AtMostOnceInOrder LogMatching CommittedPresent EveryLossExplained MembershipCurrent SnapshotConsistent
PROPERTY EventuallyApplied
CHECK_DEADLOCK FALSE
