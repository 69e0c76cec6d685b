\* Three threads call in any order on one transaction; the coordinator may crash.
CONSTANTS
    p1 = p1
    p2 = p2
    p3 = p3
    Threads = {th1, th2, th3}
    Pids <- ThreePids
    Participants <- TwoPartitions
    PidLists <- SomeLists
    MaxTx = 1
    MaxCrashes = 1
    Disciplined = FALSE
SPECIFICATION Spec
SYMMETRY ThreadSymmetry
INVARIANTS CommitRequiresVotes CommittedMeansTold OneCommitter
PROPERTIES LogComesFirst
CHECK_DEADLOCK FALSE
