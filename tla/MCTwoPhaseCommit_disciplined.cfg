\* Two threads, two transactions, callers in the documented order.
CONSTANTS
    p1 = p1
    p2 = p2
    p3 = p3
    Threads = {th1, th2}
    Pids <- ThreePids
    Participants <- TwoPartitions
    PidLists <- SomeLists
    MaxTx = 2
    MaxCrashes = 0
    Disciplined = TRUE
SPECIFICATION Spec
SYMMETRY ThreadSymmetry
INVARIANTS AtomicIfDisciplined
PROPERTIES ImplementsAtomicCommit
CHECK_DEADLOCK FALSE
