\* Three transactions on one key; committed_writes keeps one entry, so the
\* automatic pruning happens while a third transaction is running.
CONSTANTS
    Tx = {t1, t2, t3}
    Keys = {k1}
    Values = {v1}
    Tombstone = Tombstone
    Nothing = Nothing
    NoTx = NoTx
    GC_THRESHOLD = 1
    PersistEvery = 100
    MaxFailures = 1
    MaxRestarts = 0
SPECIFICATION Spec
SYMMETRY Symmetry
INVARIANTS TypeOK FirstCommitterWins CommitsStayVisible
PROPERTIES OnlyInFlightDisturbs GcPreservesReads SnapshotSettles
CHECK_DEADLOCK FALSE
