\* Both transactions write the key; the second began between timestamp and batch.
CONSTANTS
    Tx = {t1, t2}
    Keys = {k1}
    Values = {v1}
    Tombstone = Tombstone
    Nothing = Nothing
    NoTx = NoTx
    GC_THRESHOLD = 5
    PersistEvery = 100
    MaxFailures = 0
    MaxRestarts = 0
SPECIFICATION Spec
INVARIANTS NoLostUpdate
CHECK_DEADLOCK FALSE
