\* Two transactions on one key, one restart at any point or one failing batch;
\* the oracle is saved at every second timestamp, and a save may fail or come
\* late. No symmetry, one of the properties is temporal.
CONSTANTS
    Tx = {t1, t2}
    Keys = {k1}
    Values = {v1}
    Tombstone = Tombstone
    Nothing = Nothing
    NoTx = NoTx
    GC_THRESHOLD = 5
    PersistEvery = 2
    MaxFailures = 1
    MaxRestarts = 1
SPECIFICATION FairSpec
CONSTRAINT OneFault
PROPERTIES OnlyInFlightDisturbs LockReleased
CHECK_DEADLOCK FALSE
