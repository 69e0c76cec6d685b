\* Two threads, two nodes, one index name that may be redefined.
CONSTANTS
    L1 = L1
    L2 = L2
    p = p
    q = q
    v1 = v1
    Threads = {th1, th2}
    NodeIds = {n1, n2}
    IndexNames = {ix}
    Labels = {L1, L2}
    Props = {p, q}
    Values = {v1, Null}
    Null = Null
    Missing = Missing
    None = None
    NewNodes <- CreatedNodes
    Definitions <- CreatedIndexes
    MaxDdl = 2
    MaxDml = 2
SPECIFICATION Spec
SYMMETRY Symmetry
INVARIANTS EntriesSound UniqueAlone IndexScanAgrees
CHECK_DEADLOCK FALSE
