\* Two threads, two nodes, one edge that may be a self-loop.
CONSTANTS
    Threads = {th1, th2}
    NodeIds = {n1, n2}
    EdgeIds = {e1}
    Labels = {L1}
    EdgeLabels = {knows}
    Absent = Absent
SPECIFICATION Spec
SYMMETRY Symmetry
INVARIANTS TypeOK IndexComplete IndexExact NoOrphanEdges
