\* Clients name the default graph, or leave the name empty.
CONSTANTS
    n1 = n1
    n2 = n2
    Nodes <- TwoNodes
    Requests = {r1, r2}
    GraphNames <- Unnamed
    Queries <- AskedUnnamed
    DefaultGraph <- TheDefault
    MemberAddr <- SomeMembers
    PeerAddrs <- SomePeers
    Nobody = Nobody
    MaxFaults = 2
SPECIFICATION Spec
INVARIANTS ReadsFollowLog
CHECK_DEADLOCK FALSE
