\* Two requests; two elections, missed heartbeats or crashes.
CONSTANTS
    n1 = n1
    n2 = n2
    Nodes <- TwoNodes
    Requests = {r1, r2}
    GraphNames <- Named
    Queries <- AskedNamed
    DefaultGraph <- TheDefault
    MemberAddr <- SomeMembers
    PeerAddrs <- SomePeers
    Nobody = Nobody
    MaxFaults = 2
SPECIFICATION FairSpec
INVARIANTS AtMostOnce AnswerTells ReadsFollowLog
PROPERTIES EventuallyAnswered
CHECK_DEADLOCK FALSE
