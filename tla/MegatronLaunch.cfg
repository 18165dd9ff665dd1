SPECIFICATION FairSpec
CONSTANTS
    j1 = j1  j2 = j2  a = a  b = b  e = e  f = f  s0 = s0  s1 = s1  s2 = s2
    Job <- Jobs
    Nodes = 2
    Identity = {a, b}
    Endpoint = {e, f}
    Session = {s0, s1, s2}
    NoIdentity = NoIdentity
    Absent = Absent
    None = None
    Deployments <- AllDeployments
CHECK_DEADLOCK FALSE
INVARIANTS
    TypeOK
    OneContract
    CandidateWasTrained
    NoStandstill
PROPERTIES
    ImplementsBarrier
    NodesReturn
