\* One operator who cares for the first component only, and two who overlap.
SPECIFICATION FairSpec
CONSTANTS
    k1 = k1
    k2 = k2
    o1 = o1
    o2 = o2
    Component = {k1, k2}
    Stops <- TwoPlans
    Operator = {o1, o2}
    Teams <- AllTeams
    Attended = {k1}
    MaxStarts <- StartsByTeam
    MaxRuns <- RunsByTeam
INVARIANTS
    TypeOK
    ExecutedOnce
    ContainmentIsEarned
PROPERTIES
    ImplementsLifecycle
    AttendedFinish
