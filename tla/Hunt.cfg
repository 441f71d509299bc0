CONSTANT N = 3
SPECIFICATION FairSpec
INVARIANTS
    TypeOK
    EveryLegOwned
    OneAtATime
PROPERTIES
    CallerGoneEnds
    RingingStops
    MemberGoneEnds
CHECK_DEADLOCK FALSE
