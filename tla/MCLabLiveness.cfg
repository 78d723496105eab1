\* MCLabLiveness
SPECIFICATION FairSpec
INVARIANTS
    TypeOK
PROPERTIES
    WorkEnds
CHECK_DEADLOCK FALSE
