\* MCEvidence
SPECIFICATION Spec
INVARIANTS
    NothingIsMissed
    NothingIsInvented
