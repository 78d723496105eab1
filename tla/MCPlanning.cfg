\* MCPlanning
SPECIFICATION Spec
INVARIANTS
    FabricIsSoundAndCovered
    PlacedWhereItShows
    TrafficIsAdmissible
