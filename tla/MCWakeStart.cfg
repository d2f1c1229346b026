SPECIFICATION FairSpec
INVARIANTS
    TypeOK
PROPERTIES
    NoMarkerLeft
    ImplementsWakeOutcome
    Returns
