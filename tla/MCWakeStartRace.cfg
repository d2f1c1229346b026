SPECIFICATION Spec
INVARIANTS
    ReadinessWins
