CONSTANTS
    Step = 500
    Timeouts = {1, 2, 3, 4}
    StdinTimeouts = {1, 3}
    WakeTimeouts = {0, 500, 1500, 4000}
SPECIFICATION FairSpec
INVARIANTS
    TypeOK
    OkMeansVerified
    EndsInTime
    ReadinessWaitFits
    KilledMeansTimedOut
PROPERTIES
    Answers
