CONSTANTS
    s1 = s1  s2 = s2  t1 = t1  t2 = t2  T2 = T2
    c1 = c1  c2 = c2  w1 = w1  w2 = w2  d1 = d1 
    Sessions = {s1, s2}
    Targets = {t1, t2}
    Canon <- MCCanon
    NoRow = NoRow
    Clients = {c1, c2}
    Daemons = {d1}
    ClientOps = {"attach", "reattach", "recover"}
    Inventoried = {t2}
    Wakes = {w1, w2}
    InitRegs <- MCCleanRegs
    MaxFaults = 1
    NoProc = NoProc
    NoID = NoID
    NoWake = NoWake
SPECIFICATION Spec
SYMMETRY MCCleanSymmetry
INVARIANTS
    TypeOK
    TargetHasOneOwner
    ReservationHeld
    SnapshotStable
    ActiveWasReady
    WakeNeverOrphaned
    WakeKeepsItsRow
PROPERTIES
    ImplementsSessionRegistry
