CONSTANTS
    s1 = s1  s2 = s2  A = A  B = B  C = C  a = a  short = short
    tty1 = tty1  dev1 = dev1  tty2 = tty2  blank = blank
    Sessions = {s1, s2}
    Targets = {A, B, C, a, short}
    Canon <- MCCanon
    NoRow = NoRow
    Wellformed = {A, B, C, a}
    Surfaces = {A, B, C}
    TTYs = {tty1, dev1, tty2, blank}
    Device <- MCDevice
    NoTTY = NoTTY
    InitRegs <- MCInitRegs
    MaxListed = 3
SPECIFICATION Spec
INVARIANTS
    EnsuredAlone
    DetachedAbsent
    AcceptedExactly
