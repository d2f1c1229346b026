CONSTANTS
    w1 = w1  w2 = w2  A = A  B = B  C = C
    Surfaces = {A, B, C}
    TTYs = {"tty1", "tty2"}
    Device <- MCDevice
    NoTTY = NoTTY
    Adapters = {"cmux", "ghostty"}
    Wakes = {w1, w2}
    Serves <- MCServes
    MaxAttempts = 2
    MaxListed = 3
SPECIFICATION Spec
INVARIANTS
    TypeOK
    LinesUnmixed
    DeliveredWhole
