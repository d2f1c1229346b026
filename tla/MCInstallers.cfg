CONSTANTS
    Installers = {i1, i2}
    Timeouts = {1, 2}
    Edits <- MCEdits
    InitFiles <- MCInitFiles
    NoFile = NoFile
    Broken = Broken
    None = None
    MaxRuns = 2
    MaxClock = 1
    Operators = {o1, o2}
    Labels <- MCLabels
    Paths = {P1, P2}
    Settings = {S1, S2}
    Written <- MCWritten
    NoPlist = NoPlist
    Foreign = Foreign
    Unloaded = Unloaded
    MaxCommands = 2
SYMMETRY MCSymmetry
SPECIFICATION Spec
INVARIANTS TypeOK ReportedInstalled AgentAsReported
PROPERTIES EditsRecoverable ForeignPlistKept
CHECK_DEADLOCK FALSE
