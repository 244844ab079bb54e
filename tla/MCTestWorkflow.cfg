SPECIFICATION Spec
CONSTANTS
    Drivers <- MCDrivers
    Short <- MCShort
    Sources <- MCSources
    Subunits <- MCSubunits
    Closure <- MCClosure
    Interest <- MCInterest
    Options <- MCOptions
    MaxFailures = 2
INVARIANTS
    ReportsFromOwnArtifacts
    PassedMeansAllChecked
    EntriesDumped
PROPERTY ScriptImplemented
CHECK_DEADLOCK FALSE
