SPECIFICATION Spec
CONSTANTS
    Tests <- MCTests
    Group <- MCGroup
    Subtree <- MCSubtree
    Lang <- MCLang
    OptFiles <- MCOptFiles
    Altruns <- MCAltruns
    Commands <- MCCommands
    MaxRuns = 2
INVARIANTS
    VerdictOfThisRun
    StrDataTogether
PROPERTY EveryTestConcluded
CHECK_DEADLOCK FALSE
