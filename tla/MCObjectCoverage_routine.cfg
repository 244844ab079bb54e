CONSTANTS
  MaxPC = 6
  BranchEnds <- MCBranchEnds
  Insns <- MCInsns
  Ops <- MCOps
  BranchLevel = FALSE
SPECIFICATION ObjSpec
INVARIANT RoutineCoveredFully
CHECK_DEADLOCK FALSE
