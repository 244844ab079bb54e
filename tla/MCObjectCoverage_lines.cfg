CONSTANTS
  MaxPC = 6
  BranchEnds <- MCBranchEnds
  Insns <- MCInsns
  Ops <- MCOps
  BranchLevel = TRUE
SPECIFICATION ObjSpec
INVARIANTS
  EntriesDisjoint
  IInv
  EntriesWholeInsns
  LineStateExact
PROPERTIES
  RefinesExecutedCode
CHECK_DEADLOCK FALSE
