CONSTANTS
  ConditionCodes = {"c", "t", "f"}
  MaxConditions = 4
  MaxNots = 1
SPECIFICATION FairSpec
INVARIANTS
  JumpsResolved
  ForwardEdges
  CountsAdditive
  IInv
  PathIndexRoundTrip
  PathCountExact
  MultipathExact
  InferredValuesSound
  StaticOutcomesSound
  MaskingPairsIndependent
  UniqueCausePairsIndependent
  EvaluationsTotallyOrdered
  BranchCoverageImpliesMCDC
  PrototypeAgrees
PROPERTY EnumerationEnds
CHECK_DEADLOCK FALSE
