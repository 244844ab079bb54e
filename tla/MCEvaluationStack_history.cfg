\* raises handled by the callers of all evaluations, or signalled by a check
CONSTANTS
  Decisions <- MCDecisions
  Successor <- MCSuccessor
  CallGraph <- MCCallGraph
  RaiseEdges <- LaterChecks
  UnknownOutcomes <- TopOutcome
  HandledInside = FALSE
  MaxDepth = 3
  MaxStack = 3
SPECIFICATION Spec
INVARIANTS
  PendingOnTop
  RecordedExact
CHECK_DEADLOCK FALSE
