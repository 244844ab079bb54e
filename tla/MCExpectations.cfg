CONSTANTS
  Specs <- MCSpecs
  Levels <- MCLevels
  Controls <- MCControls
  Sources <- MCSources
SPECIFICATION Spec
INVARIANTS
  NotesAsStated
  RejectedOnlyIfWrong
CHECK_DEADLOCK FALSE
