CONSTANTS
  Coverages <- MCCoverages
  Levels = {"stmt", "stmt+decision", "stmt+mcdc", "stmt+uc_mcdc"}
  Expectations <- MCExpectations
  LineExpectations <- MCLineExpectations
  Listings <- MCListings
  Categories = {"stmt", "mcdc", "none"}
  Formats = {"report", "xcov"}
SPECIFICATION Spec
INVARIANT FuzzyBlocksTolerant
CHECK_DEADLOCK FALSE
