SPECIFICATION Spec
CONSTANTS
  Versions = {"a1", "a2", "b1"}
  UnitOf <- MCUnitOf
  SCOsOf <- MCSCOsOf
  NodesOf <- MCNodesOf
  InstancesOf <- MCInstancesOf
  Annotated = {}
  Providers = {"default", "instance"}
  MaxCovered = 1
  MaxOwn = 2
  MaxInputs = 2
  MaxSaved = 2
INVARIANT UnitsKeepShape
PROPERTY RefinesMergedCoverage
