\* one unit has an exemption, and another one may be loaded before it
SPECIFICATION Spec
CONSTANTS
  Versions = {"a1", "b1"}
  UnitOf <- MCUnitOf
  SCOsOf <- MCSCOsOf
  NodesOf <- MCNodesOf
  InstancesOf <- MCInstancesOf
  Annotated = {"a1"}
  Providers = {"default"}
  MaxCovered = 1
  MaxOwn = 3
  MaxInputs = 2
  MaxSaved = 2
INVARIANT AnnotationsPresent
