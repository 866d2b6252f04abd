SPECIFICATION Spec
CONSTANTS
  Stacks <- MCStacks
  Surveyed <- MCSurveyed
  Policies <- MCPolicies
  Documents <- MCDocuments
  ShortNames = {a, b}
  EnvNames <- MCEnvNames
  MaxNumber = 1
  Days = {1}
  MaxCommands = 3
  MaxEdits = 1
SYMMETRY MCSymmetry
INVARIANTS
  TypeOK
  SelectionIsKept
  StackResolves
PROPERTIES
  TextIsKept
  OneFeaturePerNumber
CHECK_DEADLOCK FALSE
