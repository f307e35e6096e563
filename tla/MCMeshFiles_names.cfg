CONSTANTS
  Inputs <- Directory
  Byte = 2
SPECIFICATION Spec
INVARIANT EveryMeshExported
