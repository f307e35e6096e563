\* Two files, one after the other; after them only getters are left.
CONSTANTS
  Contents <- Small
  Ints = {"1"}
  Floats = {"1", ".5"}
  Keys <- Asked
  MaxLoads = 2
SPECIFICATION Spec
INVARIANTS
  AnswersFromFiles
  NothingLostSilently
