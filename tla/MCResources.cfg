\* Directories of the shape the Sandbox ships, and every registry of any two
\* entries over two ids: duplicates, cycles, missing ids, types without a
\* factory, materials with no usable texture.
CONSTANTS
  mesh = mesh
  mat = mat
  tex = tex
  bin = bin
  app = app
  Ids = {mesh, mat, tex, bin, app}
  AppIds = {app}
  Unloadable = {tex, mesh}
  Disks <- AllDisks
  MaxDepth = 4
SPECIFICATION FairSpec
INVARIANTS
  TypeOK
  LoadedMeansPresent
  LoadedClosed
  FactoryDependenciesReady
PROPERTIES
  WellFormedLoads
  NeverRebuilt
  ReturnMeansLoaded
  LoadReturns
  ImplementsStore
