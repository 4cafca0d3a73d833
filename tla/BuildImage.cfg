CONSTANTS
  lib = lib
  addon = addon
  all = all
  v1 = v1
  v2 = v2
  None = None
  Half = Half
  Partial = Partial
  Packages <- MCPackages
  Items <- MCItems
  Deps <- MCDeps
  Versions <- MCVersions
  NoSources <- MCNoSources
  Virtual <- MCVirtual
  Shadowed <- MCShadowed
  Tools <- MCHostTools
  Roots <- MCRoots
  MaxTroubles = 2
SPECIFICATION Spec
SYMMETRY Symmetric
INVARIANTS TypeOK StampsTruthful ImageCurrent DepsCurrent CompiledOnce
