CONSTANTS
  a1 = a1
  a2 = a2
  b1 = b1
  b2 = b2
  c1 = c1
  c2 = c2
  c3 = c3
  None = None
  Name <- Names
  Version <- Versions
  Manifest <- Manifests
  Own <- Owns
  Demand <- DemandSet
  Graphs <- GraphSet
  Short <- Shorts
  Tomls <- TomlSet
  TomlsFirst <- FirstTomls
  Installs <- InstallSet
  BuiltFirst <- InStore
  PublishedFirst <- InRegistry
  BuiltLater <- Builds
  PublishedLater <- Publishes
  MaxCommands = 3
SPECIFICATION Spec
INVARIANTS
  ProjectTypeOK
  Resolved
  DependenciesFirst
  OneBuildPerPackage
  LockReproduces
  UpdateKeepsOthers
PROPERTIES
  LockWritten
  EveryCommandEnds
CHECK_DEADLOCK FALSE
