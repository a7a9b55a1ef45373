CONSTANTS
  p1 = p1
  p2 = p2
  user = user
  keeper = keeper
  old = old
  new = new
  app = app
  lib = lib
  plain = plain
  layer = layer
  v1 = v1
  v2 = v2
  v3 = v3
  Absent = Absent
  Proc = {p1, p2, user, keeper}
  Builder = {p1, p2}
  Watcher = {p1, p2}
  Installer = {user}
  Faulty = {keeper, user}
  Manifest <- MCManifest
  Blob <- MCBlob
  Diff <- MCDiff
  Ref <- MCRef
  DiffOf <- MCDiffOf
  LayersOf <- MCLayersOf
  DepsOf <- MCDepsOf
  RefOf <- MCRefOf
  Tree <- MCTree
  Wanted <- MCWanted
  AsksFor <- MCAsksFor
  Serves <- MCServes
  BlobOf <- MCBlobOf
  Casts <- MCCasts
SPECIFICATION InstallSpec
INVARIANTS InstallTypeOK BuiltVersionHasRef DependencyRefsFirst
PROPERTIES EveryBuildEnds PublishedBecomesWhole EveryInstallEnds
