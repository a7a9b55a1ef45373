CONSTANTS
  p1 = p1
  p2 = p2
  keeper = keeper
  old = old
  new = new
  plain = plain
  layer = layer
  v1 = v1
  Absent = Absent
  Proc = {p1, keeper}
  Builder = {p1}
  Watcher = {}
  Faulty = {}
  Manifest <- MCManifest
  Blob <- MCBlob
  Diff <- MCDiff
  Ref <- MCRef
  DiffOf <- MCDiffOf
  LayersOf <- MCLayersOf
  DepsOf <- MCDepsOf
  RefOf <- MCRefOf
  Tree <- MCTree
SPECIFICATION BuildSpec
PROPERTY PublishedWhole
