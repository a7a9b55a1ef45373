CONSTANTS
  p1 = p1
  p2 = p2
  app = app
  base = base
  plain = plain
  gzip = gzip
  layer = layer
  v1 = v1
  Absent = Absent
  Proc <- MCProc
  Manifest <- MCManifest
  Blob <- MCBlob
  Diff <- MCDiff
  Ref <- MCRef
  DiffOf <- MCDiffOf
  LayersOf <- MCLayersOf
  DepsOf <- MCDepsOf
SPECIFICATION Spec
SYMMETRY Symmetry
INVARIANTS TypeOK LockMatchesCalls
PROPERTIES FirstWriterWins RootsFrozenDuringGc GcSparesWhole
