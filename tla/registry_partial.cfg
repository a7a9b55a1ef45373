CONSTANTS
  c1 = c1
  c2 = c2
  h1 = h1
  h2 = h2
  app = app
  lib = lib
  app1 = app1
  lib1 = lib1
  mine = mine
  fixed = fixed
  theirs = theirs
  libm = libm
  l1 = l1
  None = None
  Client = {c1, c2}
  Handler = {h1, h2}
  Package = {app, lib}
  Version = {app1, lib1}
  Manifest = {mine, fixed, theirs, libm}
  Layer = {l1}
  PkgOf <- MCPkgOf
  LayersOf <- MCLayersOf
  DepsOf <- MCDepsOf
  Private <- MCPrivate
  Built <- MCBuilt
  DbFaults = FALSE
  MaxSessions = 3
SPECIFICATION RegistrySpec
INVARIANTS EntirelyPublished
CHECK_DEADLOCK FALSE
