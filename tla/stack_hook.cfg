CONSTANTS
  p1 = p1
  p2 = p2
  Proc = {p1, p2}
  Faulty = {}
  Scenario <- MCHooks
  LayerOf <- MCLayerOf
  Hides <- MCHides
  OpaqueName = 10
SPECIFICATION StackSpec
CHECK_DEADLOCK FALSE
INVARIANTS RootHookRuns
