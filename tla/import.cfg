CONSTANTS
  p1 = p1
  p2 = p2
  app = app
  lib = lib
  gone = gone
  Torn = Torn
  None = None
  Ecosystem = {"apt", "npm", "pip"}
  Importing = {p1, p2}
  Faulty = {p1}
  Package = {app, lib, gone}
  Name = {app, lib, gone}
  Tag <- MCTag
  EluName <- MCEluName
  Numeric <- MCNumeric
  Releases <- MCReleases
  DependsOn <- MCDependsOn
  Commands <- MCCommands
  Day = {1, 2}
  MaxCommands = 2
SPECIFICATION ImportSpec
INVARIANTS ImportTypeOK ClosureExact ImportedIsPublished
PROPERTIES EveryImportEnds
CHECK_DEADLOCK FALSE
