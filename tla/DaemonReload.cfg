SPECIFICATION FairSpec
CONSTANTS
  a = a
  b = b
  t = t
  Paths = {a, b}
  Temporary = {}
  NeedsAge = {b}
  Matches <- MCMatches
  Ignores <- MCIgnores
  Changing = {a}
  MaxVersion = 1
  Handlers = {}
  Reloader = Reloader
  Main = Main
  NoOne = NoOne
  MaxReloads = 1
INVARIANTS OnlyMisrecordedRepeatsUntilReload AtMostOneStaleRecord
PROPERTIES EveryFileAttended
CHECK_DEADLOCK FALSE
