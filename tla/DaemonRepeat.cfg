SPECIFICATION Spec
CONSTANTS
  a = a
  b = b
  t = t
  Paths = {a}
  Temporary = {}
  NeedsAge = {}
  Matches <- MCMatches
  Ignores <- MCIgnores
  Changing = {}
  MaxVersion = 1
  Handlers = {}
  Reloader = Reloader
  Main = Main
  NoOne = NoOne
  MaxReloads = 1
INVARIANTS NoRepeat
CHECK_DEADLOCK FALSE
