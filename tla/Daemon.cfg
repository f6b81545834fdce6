SPECIFICATION FairSpec
CONSTANTS
  a = a
  b = b
  t = t
  Paths = {a, t}
  Temporary = {t}
  NeedsAge = {a}
  Matches <- MCMatches
  Ignores <- MCIgnores
  Changing = {a}
  MaxVersion = 1
  Handlers = {h}
  Reloader = Reloader
  Main = Main
  NoOne = NoOne
  MaxReloads = 0
INVARIANTS TypeOK OnlyMisrecordedRepeats RecordsOnlyWhatWasSeen
PROPERTIES EveryFileAttended
CHECK_DEADLOCK FALSE
