SPECIFICATION Spec
CONSTANTS
  Handlers = {h1,h2}
  Reloader = Reloader
  Main = Main
  NoOne = NoOne
  MaxReloads = 1
INVARIANTS DryRunHonoured
CHECK_DEADLOCK FALSE
