SPECIFICATION Spec
CONSTANTS
  Handlers = {h1,h2}
  Reloader = Reloader
  Main = Main
  NoOne = NoOne
  MaxReloads = 0
INVARIANTS UIAgreesWhenQuiet
CHECK_DEADLOCK FALSE
