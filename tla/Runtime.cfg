SPECIFICATION FairSpec
CONSTANTS
  Handlers = {h1}
  Reloader = Reloader
  Main = Main
  NoOne = NoOne
  MaxReloads = 2
INVARIANTS UIAgreesWhenQuiet TypeOK ProcessSeesOneEngine DryRunHonouredUntilReload PoolsOutliveActions
PROPERTIES ImplementsGate ShutdownCompletes ToggleReturns ProcessReturns
CHECK_DEADLOCK FALSE
