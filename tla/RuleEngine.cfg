CONSTANTS
  Names = {"f"}
  HostNames = {"seedbox"}
  UsesAgent = {"seedbox"}
  NoHost = "no host"
  MaxAgents = 2
  MaxSize = 2
  Configs <- MCConfigs
  Files <- MCFiles
SPECIFICATION FairSpec
INVARIANTS TypeOK RunsAsConfigured AcceptedConfigWorks NothingLeftOpen
PROPERTIES FirstMatchWins NothingDeletedUncopied SuccessMeansDelivered ImplementsCall CancelEndsProcess
CHECK_DEADLOCK FALSE
