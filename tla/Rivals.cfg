SPECIFICATION FairWatchSpec
CONSTANTS
  Addrs <- MCAddrs
  Operators <- MCOperators
  ControlTimeout = 1
  NoClient = NoClient
  Commands <- PivotAndBad
  Reports <- MCReports
  Never = Never
  Conns = {"a", "b"}
  ConnAddr <- Rivals
  Watchdog = "watchdog"
  Main = "main"
  CommandTimeout = 4
  MaxStall = 1
INVARIANTS ServerTypeOK GrantedDriverOwns OneDriverInFlight OverdueMotionIsMet DepartedOwnerParked
PROPERTIES SilenceStopsRecord
