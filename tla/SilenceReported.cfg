SPECIFICATION RadioSpec
CONSTANTS
  Addrs <- MCAddrs
  Operators <- MCOperators
  ControlTimeout = 1
  NoClient = NoClient
  Commands <- Pivot
  Reports <- MCReports
  Never = Never
  Conns = {"a"}
  ConnAddr <- Phone
  Watchdog = "watchdog"
  Main = "main"
  CommandTimeout = 1
  MaxStall = 1
PROPERTIES SilenceStopsMotors
