SPECIFICATION EmergencySpec
CONSTANTS
  Addrs <- MCAddrs
  Operators <- MCOperators
  ControlTimeout = 5
  NoClient = NoClient
  Commands <- Pivot
  Reports = {}
  Never = Never
  Conns = {"a", "b"}
  ConnAddr <- Rivals
  Watchdog = "watchdog"
  Main = "main"
  CommandTimeout = 2
  MaxStall = 1
INVARIANTS EmergencyStopHolds
CHECK_DEADLOCK FALSE
