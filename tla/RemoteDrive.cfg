SPECIFICATION DriveSpec
CONSTANTS
  Addrs = {"phone"}
  Operators <- MCOperators
  ControlTimeout = 5
  NoClient = NoClient
  Commands <- MCCommands
  Reports = {}
  Never = Never
  Conns = {"a", "b"}
  ConnAddr <- MCConnAddr
  Watchdog = "watchdog"
  Main = "main"
  CommandTimeout = 2
  MaxStall = 1
  Inputs = {button, key}
  Buttons = {button}
  CommandOf <- MCCommandOf
  None = None
  WayLimit = 1
INVARIANTS ActiveOnlyWhileHeld ReleaseStopsCar DepartedOwnerParked
CHECK_DEADLOCK FALSE
