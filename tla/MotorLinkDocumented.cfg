SPECIFICATION LinkSpec
CONSTANTS
  Callers = {driver, watchdog}
  Commands <- MCCommands
  Reports <- MCReports
  CommandHorizon = 3
  TelemetryHorizon = 7
  Never = Never
  Listener = Listener
  Nobody = Nobody
  MotorTimeout = 4
INVARIANTS ConnectedByTelemetry
