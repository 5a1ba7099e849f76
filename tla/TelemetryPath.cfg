SPECIFICATION Spec
CONSTANTS
  Viewers = {v}
  QueueLimit = 1
INVARIANTS NoSendBlocks
PROPERTIES SignalEnds RelayStops TelemetryResumes
