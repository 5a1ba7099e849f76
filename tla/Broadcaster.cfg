SPECIFICATION Spec
CONSTANTS
  Viewers = {v1, v2}
  MaxFrames = 3
INVARIANTS TypeOK NoMissedFrame NoMissedEnd CameraFlagFollows
PROPERTIES LeaversAreReleased ShutdownDisconnects
CHECK_DEADLOCK FALSE
