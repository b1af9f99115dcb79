SPECIFICATION PartSpec
CONSTANTS
  MaxRows = 3
  MaxPanel = 2
  Worlds <- MCWorlds
  Slicers = {"orca", "studio"}
  MaxWriters = 16
  MaxTries = 5
  SessionLimits <- MCSessionLimits
  Makers = {"server", "command"}
  Secrets = {"s"}
  Phones = {"p", "q"}
  Uploads = {"u"}
  OwnerCases <- MCOwnerCases
  Zips = {1, 2}
  RecoveryLimits <- MCRecoveryLimits
  Clients = {"phone", "remux"}
  VideoLimits <- MCVideoLimits
  Watchers = {"web", "warm"}
  CameraLimits <- MCCameraLimits
INVARIANTS JobsSound AccessSound RecoverySound VideoSound
PROPERTIES TerminalStays
CHECK_DEADLOCK FALSE
