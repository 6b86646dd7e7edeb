SPECIFICATION FairSpec
CONSTANTS
  Modes = {"LONG_LIFE", "SMART"}
  Policy <- AwakeOnJourneys
  BootModes = {"SMART"}
  BootLevels = {"low"}
  QueueLen = 2
  Inputs = {"MODESET", "PARAMS", "LPSLEEP", "BT_UPDATA", "KEY", "motion", "battery"}
  MaxInput = 2
  MaxRestart = 1
INVARIANTS TypeOK HandOverrides SettledAgrees
PROPERTIES LowBatteryEnters ChargedExits ShutdownCompletes
CHECK_DEADLOCK FALSE
