SPECIFICATION FairSpec
CONSTANTS
  Services = {"app", "logd", "vold", "watchdogd"}
  Debugging = {"logd"}
  ToStart = {"watchdogd"}
  RcCritical = {"vold"}
  Animation = {}
  PostData = {"app", "logd"}
  FromApex = {"app"}
  HoldsData = {"app", "logd"}
  Vold = "vold"
  BlankScreen = "none"
  BootAnim = "none"
  SurfaceFlinger = "none"
  NoService = "none"
  Running0 = {"app", "logd", "vold"}
  Stuck <- MCStuck
  Commands <- MCCommands
  Bcb0 <- MCBcb
  ShutdownTimeout = 2
  MaxThermalTimeout = 1
  MonitorTimeout = 1
  WordSize = 16
  SigtermTimeout = 1
  SigkillTimeout = 1
  StartedTimeout = 1
  BootTimeout = 2
  FatalDelay = 1
  FatalConfig <- MCFatal
  DataMounted = TRUE
  ShutdownAnimation = FALSE
  DynamicPartitions = TRUE
  RebootCapable = TRUE
  ThermalWarmReset = TRUE
  CrashAt = {"Umount", "UVdc"}
INVARIANTS
  FsckIsSafe
  
  ResumeIsClean
  RecoveryHasCommand
PROPERTIES
  EveryShutdownEnds
CHECK_DEADLOCK FALSE
