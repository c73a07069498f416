SPECIFICATION Spec
CONSTANTS
  RcLines <- MCRcLines
  BootDevices <- MCBootDevices
  PlatformDirs <- MCPlatformDirs
  FileContexts <- MCFileContexts
  Sanitized <- MCSanitized
  NoContext <- MCNoContext
  Info <- MCInfo
  Scenarios <- MCScenarios
  Workers = 2
  RcvBuf = 2
  MaxFaults = 1
  MaxKids = 3
  Available <- MCAvailable
  Firmwares <- MCFirmwares
  ApexDirectories <- MCApex
  HandlerResult = "other"
  BootIdReadable = TRUE
INVARIANT NodesMatchKernel
PROPERTY FirmwareServed
CHECK_DEADLOCK FALSE
