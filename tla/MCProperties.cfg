CONSTANTS
  Persist = {"persist.p", "persist.q"}
  Others = {"ro.x", "selinux.restorecon_recursive"}
  ReadOnly = {"ro.x"}
  Values = {"", "1", "2", "long"}
  Unset = "unset"
  Defaults <- MCDefaults
  LocalProp <- MCLocalProp
  Legacy <- MCLegacy
  Insecure = {"persist.q"}
  Requests <- MCRequests
  Granted <- MCGranted
  IllegalNames = {".x"}
  LongValues = {"long"}
  TypeOf <- MCTypeOf
  Admits <- MCAdmits
  Paths = {"/a"}
  Timeout = 2
  Grain = 2
  PartSize <- MCPartSize
  Waits <- MCWaits
  MaxRequests = 2
  MaxLoads = 2
  MaxFaults = 1
  MaxCrashes = 1
SPECIFICATION Spec
CHECK_DEADLOCK FALSE
INVARIANTS
  AcknowledgedSurvives
PROPERTIES
  IsDurableMap
  RestoreconHappens
  PropertyThreadIsFree
