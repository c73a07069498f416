SPECIFICATION FairSpec
CONSTANTS
  a = a
  b = b
  t = t
  p1 = p1
  p2 = p2
  p3 = p3
  Configured = {a, b}
  Temps = {}
  Pids = {p1, p2, p3}
  NoPid = NoPid
  NoService = NoService
  RcFlags <- LiveFlags
  Updatable = {}
  RebootOnFailure = {}
  Apexd = {}
  HasTimeout = {}
  OnRestart <- LiveOnRestart
  FailureAction <- RebootRules
  PolicyActive = FALSE
  Commands = {}
  CtlCalls <- LiveCtl
  StartFailures = {}
  ApexUpdatable = FALSE
  Orphans = FALSE
  NoFatal = {}
  CrashLimit = 4
  MaxDelayed = 2
PROPERTIES
  SupervisionProceeds
