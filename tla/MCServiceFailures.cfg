SPECIFICATION Spec
CONSTANTS
  a = a
  b = b
  t = t
  p1 = p1
  p2 = p2
  p3 = p3
  Configured = {a, b}
  Temps = {}
  Pids = {p1, p2}
  NoPid = NoPid
  NoService = NoService
  RcFlags <- FailureFlags
  Updatable = {}
  RebootOnFailure = {a, b}
  Apexd = {}
  HasTimeout = {}
  OnRestart <- NoOnRestart
  FailureAction <- FailureRules
  PolicyActive = TRUE
  Commands <- FailureCommands
  CtlCalls <- FailureCtl
  StartFailures = {"console", "stat", "context", "fork"}
  ApexUpdatable = FALSE
  Orphans = FALSE
  NoFatal = {}
  CrashLimit = 1
  MaxDelayed = 2
SYMMETRY PidSymmetry
CHECK_DEADLOCK FALSE
PROPERTIES
  RebootIsJustified
  FailuresReboot
