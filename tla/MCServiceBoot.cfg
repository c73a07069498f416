SPECIFICATION Spec
CONSTANTS
  a = a
  b = b
  t = t
  p1 = p1
  p2 = p2
  p3 = p3
  Configured = {a, b}
  Temps = {t}
  Pids = {p1, p2, p3}
  NoPid = NoPid
  NoService = NoService
  RcFlags <- BootFlags
  Updatable = {a}
  RebootOnFailure = {}
  Apexd = {b}
  HasTimeout = {}
  OnRestart <- NoOnRestart
  FailureAction <- RebootRules
  PolicyActive = FALSE
  Commands <- BootCommands
  CtlCalls = {}
  StartFailures = {}
  ApexUpdatable = TRUE
  Orphans = TRUE
  NoFatal = {}
  CrashLimit = 0
  MaxDelayed = 1
SYMMETRY PidSymmetry
INVARIANTS
  ExecCommands
  UpdatableWaits
PROPERTIES
  DelayedAreStarted
