SPECIFICATION Spec
CONSTANTS
  a = a
  b = b
  t = t
  p1 = p1
  p2 = p2
  p3 = p3
  Configured = {a, b}
  Temps = {}
  Pids = {p1, p2, p3}
  NoPid = NoPid
  NoService = NoService
  RcFlags <- LifecycleFlags
  Updatable = {}
  RebootOnFailure = {}
  Apexd = {}
  HasTimeout = {a}
  OnRestart <- LifecycleOnRestart
  FailureAction <- RebootRules
  PolicyActive = FALSE
  Commands <- LifecycleCommands
  CtlCalls <- LifecycleCtl
  StartFailures = {"stat"}
  ApexUpdatable = FALSE
  Orphans = FALSE
  NoFatal = {}
  CrashLimit = 4
  MaxDelayed = 2
SYMMETRY PidSymmetry
INVARIANTS
  LiveChildIsTracked
  SignalsHitTheService
  OnlyWantedRestarts
  ShutdownOrderIsComplete
  SvcPropIsTrue
PROPERTIES
  RequestsSurvive
