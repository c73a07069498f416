CONSTANTS
  Symbols <- MCSymbols
  Scenarios <- MCScenarios
  MaxLines = 4
  InitScripts <- MCInitScripts
  Dirs <- MCDirs
  Unreadable <- MCUnreadable
  Unmounted <- MCUnmounted
  Vendor <- MCVendor
  ApexFiles <- MCApexFiles
  RcPaths <- MCRcPaths
  Properties <- MCProperties
  Readable <- MCReadable
SPECIFICATION Spec
CHECK_DEADLOCK FALSE
INVARIANTS
  PolicyIsEnforced
  SectionsDoNotLeak
  ServicesAreWellFormed
