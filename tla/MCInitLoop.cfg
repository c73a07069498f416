SPECIFICATION FairSpec
CONSTANTS
  Props <- MCProps
  Values <- MCValues
  ReadOnly <- MCReadOnly
  RcActions <- MCActions
  EventTrigger <- MCEventTrigger
  PropTriggers <- MCPropTriggers
  CommandsOf <- MCCommands
  AllowedEvents <- MCEvents
  ClientSets <- MCClientSets
  CtlClients = {"c1", "c2", "c3"}
  PowerCommands <- MCPower
  MaxSets = 2
  CtlLimit = 1
  UserspaceReboot = TRUE
INVARIANTS
  TypeOK
  NoLostWakeup
  WaitIsWoken
  TriggersNotLost
  ShutdownIsQuiet
PROPERTIES
  ControlExactlyOnce
  ShutdownHappens
CHECK_DEADLOCK FALSE
