SPECIFICATION FairSpec
CONSTANTS
  MaxPending = 2
  MaxCommands = 3
  Ports = {1, 2}
  DefaultPort = 1
  MaxRuns = 2
INVARIANTS TypeOK NoneSkipped ShutdownComplete PortsAgree ImportedWhole
PROPERTIES SettingsKept StopReturns CommandsHandled
