SPECIFICATION Spec
CONSTANTS
  NoApp = NoApp
  Session = {s1}
  App = {a1}
  Worker = {w1}
  Kind = {"capture", "focus", "open", "act", "list", "remote"}
  Job = {"stop", "quit", "revoke", "permissions", "enable", "status"}
  MaxActions = 2
  MaxCommands = 2
  MaxGen = 2
  MaxStarts = 3
CONSTRAINT Budget
INVARIANTS
  TypeOK
  NoRunWhileCleaning
  AuthOfTask
  CaptureOfEpoch
  StoppedDriverEnds
  OneDriver
PROPERTIES
  ActsGranted
CHECK_DEADLOCK FALSE
