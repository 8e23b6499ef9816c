SPECIFICATION BoundedSpec
CONSTANTS
  Processes = {server, c1, c2}
  Servers = {server}
  ArgumentLists <- Lists
  ReadNumber <- TextNumber
  Null = Null
  IntModulus = 64
  Plain = {c2}
  MaxPort = 15
  DefaultHost = "0.0.0.0"
  DefaultServerPort = 10
  DefaultPeerPort = 11
  DottedHosts = {"1.2.3.4"}
  OtherHosts = {"localhost"}
  LongPorts = {}
  Nothing = Nothing
CHECK_DEADLOCK FALSE
INVARIANTS ReadsWithinArgv SettingsAreTheLastGiven LoggerIsReadyFirst DefaultsMeet
PROPERTY StartEnds
