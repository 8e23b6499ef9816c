SPECIFICATION BoundedSpec
CONSTANTS
  Streams = {s1, s2}
  Names = {empty, alice}
  EmptyName = empty
  Absent = Absent
  Lost = Lost
  DottedHosts = {host4}
  OtherHosts = {host6}
  LongPorts = {}
  Nothing = Nothing
  Clients = {host4, host6}
  ClientPort = port
  Called = host4
  MaxMissed = 1
CHECK_DEADLOCK FALSE
INVARIANTS SessionTypeOK NoSessionIsLeaked AuthorizationMeansSignedOut NoMutualWait DialsTheUser ViewStaysInList
PROPERTY GuiComesBack
