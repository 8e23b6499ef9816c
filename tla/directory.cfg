SPECIFICATION FairSpec
CONSTANTS
  Streams = {s1, s2, s3}
  Names = {empty, alice, bob}
  EmptyName = empty
  Absent = Absent
  Lost = Lost
CHECK_DEADLOCK FALSE
INVARIANTS SessionKeepsItsName EndedSessionLeavesNoEntry
PROPERTIES DepartedUserIsRemoved ImplementsRegistry
