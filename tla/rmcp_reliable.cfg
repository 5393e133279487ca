CONSTANTS
  alice = alice
  bob = bob
  carol = carol
  dave = dave
  Consoles = {alice, bob, carol}
  UserName <- MCUserName
  Password <- MCPassword
  Ids = {id1, id2, id3}
  Reusable = {id1, id2, id3}
  Asked = {"SetSessionPrivilege", "GetChassisStatus", "ChassisControl", "CloseSession", "unsupported"}
  AskedPlain = {}
  Reliable = TRUE
  MaxDraws = 3
  MaxRestarts = 0
SPECIFICATION FairSpec
INVARIANT KeyNeedsPassword
PROPERTY Completes
CHECK_DEADLOCK FALSE
