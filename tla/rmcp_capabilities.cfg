CONSTANTS
  alice = alice
  bob = bob
  carol = carol
  dave = dave
  Consoles = {alice}
  UserName <- MCUserName
  Password <- MCPassword
  Ids = {id1}
  Reusable = {}
  Asked = {"GetChannelAuthCapabilities", "CloseSession"}
  AskedPlain = {}
  Reliable = FALSE
  MaxDraws = 1
  MaxRestarts = 0
SPECIFICATION Spec
INVARIANT CapabilitiesInBothFormats
CHECK_DEADLOCK FALSE
