CONSTANTS
  alice = alice
  bob = bob
  carol = carol
  dave = dave
  Consoles = {alice, dave}
  UserName <- MCUserName
  Password <- MCPassword
  Ids = {id1, id2}
  Reusable = {id1}
  Asked = {"GetChannelAuthCapabilities", "CloseSession"}
  AskedPlain = {"CloseSession"}
  Reliable = FALSE
  MaxDraws = 2
  MaxRestarts = 1
SPECIFICATION Spec
INVARIANT TypeOK
INVARIANT KeyAgreement
INVARIANT ClosedIsSilent
INVARIANT ActiveIsServed
 
SYMMETRY Alike
CHECK_DEADLOCK FALSE
