CONSTANTS
  api = api
  ipmi = ipmi
  redfish = redfish
  Requesters = {ipmi, redfish}
  Offered <- MCRepresentative
  MaxLines = 2
SPECIFICATION FairSpec
INVARIANT OnWasRunning
INVARIANT RefusalTouchedNothing
PROPERTY Answered
