CONSTANTS
  api = api
  ipmi = ipmi
  redfish = redfish
  Requesters = {api, redfish}
  Offered <- MCOffered
  MaxLines = 0
SPECIFICATION Spec
INVARIANT TypeOK
INVARIANT OffWasStopped
INVARIANT SuccessMadeTheChange
INVARIANT RefusalTouchedNothing
INVARIANT RestartStopsFirst
INVARIANT PowerUpResetsNoRunningGuest
PROPERTY ImplementsSwitch
