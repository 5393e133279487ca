CONSTANTS
  api = api
  ipmi = ipmi
  redfish = redfish
  Requesters = {redfish}
  Offered <- MCRepresentative
  MaxLines = 1
SPECIFICATION Spec
INVARIANT OffWasStopped
