SPECIFICATION Spec
CONSTANTS
  alice = alice
  bob = bob
  evo = evo
  twi = twi
  NoIntegration = NoIntegration
  NoMessageId = NoMessageId
  Entries = {r1, r2}
  MessageIds = {r1, r2}
  Consumers = {alice, bob}
  Integrations = {evo, twi}
  Owner <- MCOwner
  Provider <- MCProvider
  StatusCheck <- AuditStatus
  DbFaults = FALSE
  MaxCrashes = 0
INVARIANTS
  ReceiptNeverLost
CHECK_DEADLOCK FALSE
