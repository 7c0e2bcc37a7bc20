SPECIFICATION TelemetrySpec
CONSTANTS
  alice = alice
  bob = bob
  evo = evo
  twi = twi
  NoIntegration = NoIntegration
  NoMessageId = NoMessageId
  Entries = {r1, r2}
  MessageIds = {r1, r2}
  Consumers = {alice, bob}
  Integrations = {evo, twi}
  Owner <- MCOwner
  Provider <- MCProvider
  StatusCheck <- AuditStatus
  DbFaults = FALSE
  MaxCrashes = 0
  MaxClock = 1
  DefaultLimit = 1
  MaxLimit = 2
INVARIANTS
  TelemetryTypeOK
  OutcomeRecorded
  MetricsBounded
  AccountsAdd
  OwnerFindsSent
  MonthlyNotEarly
PROPERTIES
  EveryAttemptSettles
  SentNeverDrops
  ReceiptRecorded
CHECK_DEADLOCK FALSE
