SPECIFICATION Spec
CONSTANTS
  chan = chan
  b0 = b0
  b1 = b1
  b2 = b2
  m1 = m1
  m2 = m2
  NoIntegration = NoIntegration
  NoMessageId = NoMessageId
  Batches = {b0, b1}
  Integrations = {chan}
  MessageIds = {m1}
  Messages <- MCMessages
  Channel <- MCChannel
  Entries <- MCEntries
  StatusCheck <- AuditStatus
  Checked = {"twilio"}
  DbFaults = TRUE
  MaxAttempts = 2
  MaxCrashes = 1
INVARIANTS
  TypeOK
  ForwardedIsServed
PROPERTIES
  InboundMovesForward
CHECK_DEADLOCK FALSE
