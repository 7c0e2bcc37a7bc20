SPECIFICATION Spec
CONSTANTS
  chan = chan
  b0 = b0
  b1 = b1
  b2 = b2
  m1 = m1
  m2 = m2
  NoIntegration = NoIntegration
  NoMessageId = NoMessageId
  Batches = {b1}
  Integrations = {chan}
  MessageIds = {m1}
  Messages <- MCMessages
  Channel <- MCChannel
  Entries <- MCEntries
  StatusCheck <- AuditStatus
  Checked = {}
  DbFaults = TRUE
  MaxAttempts = 1
  MaxCrashes = 0
INVARIANTS
  AckedAudited
CHECK_DEADLOCK FALSE
