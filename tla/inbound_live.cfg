SPECIFICATION FairSpec
CONSTANTS
  chan = chan
  b0 = b0
  b1 = b1
  b2 = b2
  m1 = m1
  m2 = m2
  NoIntegration = NoIntegration
  NoMessageId = NoMessageId
  Batches = {b2}
  Integrations = {chan}
  MessageIds = {m1, m2}
  Messages <- MCMessages
  Channel <- MCChannel
  Entries <- MCEntries
  StatusCheck <- AuditStatus
  Checked = {"meta"}
  DbFaults = FALSE
  MaxAttempts = 2
  MaxCrashes = 1
INVARIANTS
  AckedRecorded
PROPERTIES
  ReceivedSettles
  BatchAcked
CHECK_DEADLOCK FALSE
