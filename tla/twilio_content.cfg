SPECIFICATION FairSpec
CONSTANTS
  Sends = {s1, s2}
  Accounts = {acme, beta}
  Lists <- MCLists
  NoSid = NoSid
  NoList = NoList
  NoTemplate = NoTemplate
  Nothing = Nothing
INVARIANTS
  TypeOK
  RightContent
PROPERTIES
  ReusedWhenCached
  EverySendEnds
CHECK_DEADLOCK FALSE
