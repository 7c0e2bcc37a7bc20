SPECIFICATION GatewaySpec
CONSTANTS
  alice = alice
  bob = bob
  evo = evo
  NoIntegration = NoIntegration
  NoConsumer = NoConsumer
  NoMessageId = NoMessageId
  Clients = {c1, c2}
  Consumers = {alice, bob}
  Integrations = {evo}
  Entries = {r1}
  MessageIds = {r1}
  Owner <- RaceOwner
  Provider <- RaceProvider
  StatusCheck <- MCStatusCheck
  DbFaults = TRUE
  SendFaults = FALSE
  EvoFaults = {"remove"}
  MaxCrashes = 0
SYMMETRY ClientSymmetry
INVARIANTS
  TypeOK
  ActiveWasPaired
  ConnectedIsActive
  HookedWhenAnswered
PROPERTIES
  NeverResurrected
  TouchedByOwner
  TrailRemovedByOwner
  TakenIsTracked
  SendsAsOutbound
