SPECIFICATION LiveSpec
CONSTANTS
  alice = alice
  bob = bob
  evo = evo
  twi = twi
  NoIntegration = NoIntegration
  NoConsumer = NoConsumer
  Clients = {c1}
  Consumers = {alice}
  Integrations = {evo, twi}
  Owner <- LiveOwner
  Provider <- MCProvider
  DbFaults = FALSE
  EvoFaults = {"create", "webhook", "state", "qr", "logout", "remove"}
  MaxCrashes = 1
PROPERTIES
  DisconnectRemovesRow
  PollingActivates
