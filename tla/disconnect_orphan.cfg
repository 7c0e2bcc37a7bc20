SPECIFICATION Spec
CONSTANTS
  alice = alice
  bob = bob
  evo = evo
  twi = twi
  NoIntegration = NoIntegration
  NoConsumer = NoConsumer
  Clients = {c1, c2}
  Consumers = {alice, bob}
  Integrations = {evo, twi}
  Owner <- MCOwner
  Provider <- MCProvider
  DbFaults = FALSE
  EvoFaults = {}
  MaxCrashes = 0
INVARIANTS
  SessionEnds
