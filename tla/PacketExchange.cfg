\* exchange
SPECIFICATION FairSpec
CONSTANTS
  c1 = c1
  c2 = c2
  h1 = h1
  h2 = h2
  Server = srv
  Clients <- MCClients
  Setups <- MCSetups
  MaxNoise = 1
  MaxErrors = 1
INVARIANTS
  IInv
  OnePlace
  AckMatchesRequest
  MuteNotDeaf
PROPERTIES
  ServedOrMissed
CHECK_DEADLOCK FALSE
