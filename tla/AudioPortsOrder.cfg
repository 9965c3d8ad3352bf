SPECIFICATION Spec
CONSTANTS
  NumPorts = 5
  Kinds <- MCKinds
  MaxBlocks = 2
INVARIANTS
  TypeOK
  ChannelsApart
  InputsHeard
  OutputsReturned
