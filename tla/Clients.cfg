SPECIFICATION FairSpec
CONSTANTS
  Peers = {1, 2, 3}
INVARIANTS
  TypeOK
  OneExchange
  BoundedBypass
PROPERTIES
  ImplementsCalls
