SPECIFICATION FairSpec
CONSTANTS
  q1 = q1
  q2 = q2
  q3 = q3
  Requests <- ThreeRequests
  PoolLimit = 2
INVARIANTS
  TypeOK
  ConnectionsReturned
  CircleOfBooksOnly
PROPERTIES
  FullPoolDrains
  EveryRequestEnds
