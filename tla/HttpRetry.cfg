\* Four calls, three tries each, over two permits.
CONSTANTS
  r1 = r1
  r2 = r2
  r3 = r3
  r4 = r4
  Requests <- MCRequests
  Permits = 2
  MaxRetries = 2
SPECIFICATION FairSpec
INVARIANTS
  TypeOK
  PermitsConserved
  NoIdlePermit
  GivesUpOnlyWhenExhausted
PROPERTY EveryCallEnds
