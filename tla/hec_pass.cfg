\* Clients eventually hang up; three of them contend for two permits.
SPECIFICATION FairSpec
CONSTANTS
  k1 = k1
  k2 = k2
  k3 = k3
  Clients <- MCClients
  ConcurrencyLimit = 2
  MaxRequests = 2
INVARIANT TypeOK
INVARIANT PermitsConserved
PROPERTY ShutdownDrains
