SPECIFICATION PathFairSpec
CONSTANTS
  s1 = s1
  s2 = s2
  NoService = NoService
  Services <- TwoServices
  AppendMayFail = TRUE
  MaxRecords = 3
  Rntis <- TwoUes
  ObservationOf <- TwoUesObserved
  MaxMessages = 2
  Lossy = TRUE
  Reordering = TRUE
  expected_rx_antennas = 1
INVARIANTS
  TaPathTypeOK
  TimingAdvanceOfUe
  SentInOrder
  ObservationsAccountedFor
PROPERTIES
  AttachesFreshest
  ObservationsEmitted
