SPECIFICATION Spec
CONSTANTS
  u1 = u1
  u2 = u2
  w1 = w1
  w2 = w2
  NumRxAntennas = 2
  ClockModulus = 8
  NofTxPorts = 1
  Overlap = TRUE
  LateRegistration = TRUE
  ClockSteps = TRUE
  TimeoutUs = 1
  MaxOccasion = 2
  MaxClock = 3
  AntennaIds <- Antennas3
  RxPorts <- Ports3
  Rntis <- OneUe
  Workers <- TwoWorkers
  Readers <- AllReaders
INVARIANTS
  SnapshotBounded
