SPECIFICATION Spec
CONSTANTS
  u1 = u1
  u2 = u2
  w1 = w1
  w2 = w2
  NumRxAntennas = 2
  ClockModulus = 16
  NofTxPorts = 2
  Overlap = FALSE
  LateRegistration = FALSE
  ClockSteps = TRUE
  TimeoutUs = 2
  MaxOccasion = 3
  MaxClock = 4
  AntennaIds <- Antennas2
  RxPorts <- Ports2
  Rntis <- OneUe
  Workers <- OneWorker
  Readers <- NoReaders
INVARIANTS
  ReportsFollowOccasions
  LastCaptureAvailable
  EntriesFollowWorkers
PROPERTIES
  ImplementsSnapshotBox
