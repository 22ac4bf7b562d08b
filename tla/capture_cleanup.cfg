SPECIFICATION FairSpec
CONSTANTS
  u1 = u1
  u2 = u2
  w1 = w1
  w2 = w2
  NumRxAntennas = 2
  ClockModulus = 16
  NofTxPorts = 1
  Overlap = FALSE
  LateRegistration = FALSE
  ClockSteps = FALSE
  TimeoutUs = 2
  MaxOccasion = 2
  MaxClock = 6
  AntennaIds <- Antennas2
  RxPorts <- Ports2
  Rntis <- OneUe
  Workers <- OneWorker
  Readers <- OnlyCleanup
PROPERTIES
  CompleteNotDropped
