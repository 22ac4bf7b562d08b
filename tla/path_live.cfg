SPECIFICATION PathFairSpec
CONSTANTS
  s1 = s1
  s2 = s2
  NoService = NoService
  Rntis <- TwoUes
  AntennaIds <- Antennas3
  Shapes <- WholeOnly
  Services <- OneService
  StreamBytes <- Sizes
  MaxPayloadBytes = 6
  AppendMayFail = FALSE
  MaxTimestamp = 2
  expected_rx_antennas = 3
  Lossy = FALSE
  Reordering = FALSE
  MayRestart = TRUE
  SequenceOf <- SameSequence
INVARIANTS
  QueueConserved
  GeneratedSentFirst
PROPERTIES
  CollectedIsAssembled
  QueueDrains
