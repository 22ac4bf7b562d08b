SPECIFICATION PathSpec
CONSTANTS
  s1 = s1
  s2 = s2
  NoService = NoService
  Rntis <- OneUe
  AntennaIds <- TwoAntennas
  Shapes <- WholeOnly
  Services <- TwoServices
  StreamBytes <- Sizes
  MaxPayloadBytes = 3
  AppendMayFail = TRUE
  MaxTimestamp = 2
  expected_rx_antennas = 2
  Lossy = TRUE
  Reordering = TRUE
  MayRestart = TRUE
  SequenceOf <- SameSequence
SYMMETRY Symmetry
INVARIANTS
  PathTypeOK
  AssembledFromOneSnapshot
  AssembledOnce
  AssembledExactlyWhen
  ArrivedIsAssembled
  SnapshotToOneService
  TimestampsInOrder
