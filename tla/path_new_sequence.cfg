SPECIFICATION PathSpec
CONSTANTS
  s1 = s1
  s2 = s2
  NoService = NoService
  Rntis <- OneUe
  AntennaIds <- TwoAntennas
  Shapes <- WholeOnly
  Services <- OneService
  StreamBytes <- Sizes
  MaxPayloadBytes = 6
  AppendMayFail = FALSE
  MaxTimestamp = 2
  expected_rx_antennas = 2
  Lossy = FALSE
  Reordering = FALSE
  MayRestart = FALSE
  SequenceOf <- NewSequence
INVARIANTS
  ReferencesMatch
