SPECIFICATION Spec
CONSTANTS
  NoMessage = NoMessage
  Idle <- NoMessage
  Modulus32 = 16384
  Modulus64 = 1048576
  VarintBytes = 3
  IntHalf = 131072
  expected_rx_antennas = 2
  Batches <- ItemBatches
  Drains <- SnapshotDrains
  RecordLists <- ObservationLists
  Requests <- ConfigRequests
  Configs <- RadioConfigs
  MessagePairs <- ExamplePairs
INVARIANTS
  SizesExact
  ConcatenationMerges
  StreamsSurvive
  ObservationsSurvive
  AnswerMatchesRequest
  IndicationAssembles
