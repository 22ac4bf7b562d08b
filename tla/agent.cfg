SPECIFICATION Spec
CONSTANTS
  du1 = du1
  du2 = du2
  cuup = cuup
  cucp = cucp
  None = None
  DefaultPlmn = DefaultPlmn
  Plmn = Plmn
  Dus <- TwoDus
  CuUps <- OneCuUp
  CuCps <- OneCuCp
  RadioConfigs <- Radios
  RequestIds <- Ids
  Choices <- AllChoices
  Definitions <- SomeBytes
  Triggers <- SomePeriods
  MaxRestarts = 1
  MaxServices = 1
  MaxAnswers = 1
INVARIANTS
  TypeOK
  ServicesDrainRegistered
  AnswersAreCollectorConfig
  DefaultsFollowLatestDu
  SetupDescribesUnit
