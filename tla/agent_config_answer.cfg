SPECIFICATION Spec
CONSTANTS
  du1 = du1
  du2 = du2
  cuup = cuup
  cucp = cucp
  None = None
  DefaultPlmn = DefaultPlmn
  Plmn = Plmn
  Dus <- OneDu
  CuUps <- OneCuUp
  CuCps <- OneCuCp
  RadioConfigs <- Radios
  RequestIds <- Ids
  Choices <- SrsOnly
  Definitions <- SomeBytes
  Triggers <- SomePeriods
  MaxRestarts = 1
  MaxServices = 1
  MaxAnswers = 1
INVARIANTS
  RadioConfigExposed
