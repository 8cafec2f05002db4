SPECIFICATION Spec
CONSTANTS
  Devices <- MCDevices
  Info <- MCInfo
  Configs <- MCConfigs
  NoDevice = NoDevice
  DefaultEndpoints <- MCDefaultEndpoints
  MaxPathLen = 3
INVARIANTS
  SelectionHonoured
  WorkersGetTheirEndpoints
PROPERTIES
  ReportFindsItAgain
