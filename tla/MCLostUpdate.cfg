\* Two processes on devA run Open(params) with different line settings.
CONSTANTS
  h1 = h1
  h2 = h2
  devA = devA
  devB = devB
  Handles = {h1, h2}
  Devices = {devA}
  Port <- SharedPort
  Wire <- SelfWire
  Bytes = {x1}
  Speeds <- MCSpeeds
  BaudInputs = {"BAUD_9600"}
  CharSizeInputs = {"CHAR_SIZE_8"}
  ParityInputs = {"PARITY_NONE"}
  StopBitsInputs = {"STOP_BITS_1"}
  FlowInputs = {"FLOW_CONTROL_NONE"}
  OpenInputs <- MCMixedOpenInputs
  CallNames = {"Open"}
  InitSettings <- MCInitSettings
  Failing = {}
  MaxFds = 1
  UnappliedSpeeds = {}
  TxCap = 1
  NoValue = NoValue
SPECIFICATION Spec
INVARIANT LastSetterWins
