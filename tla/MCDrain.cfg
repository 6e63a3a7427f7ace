\* One process opens 7O2, writes a byte and closes before the UART sends it.
CONSTANTS
  h1 = h1
  h2 = h2
  devA = devA
  devB = devB
  Handles = {h1}
  Devices = {devA, devB}
  Port <- PairPort
  Wire <- CrossWire
  Bytes = {x1}
  Speeds <- MCSpeeds
  BaudInputs = {}
  CharSizeInputs = {}
  ParityInputs = {}
  StopBitsInputs = {}
  FlowInputs = {}
  OpenInputs <- MCOpenInputs
  CallNames = {"Open", "WriteByte", "Close"}
  InitSettings <- MCInitSettings
  Failing = {}
  MaxFds = 2
  UnappliedSpeeds = {}
  TxCap = 1
  NoValue = NoValue
SPECIFICATION Spec
PROPERTY FramedAsWritten
