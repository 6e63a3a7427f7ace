\* Two processes read the same device (loopback plug); no failures.
CONSTANTS
  h1 = h1
  h2 = h2
  devA = devA
  devB = devB
  Handles = {h1, h2}
  Devices = {devA, devB}
  Port <- SharedPort
  Wire <- SelfWire
  Bytes = {x1, x2}
  Speeds <- MCSpeeds
  BaudInputs = {}
  CharSizeInputs = {}
  ParityInputs = {}
  StopBitsInputs = {}
  FlowInputs = {}
  OpenInputs <- MCOpenInputs
  CallNames = {"Open", "ReadByte", "WriteByte"}
  InitSettings <- MCInitSettings
  Failing = {}
  MaxFds = 2
  UnappliedSpeeds = {}
  TxCap = 1
  NoValue = NoValue
SPECIFICATION Spec
INVARIANT ReadsAreDelivered
