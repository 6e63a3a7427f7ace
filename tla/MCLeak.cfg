\* Open and Close on one process; tcgetattr may fail.
CONSTANTS
  h1 = h1
  h2 = h2
  devA = devA
  devB = devB
  Handles = {h1}
  Devices = {devA, devB}
  Port <- PairPort
  Wire <- CrossWire
  Bytes = {x1}
  Speeds <- MCSpeeds
  BaudInputs = {}
  CharSizeInputs = {}
  ParityInputs = {}
  StopBitsInputs = {}
  FlowInputs = {}
  OpenInputs <- MCOpenInputs
  CallNames = {"Open", "Close"}
  InitSettings <- MCInitSettings
  Failing = {"tcgetattr"}
  MaxFds = 2
  UnappliedSpeeds = {}
  TxCap = 1
  NoValue = NoValue
SPECIFICATION Spec
INVARIANT OwnsOnlyItsDescriptor
