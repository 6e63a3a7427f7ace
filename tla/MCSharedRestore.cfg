\* Two processes open and close the same device; no failures.
CONSTANTS
  h1 = h1
  h2 = h2
  devA = devA
  devB = devB
  Handles = {h1, h2}
  Devices = {devA, devB}
  Port <- SharedPort
  Wire <- CrossWire
  Bytes = {x1}
  Speeds <- MCSpeeds
  BaudInputs = {}
  CharSizeInputs = {}
  ParityInputs = {}
  StopBitsInputs = {}
  FlowInputs = {}
  OpenInputs <- MCOpenInputs
  CallNames = {"Open", "Close"}
  InitSettings <- MCInitSettings
  Failing = {}
  MaxFds = 2
  UnappliedSpeeds = {}
  TxCap = 1
  NoValue = NoValue
SPECIFICATION Spec
INVARIANT RestoredAfterLastClose
