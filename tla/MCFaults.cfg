\* One process on devA with a loopback plug; every system call may fail; the
\* setters run with few inputs (MCReadFaults covers the data path).
CONSTANTS
  h1 = h1
  h2 = h2
  devA = devA
  devB = devB
  Handles = {h1}
  Devices = {devA, devB}
  Port <- PairPort
  Wire <- SelfWire
  Bytes = {x1}
  Speeds <- MCSpeeds
  BaudInputs = {"BAUD_9600"}
  CharSizeInputs = {"CHAR_SIZE_8"}
  ParityInputs = {"PARITY_ODD", "PARITY_NONE", "PARITY_INVALID"}
  StopBitsInputs = {}
  FlowInputs = {}
  OpenInputs <- MCOpenInputs
  CallNames <- AllCalls
  InitSettings <- MCInitSettings
  Failing = {"open", "tcgetattr", "tcsetattr", "fcntl", "ioctl", "read", "write"}
  MaxFds = 2
  UnappliedSpeeds = {}
  TxCap = 1
  NoValue = NoValue
SPECIFICATION Spec
INVARIANT ConfigRoundTrip
VIEW NoCommittedView
