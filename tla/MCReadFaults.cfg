\* One process on devA with a loopback plug writes and reads three distinct bytes
\* while every system call may fail; Open(9600, 8N1, no flow control), no setters.
CONSTANTS
  h1 = h1
  h2 = h2
  devA = devA
  devB = devB
  Handles = {h1}
  Devices = {devA, devB}
  Port <- PairPort
  Wire <- SelfWire
  Bytes = {x1, x2, x3}
  Speeds <- MCSpeeds
  BaudInputs = {}
  CharSizeInputs = {}
  ParityInputs = {}
  StopBitsInputs = {}
  FlowInputs = {}
  OpenInputs <- MCPlainOpenInputs
  CallNames = {"Open", "Close", "IsDataAvailable", "ReadByte", "WriteByte"}
  InitSettings <- MCInitSettings
  Failing = {"open", "tcgetattr", "tcsetattr", "fcntl", "ioctl", "read", "write"}
  MaxFds = 2
  UnappliedSpeeds = {}
  TxCap = 1
  NoValue = NoValue
SPECIFICATION Spec
INVARIANT ReadsAreDelivered
VIEW NoCommittedView
