\* One process on devA with a loopback plug makes every call; each setter
\* that it makes has one value that changes its field; open(), tcgetattr,
\* tcsetattr, ioctl, read and write may fail (fcntl: see the README).
CONSTANTS
  h1 = h1
  h2 = h2
  devA = devA
  devB = devB
  Handles = {h1}
  Devices = {devA}
  Port <- SharedPort
  Wire <- SelfWire
  Bytes = {x1}
  Speeds <- MCSpeeds
  BaudInputs = {"BAUD_115200"}
  CharSizeInputs = {"CHAR_SIZE_5"}
  ParityInputs = {"PARITY_ODD"}
  StopBitsInputs = {}
  FlowInputs = {}
  OpenInputs <- MCPlainOpenInputs
  CallNames <- AllCalls
  InitSettings <- MCInitSettings
  Failing = {"open", "tcgetattr", "tcsetattr", "ioctl", "read", "write"}
  MaxFds = 2
  UnappliedSpeeds = {}
  TxCap = 1
  NoValue = NoValue
SPECIFICATION Spec
PROPERTY ImplementsAbstractPort

VIEW NoCommittedView
