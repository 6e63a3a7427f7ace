\* One process on devA (wired to devB), every setter input; only open/read/write fail.
CONSTANTS
  h1 = h1
  h2 = h2
  devA = devA
  devB = devB
  Handles = {h1}
  Devices = {devA, devB}
  Port <- PairPort
  Wire <- CrossWire
  Bytes = {x1}
  Speeds <- MCSpeeds
  BaudInputs = {"BAUD_9600", "BAUD_115200", "BAUD_INVALID"}
  CharSizeInputs = {"CHAR_SIZE_5", "CHAR_SIZE_8"}
  ParityInputs = {"PARITY_EVEN", "PARITY_ODD", "PARITY_NONE", "PARITY_INVALID"}
  StopBitsInputs = {"STOP_BITS_1", "STOP_BITS_2", "STOP_BITS_INVALID"}
  FlowInputs = {"FLOW_CONTROL_HARD", "FLOW_CONTROL_NONE", "FLOW_CONTROL_INVALID"}
  OpenInputs <- MCOpenInputs
  CallNames <- AllCalls
  InitSettings <- MCInitSettings
  Failing = {"open", "read", "write"}
  MaxFds = 2
  UnappliedSpeeds = {}
  TxCap = 1
  NoValue = NoValue
SPECIFICATION Spec
INVARIANTS TypeOK OwnsOnlyItsDescriptor RestoredAfterLastClose ConfigRoundTrip
