\* One process opens the line as it is, then sets a speed the device
\* accepts in cfsetispeed but cannot run at, and reads the rate back.
CONSTANTS
  h1 = h1
  h2 = h2
  devA = devA
  devB = devB
  Handles = {h1}
  Devices = {devA}
  Port <- SharedPort
  Wire <- SelfWire
  Bytes = {x1}
  Speeds <- MCSpeeds
  BaudInputs = {"BAUD_115200"}
  CharSizeInputs = {"CHAR_SIZE_8"}
  ParityInputs = {"PARITY_NONE"}
  StopBitsInputs = {"STOP_BITS_1"}
  FlowInputs = {"FLOW_CONTROL_NONE"}
  OpenInputs <- MCPlainOpenInputs
  CallNames = {"Open", "SetBaudRate", "GetBaudRate"}
  InitSettings <- MCInitSettings
  Failing = {}
  MaxFds = 1
  UnappliedSpeeds = {"BAUD_115200"}
  TxCap = 1
  NoValue = NoValue
SPECIFICATION Spec
INVARIANT BaudRoundTrip
