\* The spec's loopback test with a loopback plug: h1 on devA, whose transmitter
\* feeds its own receiver.  Open, Close, IsDataAvailable, ReadByte and
\* WriteByte of three bytes (the destructor closes too); an output queue of one
\* byte, so write meets EAGAIN; no failing system call (MCFaults covers those).
CONSTANTS
  h1 = h1
  h2 = h2
  devA = devA
  devB = devB
  Handles = {h1}
  Devices = {devA, devB}
  Port <- PairPort
  Wire <- SelfWire
  Bytes = {x1, x2, x3}
  Speeds <- MCSpeeds
  BaudInputs = {}
  CharSizeInputs = {}
  ParityInputs = {}
  StopBitsInputs = {}
  FlowInputs = {}
  OpenInputs <- MCOpenInputs
  CallNames = {"Open", "Close", "IsDataAvailable", "ReadByte", "WriteByte"}
  InitSettings <- MCInitSettings
  Failing = {}
  MaxFds = 1
  UnappliedSpeeds = {}
  TxCap = 1
  NoValue = NoValue
SPECIFICATION Spec
INVARIANTS ReadsAreDelivered
PROPERTIES ReadByteReturns
