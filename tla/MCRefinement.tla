---------------------------- MODULE MCRefinement ----------------------------
(***************************************************************************)
(* SerialPort implements SerialPortAbstract: the refinement mapping reads  *)
(* the abstract line settings off the driver's termios through the         *)
(* getters' decodings, the handle's state off mIsOpen, and its saved       *)
(* settings off mOldPortSettings while the port is open.  A byte is       *)
(* queued at its receiver once write() has put it in the output queue.    *)
(***************************************************************************)
EXTENDS MCSerialPort

\* The five fields and the polling mode of a termios, as the getters see it.
LineOf(s) ==
  [BaudRate |-> GetBaudRateOf(s), CharSize |-> GetCharSizeOf(s),
   Parity |-> GetParityOf(s), StopBits |-> GetNumOfStopBitsOf(s),
   FlowControl |-> GetFlowControlOf(s), raw |-> s.raw]

MCFieldValues ==
  [BaudRate |-> SpeedValues, CharSize |-> DOMAIN CharSizeBits,
   Parity |-> {"PARITY_EVEN", "PARITY_ODD", "PARITY_NONE"},
   StopBits |-> {"STOP_BITS_1", "STOP_BITS_2"},
   FlowControl |-> {"FLOW_CONTROL_HARD", "FLOW_CONTROL_NONE"}]

\* The bytes on their way to d: those still in the output queue of the
\* device wired to it (the wirings are one-to-one).
InFlight(d) ==
  LET q == tx[CHOOSE s \in Devices : Wire[s] = d] IN [i \in 1 .. Len(q) |-> q[i].b]

Abs == INSTANCE SerialPortAbstract WITH
  FieldValues <- MCFieldValues,
  InitLine <- [d \in Devices |-> LineOf(InitSettings[d])],
  descriptorState <- [h \in Handles |-> IF isOpen[h] THEN "open" ELSE "closed"],
  savedSettings <- [h \in Handles |-> IF isOpen[h] THEN LineOf(old[h]) ELSE NoValue],
  line <- [d \in Devices |-> LineOf(dev[d])],
  inq <- [d \in Devices |-> rx[d] \o InFlight(d)],
  got <- recv,
  reply <- lastGet

\* The Port Handle contract of the design (spec sections 2, 4, 8): every
\* step of SerialPort is a step of the abstract port or leaves it as it is.
\* Open saves the line and turns on polling in one step with mIsOpen,
\* setters change only their own field, a failed call changes nothing,
\* Close and ~SerialPort put back what Open saved, and ReadByte returns the
\* oldest byte waiting and removes it.
ImplementsAbstractPort == Abs!Spec

=============================================================================
