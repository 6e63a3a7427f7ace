---------------------------- MODULE MCSerialPort ----------------------------
(***************************************************************************)
(* Instances of SerialPort for TLC: two processes, each with a SerialPort, *)
(* on the two ends of a null-modem (loopback) pair, or both on one device. *)
(***************************************************************************)
EXTENDS SerialPort

CONSTANTS h1, h2, devA, devB

\* h1 on devA, h2 on devB (the spec's loopback scenario)
PairPort == [h \in Handles |-> IF h = h1 THEN devA ELSE devB]
\* both handles on devA
SharedPort == [h \in Handles |-> devA]
\* devA's transmitter feeds devB's receiver and back
CrossWire == [d \in Devices |-> IF d = devA THEN devB ELSE devA]

\* a loopback plug on each device
SelfWire == [d \in Devices |-> d]

MCSpeeds == {"BAUD_9600", "BAUD_115200"}
\* a cooked 8N1 line at 9600 baud without CLOCAL, as a tty starts out
MCInitSettings ==
  [d \in Devices |-> [cflag |-> {"CS_BIT4", "CS_BIT5", "CREAD"}, raw |-> FALSE,
                      ispeed |-> "BAUD_9600", ospeed |-> "BAUD_9600"]]
\* Open(115200, 7 bits, odd parity, 2 stop bits, hardware flow control)
MCOpenInputs ==
  {[BaudRate |-> "BAUD_115200", CharSize |-> "CHAR_SIZE_7", Parity |-> "PARITY_ODD",
    StopBits |-> "STOP_BITS_2", FlowControl |-> "FLOW_CONTROL_HARD"]}

\* Open(9600, 8 bits, no parity, 1 stop bit, no flow control): the line as it is
MCPlainOpenInputs ==
  {[BaudRate |-> "BAUD_9600", CharSize |-> "CHAR_SIZE_8", Parity |-> "PARITY_NONE",
    StopBits |-> "STOP_BITS_1", FlowControl |-> "FLOW_CONTROL_NONE"]}

\* one process opens the line 8N1, the other 7O2 with hardware flow control
MCMixedOpenInputs == MCPlainOpenInputs \cup MCOpenInputs

\* The state without the ghost committed, which no guard reads: for runs
\* that do not check LastSetterWins.
NoCommittedView == <<devVars, kfds, alive, implVars, callVars, sent, recv, want, lastGet>>

AllCalls == DOMAIN ImplThrows
=============================================================================
