----------------------------- MODULE SerialPort -----------------------------
(***************************************************************************)
(* The SerialPort / SerialPortImpl classes of libserial (SerialPort.cpp)   *)
(* together with the part of the POSIX terminal driver they drive.         *)
(*                                                                         *)
(* Every SerialPort object lives in a process of its own.  A public call  *)
(* of SerialPort is a sequence of SerialPortImpl calls (Open(params) is    *)
(* five of them); an impl call is one atomic step per system call it       *)
(* makes (open, tcgetattr, tcsetattr + fcntl, ioctl, read, write), so the  *)
(* steps of processes that share a device interleave.  A system call in    *)
(* Failing may fail at every call site.  An exception that leaves a        *)
(* function whose dynamic exception specification does not list it calls  *)
(* std::unexpected, which terminates the process; the kernel then closes   *)
(* the process's descriptors and leaves the device settings as they are.   *)
(*                                                                         *)
(* termios is abstracted to the c_cflag bits the class touches (as a set  *)
(* of flag names, the CSIZE field as its two bits), the two speeds, and    *)
(* "raw": c_lflag = 0, c_oflag = 0, VMIN = VTIME = 0, which Open sets all  *)
(* together and nothing else changes.                                      *)
(***************************************************************************)
EXTENDS Integers, Sequences, SequencesExt, FiniteSets

CONSTANTS
  Handles,         \* SerialPort objects, one per process
  Devices,         \* serial device files
  Port,            \* Port[h]: the device path h was constructed with
  Wire,            \* Wire[d]: the device whose receiver d's transmitter feeds
  Bytes,           \* data byte values
  Speeds,          \* BaudRate values cfsetispeed accepts
  BaudInputs,      \* BaudRate arguments callers pass
  CharSizeInputs,  \* CharacterSize arguments callers pass
  ParityInputs,    \* Parity arguments callers pass
  StopBitsInputs,  \* StopBits arguments callers pass
  FlowInputs,      \* FlowControl arguments callers pass
  OpenInputs,      \* argument records of Open(baud, size, parity, stop, flow)
  CallNames,       \* the public calls callers make
  InitSettings,    \* InitSettings[d]: termios of device d before any open
  Failing,         \* system calls that may fail
  MaxFds,          \* descriptors a process may hold (EMFILE beyond)
  TxCap,           \* bytes the driver's output queue holds (EAGAIN beyond)
  UnappliedSpeeds, \* speeds cfsetispeed accepts that the device cannot run at
  NoValue          \* sentinel

ASSUME Port \in [Handles -> Devices] /\ Wire \in [Devices -> Devices]
ASSUME MaxFds \in Nat \ {0} /\ TxCap \in Nat \ {0}
ASSUME UnappliedSpeeds \subseteq Speeds
ASSUME Failing \subseteq {"open", "tcgetattr", "tcsetattr", "fcntl", "ioctl", "read", "write"}

-----------------------------------------------------------------------------
(* termios                                                                 *)

CSIZE == {"CS_BIT4", "CS_BIT5"}     \* CS6 = 0x10, CS7 = 0x20, CS8 = 0x30
CflagBits == CSIZE \cup {"PARENB", "PARODD", "CSTOPB", "CRTSCTS", "CREAD", "CLOCAL"}
CharSizeBits == [CHAR_SIZE_5 |-> {}, CHAR_SIZE_6 |-> {"CS_BIT4"},
                 CHAR_SIZE_7 |-> {"CS_BIT5"}, CHAR_SIZE_8 |-> CSIZE]
SpeedValues == Speeds \cup {"B0"}
Settings == [cflag : SUBSET CflagBits, raw : BOOLEAN,
             ispeed : SpeedValues, ospeed : SpeedValues]

\* What a character on the line looks like: its speed and the c_cflag bits
\* that frame it.
FrameBits == CSIZE \cup {"PARENB", "PARODD", "CSTOPB"}
Frame(s) == [speed |-> s.ospeed, bits |-> s.cflag \cap FrameBits]

\* mOldPortSettings() in the constructor: a value-initialised (all zero) termios
ZeroSettings == [cflag |-> {}, raw |-> TRUE, ispeed |-> "B0", ospeed |-> "B0"]

\* Open: c_lflag = c_oflag = 0, c_cflag |= CREAD | CLOCAL, VMIN = VTIME = 0
Raw(s) == [s EXCEPT !.raw = TRUE, !.cflag = @ \cup {"CREAD", "CLOCAL"}]

\* What tcsetattr(TCSANOW, s) leaves in the driver of a device whose
\* settings are cur.  POSIX has it succeed when any of the requested changes
\* could be made: a speed the hardware cannot run at is not applied, and the
\* call still returns 0.
Applied(cur, s) ==
  IF s.ispeed \in UnappliedSpeeds
  THEN [s EXCEPT !.ispeed = cur.ispeed, !.ospeed = cur.ospeed]
  ELSE s

\* The read-modify-write of each setter; Thrown(e) when it throws e.
Thrown(e) == [error |-> e]
IsThrown(r) == "error" \in DOMAIN r
SetBaudRateBits(b, s) ==
  IF b \in Speeds THEN [s EXCEPT !.ispeed = b, !.ospeed = b]
                  ELSE Thrown("UnsupportedBaudRate")
\* Mutant: the enum value itself ORed into c_cflag, as if CHAR_SIZE_8 were 8.
SetCharSizeBitsEnumAsBits(c, s) == [s EXCEPT !.cflag = (@ \ CSIZE) \cup {c}]
SetCharSizeBits(c, s) == [s EXCEPT !.cflag = (@ \ CSIZE) \cup CharSizeBits[c]]
\* Mutant: even parity leaves PARODD set.
SetParityBitsEvenKeepsOdd(p, s) ==
  CASE p = "PARITY_EVEN" -> [s EXCEPT !.cflag = @ \cup {"PARENB"}]
    [] p = "PARITY_ODD"  -> [s EXCEPT !.cflag = @ \cup {"PARENB", "PARODD"}]
    [] p = "PARITY_NONE" -> [s EXCEPT !.cflag = @ \ {"PARENB"}]
    [] OTHER             -> Thrown("invalid_argument")
SetParityBits(p, s) ==
  CASE p = "PARITY_EVEN" -> [s EXCEPT !.cflag = (@ \cup {"PARENB"}) \ {"PARODD"}]
    [] p = "PARITY_ODD"  -> [s EXCEPT !.cflag = @ \cup {"PARENB", "PARODD"}]
    [] p = "PARITY_NONE" -> [s EXCEPT !.cflag = @ \ {"PARENB"}]
    [] OTHER             -> Thrown("invalid_argument")
SetNumOfStopBitsBits(n, s) ==
  CASE n = "STOP_BITS_1" -> [s EXCEPT !.cflag = @ \ {"CSTOPB"}]
    [] n = "STOP_BITS_2" -> [s EXCEPT !.cflag = @ \cup {"CSTOPB"}]
    [] OTHER             -> Thrown("invalid_argument")
SetFlowControlBits(f, s) ==
  CASE f = "FLOW_CONTROL_HARD" -> [s EXCEPT !.cflag = @ \cup {"CRTSCTS"}]
    [] f = "FLOW_CONTROL_NONE" -> [s EXCEPT !.cflag = @ \ {"CRTSCTS"}]
    [] OTHER                   -> Thrown("invalid_argument")

\* The decoding of each getter.
GetBaudRateOf(s) == s.ispeed
GetCharSizeOf(s) == CHOOSE c \in DOMAIN CharSizeBits : CharSizeBits[c] = s.cflag \cap CSIZE
GetParityOf(s) ==
  IF "PARENB" \in s.cflag
  THEN IF "PARODD" \in s.cflag THEN "PARITY_ODD" ELSE "PARITY_EVEN"
  ELSE "PARITY_NONE"
GetNumOfStopBitsOf(s) == IF "CSTOPB" \in s.cflag THEN "STOP_BITS_2" ELSE "STOP_BITS_1"
GetFlowControlOf(s) == IF "CRTSCTS" \in s.cflag THEN "FLOW_CONTROL_HARD" ELSE "FLOW_CONTROL_NONE"

Modify(cur, s) ==
  CASE cur.f = "SetBaudRate"      -> SetBaudRateBits(cur.a, s)
    [] cur.f = "SetCharSize"      -> SetCharSizeBits(cur.a, s)
    [] cur.f = "SetParity"        -> SetParityBits(cur.a, s)
    [] cur.f = "SetNumOfStopBits" -> SetNumOfStopBitsBits(cur.a, s)
    [] cur.f = "SetFlowControl"   -> SetFlowControlBits(cur.a, s)

Decode(f, s) ==
  CASE f = "GetBaudRate"      -> GetBaudRateOf(s)
    [] f = "GetCharSize"      -> GetCharSizeOf(s)
    [] f = "GetParity"        -> GetParityOf(s)
    [] f = "GetNumOfStopBits" -> GetNumOfStopBitsOf(s)
    [] f = "GetFlowControl"   -> GetFlowControlOf(s)

SetOps == {"SetBaudRate", "SetCharSize", "SetParity", "SetNumOfStopBits", "SetFlowControl"}
GetOps == {"GetBaudRate", "GetCharSize", "GetParity", "GetNumOfStopBits", "GetFlowControl"}
Fields == {"BaudRate", "CharSize", "Parity", "StopBits", "FlowControl"}
FieldOf == [SetBaudRate |-> "BaudRate", GetBaudRate |-> "BaudRate",
            SetCharSize |-> "CharSize", GetCharSize |-> "CharSize",
            SetParity |-> "Parity", GetParity |-> "Parity",
            SetNumOfStopBits |-> "StopBits", GetNumOfStopBits |-> "StopBits",
            SetFlowControl |-> "FlowControl", GetFlowControl |-> "FlowControl"]

\* tcsetattr failing in a setter: SetBaudRate throws UnsupportedBaudRate,
\* the others std::invalid_argument.
ApplyError(f) == IF f = "SetBaudRate" THEN "UnsupportedBaudRate" ELSE "invalid_argument"

-----------------------------------------------------------------------------
(* Dynamic exception specifications                                        *)

ImplThrows ==
  [Open |-> {"OpenFailed", "AlreadyOpen"}, Close |-> {"NotOpen"},
   SetBaudRate |-> {"NotOpen", "UnsupportedBaudRate", "invalid_argument", "runtime_error"},
   GetBaudRate |-> {"NotOpen", "runtime_error"},
   SetCharSize |-> {"NotOpen", "invalid_argument", "runtime_error"},
   GetCharSize |-> {"NotOpen", "runtime_error"},
   SetParity |-> {"NotOpen", "invalid_argument", "runtime_error"},
   GetParity |-> {"NotOpen"},
   SetNumOfStopBits |-> {"NotOpen", "invalid_argument"},
   GetNumOfStopBits |-> {"NotOpen"},
   SetFlowControl |-> {"NotOpen", "invalid_argument"},
   GetFlowControl |-> {"NotOpen"},
   IsDataAvailable |-> {"NotOpen", "runtime_error"},
   ReadByte |-> {"NotOpen", "runtime_error"},
   WriteByte |-> {"NotOpen", "runtime_error"}]

ApiThrows ==
  [Open |-> {"OpenFailed", "AlreadyOpen", "UnsupportedBaudRate", "invalid_argument"},
   Close |-> {"NotOpen"},
   SetBaudRate |-> {"UnsupportedBaudRate", "NotOpen", "invalid_argument"},
   GetBaudRate |-> {"NotOpen", "runtime_error"},
   SetCharSize |-> {"NotOpen", "invalid_argument"},
   GetCharSize |-> {"NotOpen"},
   SetParity |-> {"NotOpen", "invalid_argument"},
   GetParity |-> {"NotOpen"},
   SetNumOfStopBits |-> {"NotOpen", "invalid_argument"},
   GetNumOfStopBits |-> {"NotOpen"},
   SetFlowControl |-> {"NotOpen", "invalid_argument"},
   GetFlowControl |-> {"NotOpen"},
   IsDataAvailable |-> {"NotOpen"},
   ReadByte |-> {"NotOpen", "runtime_error"},
   WriteByte |-> {"NotOpen", "runtime_error"}]

Exceptions == UNION {ImplThrows[f] : f \in DOMAIN ImplThrows}
-----------------------------------------------------------------------------
(* State                                                                   *)

VARIABLES
  dev,      \* dev[d]: termios the driver holds for device d
  rx,       \* rx[d]: bytes queued in d's receive buffer
  tx,       \* tx[d]: bytes written to d not yet on the line, each with the
            \* framing in effect when its write returned (ghost)
  kfds,     \* kfds[h]: descriptors open in h's process
  alive,    \* alive[h]: the SerialPort object h exists
  isOpen,   \* SerialPortImpl::mIsOpen
  fd,       \* SerialPortImpl::mFileDescriptor
  old,      \* SerialPortImpl::mOldPortSettings
  loc,      \* the local port_settings of the impl call in progress
  api,      \* the public SerialPort call in progress, or NoValue
  todo,     \* the impl calls it has left, the current one first
  step,     \* where the current impl call is
  exc,      \* how h's last public call ended: "ok", an exception, "terminate"
  sent,     \* ghost: sent[d], the bytes that arrived at d, in order
  recv,     \* ghost: recv[d], the bytes ReadByte returned from d, in order
  want,     \* ghost: want[h][f], the value of field f the caller last set
  lastGet,  \* ghost: the field and value the last getter of h returned
  committed \* ghost: committed[d][f], the value of field f the last successful
            \* setter on d wrote, until a Close restores d's settings

devVars == <<dev, rx, tx>>
implVars == <<isOpen, fd, old, loc>>
callVars == <<api, todo, step, exc>>
ghostVars == <<sent, recv, want, lastGet, committed>>
vars == <<devVars, kfds, alive, implVars, callVars, ghostVars>>

FdNums == 3 .. (2 + MaxFds)
Steps == {"idle", "start", "save", "apply", "poll", "read"}
Written == UNION {ToSet(sent[d]) : d \in Devices}
NoWant == [f \in Fields |-> NoValue]

\* The public calls a caller may make, with their arguments.
Calls ==
  {[name |-> "Open", arg |-> a] : a \in OpenInputs}
  \cup {[name |-> "SetBaudRate", arg |-> b] : b \in BaudInputs}
  \cup {[name |-> "SetCharSize", arg |-> c] : c \in CharSizeInputs}
  \cup {[name |-> "SetParity", arg |-> p] : p \in ParityInputs}
  \cup {[name |-> "SetNumOfStopBits", arg |-> n] : n \in StopBitsInputs}
  \cup {[name |-> "SetFlowControl", arg |-> f] : f \in FlowInputs}
  \cup {[name |-> g, arg |-> NoValue] :
          g \in GetOps \cup {"Close", "IsDataAvailable", "ReadByte"}}
  \cup {[name |-> "WriteByte", arg |-> b] : b \in Bytes}

\* SerialPort::Open(baud, size, parity, stop, flow) and the one-line
\* forwarding wrappers: the impl calls a public call makes, in order.
ImplCalls(c) ==
  IF c.name = "Open"
  THEN << [f |-> "Open", a |-> NoValue],
          [f |-> "SetCharSize", a |-> c.arg.CharSize],
          [f |-> "SetParity", a |-> c.arg.Parity],
          [f |-> "SetNumOfStopBits", a |-> c.arg.StopBits],
          [f |-> "SetFlowControl", a |-> c.arg.FlowControl] >>
  ELSE << [f |-> c.name, a |-> c.arg] >>

ArgValues ==
  Bytes \cup BaudInputs \cup CharSizeInputs \cup ParityInputs \cup StopBitsInputs
  \cup FlowInputs \cup UNION {{a[f] : f \in Fields} : a \in OpenInputs} \cup {NoValue}

TypeOK ==
  /\ dev \in [Devices -> Settings]
  /\ rx \in [Devices -> Seq(Bytes)]
  /\ tx \in [Devices -> Seq([b : Bytes, frame : [speed : SpeedValues, bits : SUBSET FrameBits]])]
  /\ kfds \in [Handles -> SUBSET FdNums]
  /\ alive \in [Handles -> BOOLEAN]
  /\ isOpen \in [Handles -> BOOLEAN]
  /\ fd \in [Handles -> FdNums \cup {-1}]
  /\ old \in [Handles -> Settings]
  /\ loc \in [Handles -> Settings \cup {NoValue}]
  /\ api \in [Handles -> Calls \cup {NoValue}]
  /\ \A h \in Handles : todo[h] \in Seq([f : DOMAIN ImplThrows, a : ArgValues])
  /\ step \in [Handles -> Steps]
  /\ exc \in [Handles -> Exceptions \cup {"ok", "terminate"}]
  /\ sent \in [Devices -> Seq(Bytes)]
  /\ recv \in [Devices -> Seq(Bytes)]
  /\ want \in [Handles -> [Fields -> ArgValues]]
  /\ committed \in [Devices -> [Fields -> ArgValues]]
  /\ lastGet \in [Handles -> [field : Fields, v : BaudInputs \cup SpeedValues \cup
        DOMAIN CharSizeBits \cup ParityInputs \cup StopBitsInputs \cup FlowInputs
        \cup {"PARITY_ODD", "PARITY_EVEN", "PARITY_NONE", "STOP_BITS_1",
              "STOP_BITS_2", "FLOW_CONTROL_HARD", "FLOW_CONTROL_NONE"}]
        \cup {NoValue}]

\* SerialPort(name) / SerialPortImpl(name): closed, mFileDescriptor = -1.
Init ==
  /\ dev = InitSettings
  /\ rx = [d \in Devices |-> <<>>]
  /\ tx = [d \in Devices |-> <<>>]
  /\ kfds = [h \in Handles |-> {}]
  /\ alive = [h \in Handles |-> TRUE]
  /\ isOpen = [h \in Handles |-> FALSE]
  /\ fd = [h \in Handles |-> -1]
  /\ old = [h \in Handles |-> ZeroSettings]
  /\ loc = [h \in Handles |-> NoValue]
  /\ api = [h \in Handles |-> NoValue]
  /\ todo = [h \in Handles |-> <<>>]
  /\ step = [h \in Handles |-> "idle"]
  /\ exc = [h \in Handles |-> "ok"]
  /\ sent = [d \in Devices |-> <<>>]
  /\ recv = [d \in Devices |-> <<>>]
  /\ want = [h \in Handles |-> NoWant]
  /\ lastGet = [h \in Handles |-> NoValue]
  /\ committed = [d \in Devices |-> NoWant]
-----------------------------------------------------------------------------
(* Call and return                                                         *)

Cur(h) == Head(todo[h])

\* The exceptions that may leave the current impl call: those that the impl
\* function, its SerialPort wrapper and the public call in progress all list.
Allowed(h) == ImplThrows[Cur(h).f] \cap ApiThrows[Cur(h).f] \cap ApiThrows[api[h].name]

\* The caller's view of the settings once the current impl call returns:
\* a successful public setter or Open(params) sets what it was given; the
\* impl Open starts a session in which nothing has been set yet.
WantAfter(h) ==
  CASE Tail(todo[h]) = <<>> /\ api[h].name = "Open"  -> api[h].arg
    [] Tail(todo[h]) = <<>> /\ api[h].name \in SetOps ->
          [want[h] EXCEPT ![FieldOf[api[h].name]] = api[h].arg]
    [] Cur(h).f = "Open" -> NoWant
    [] OTHER -> want[h]

\* The current impl call returns normally; the next one of the public call
\* starts, or the public call returns.
Return(h) ==
  LET rest == Tail(todo[h]) IN
  /\ todo' = [todo EXCEPT ![h] = rest]
  /\ step' = [step EXCEPT ![h] = IF rest = <<>> THEN "idle" ELSE "start"]
  /\ api' = [api EXCEPT ![h] = IF rest = <<>> THEN NoValue ELSE @]
  /\ exc' = [exc EXCEPT ![h] = IF rest = <<>> THEN "ok" ELSE @]
  /\ want' = [want EXCEPT ![h] = WantAfter(h)]

\* The current impl call throws e.  It reaches the caller and ends the public
\* call (the rest of Open(params) is skipped, nothing is rolled back), or,
\* if a dynamic exception specification on the way does not list it,
\* std::unexpected terminates the process and the kernel closes its files.
Fail(h, e) ==
  /\ todo' = [todo EXCEPT ![h] = <<>>]
  /\ step' = [step EXCEPT ![h] = "idle"]
  /\ api' = [api EXCEPT ![h] = NoValue]
  /\ UNCHANGED want
  /\ IF e \in Allowed(h)
     THEN /\ exc' = [exc EXCEPT ![h] = e]
          /\ UNCHANGED <<alive, kfds, isOpen>>
     ELSE /\ exc' = [exc EXCEPT ![h] = "terminate"]
          /\ alive' = [alive EXCEPT ![h] = FALSE]
          /\ isOpen' = [isOpen EXCEPT ![h] = FALSE]
          /\ kfds' = [kfds EXCEPT ![h] = {}]

MayFail(call) == call \in Failing

\* A public call of SerialPort starts.
Call(h) ==
  /\ alive[h]
  /\ api[h] = NoValue
  /\ \E c \in Calls :
       /\ c.name \in CallNames
       /\ c.name = "WriteByte" => c.arg \notin Written   \* bytes are told apart
       /\ api' = [api EXCEPT ![h] = c]
       /\ todo' = [todo EXCEPT ![h] = ImplCalls(c)]
       /\ step' = [step EXCEPT ![h] = "start"]
  /\ lastGet' = [lastGet EXCEPT ![h] = NoValue]
  /\ UNCHANGED <<devVars, kfds, alive, implVars, exc, sent, recv, want, committed>>

-----------------------------------------------------------------------------
(* SerialPortImpl::Open                                                    *)

\* Mutant: Open without the IsOpen() check.
OpenFileNoAlreadyOpenCheck(h) ==
  /\ api[h] # NoValue /\ Cur(h).f = "Open" /\ step[h] = "start"
  /\ \/ /\ MayFail("open") \/ kfds[h] = FdNums
        /\ fd' = [fd EXCEPT ![h] = -1]
        /\ Fail(h, "OpenFailed")
     \/ /\ kfds[h] # FdNums
        /\ LET n == Min(FdNums \ kfds[h]) IN
             /\ fd' = [fd EXCEPT ![h] = n]
             /\ kfds' = [kfds EXCEPT ![h] = @ \cup {n}]
        /\ step' = [step EXCEPT ![h] = "save"]
        /\ UNCHANGED <<alive, isOpen, api, todo, exc, want>>
  /\ UNCHANGED <<devVars, old, loc, sent, recv, lastGet, committed>>

\* if IsOpen() throw AlreadyOpen; mFileDescriptor = open(name, O_RDWR |
\* O_NOCTTY | O_NONBLOCK); throw OpenFailed if it fails.
OpenFile(h) ==
  /\ api[h] # NoValue /\ Cur(h).f = "Open" /\ step[h] = "start"
  /\ \/ /\ isOpen[h]
        /\ Fail(h, "AlreadyOpen")
        /\ UNCHANGED fd
     \/ /\ ~isOpen[h]
        /\ MayFail("open") \/ kfds[h] = FdNums
        /\ fd' = [fd EXCEPT ![h] = -1]
        /\ Fail(h, "OpenFailed")
     \/ /\ ~isOpen[h]
        /\ kfds[h] # FdNums
        /\ LET n == Min(FdNums \ kfds[h]) IN
             /\ fd' = [fd EXCEPT ![h] = n]
             /\ kfds' = [kfds EXCEPT ![h] = @ \cup {n}]
        /\ step' = [step EXCEPT ![h] = "save"]
        /\ UNCHANGED <<alive, isOpen, api, todo, exc, want>>
  /\ UNCHANGED <<devVars, old, loc, sent, recv, lastGet, committed>>

\* Mutant: mOldPortSettings is taken once the raw settings are in place.
OpenSaveAfterRaw(h) ==
  /\ api[h] # NoValue /\ Cur(h).f = "Open" /\ step[h] = "save"
  /\ \/ /\ MayFail("tcgetattr")
        /\ Fail(h, "OpenFailed")
        /\ UNCHANGED old
     \/ /\ old' = [old EXCEPT ![h] = Raw(dev[Port[h]])]
        /\ step' = [step EXCEPT ![h] = "apply"]
        /\ UNCHANGED <<alive, kfds, isOpen, api, todo, exc, want>>
  /\ UNCHANGED <<devVars, fd, loc, sent, recv, lastGet, committed>>

\* tcgetattr(mFileDescriptor, &mOldPortSettings); throw OpenFailed if it fails.
OpenSave(h) ==
  /\ api[h] # NoValue /\ Cur(h).f = "Open" /\ step[h] = "save"
  /\ \/ /\ MayFail("tcgetattr")
        /\ Fail(h, "OpenFailed")
        /\ UNCHANGED old
     \/ /\ old' = [old EXCEPT ![h] = dev[Port[h]]]
        /\ step' = [step EXCEPT ![h] = "apply"]
        /\ UNCHANGED <<alive, kfds, isOpen, api, todo, exc, want>>
  /\ UNCHANGED <<devVars, fd, loc, sent, recv, lastGet, committed>>

\* port_settings = Raw(mOldPortSettings); tcsetattr(TCSANOW); fcntl(F_SETOWN);
\* each throws OpenFailed when it fails; then mIsOpen = true.
OpenApply(h) ==
  LET d == Port[h] IN
  /\ api[h] # NoValue /\ Cur(h).f = "Open" /\ step[h] = "apply"
  /\ \/ /\ MayFail("tcsetattr")
        /\ Fail(h, "OpenFailed")
        /\ UNCHANGED dev
     \/ /\ dev' = [dev EXCEPT ![d] = Applied(@, Raw(old[h]))]
        /\ MayFail("fcntl")
        /\ Fail(h, "OpenFailed")
     \/ /\ dev' = [dev EXCEPT ![d] = Applied(@, Raw(old[h]))]
        /\ isOpen' = [isOpen EXCEPT ![h] = TRUE]
        /\ Return(h)
        /\ UNCHANGED <<alive, kfds>>
  /\ UNCHANGED <<rx, tx, fd, old, loc, sent, recv, lastGet, committed>>

\* tcsetattr(mFileDescriptor, TCSANOW, &mOldPortSettings), its result
\* ignored: the device gets the settings saved by Open, or keeps its own.
Restore(h) ==
  \/ /\ dev' = [dev EXCEPT ![Port[h]] = Applied(@, old[h])]
     /\ committed' = [committed EXCEPT ![Port[h]] = NoWant]
  \/ MayFail("tcsetattr") /\ UNCHANGED <<dev, committed>>

\* Mutant: Close without restoring mOldPortSettings.
CloseStepNoRestore(h) ==
  /\ api[h] # NoValue /\ Cur(h).f = "Close"
  /\ \/ ~isOpen[h] /\ Fail(h, "NotOpen")
     \/ /\ isOpen[h]
        /\ kfds' = [kfds EXCEPT ![h] = @ \ {fd[h]}]
        /\ isOpen' = [isOpen EXCEPT ![h] = FALSE]
        /\ Return(h)
        /\ UNCHANGED alive
  /\ UNCHANGED <<devVars, fd, old, loc, sent, recv, lastGet, committed>>

\* if !IsOpen() throw NotOpen; tcsetattr(mOldPortSettings), its result
\* ignored; close(mFileDescriptor); mIsOpen = false.
CloseStep(h) ==
  LET d == Port[h] IN
  /\ api[h] # NoValue /\ Cur(h).f = "Close"
  /\ \/ /\ ~isOpen[h]
        /\ Fail(h, "NotOpen")
        /\ UNCHANGED <<dev, committed>>
     \/ /\ isOpen[h]
        /\ Restore(h)
        /\ kfds' = [kfds EXCEPT ![h] = @ \ {fd[h]}]
        /\ isOpen' = [isOpen EXCEPT ![h] = FALSE]
        /\ Return(h)
        /\ UNCHANGED alive
  /\ UNCHANGED <<rx, tx, fd, old, loc, sent, recv, lastGet>>
-----------------------------------------------------------------------------
(* Setters and getters                                                     *)

\* if !IsOpen() throw NotOpen; tcgetattr into port_settings (runtime_error
\* if it fails); modify it, or throw for an argument the switch rejects.
SetRead(h) ==
  LET cur == Cur(h)
      new == Modify(cur, dev[Port[h]]) IN
  /\ api[h] # NoValue /\ cur.f \in SetOps /\ step[h] = "start"
  /\ \/ /\ ~isOpen[h]
        /\ Fail(h, "NotOpen")
        /\ UNCHANGED loc
     \/ /\ isOpen[h] /\ MayFail("tcgetattr")
        /\ Fail(h, "runtime_error")
        /\ UNCHANGED loc
     \/ /\ isOpen[h] /\ IsThrown(new)
        /\ Fail(h, new.error)
        /\ UNCHANGED loc
     \/ /\ isOpen[h] /\ ~IsThrown(new)
        /\ loc' = [loc EXCEPT ![h] = new]
        /\ step' = [step EXCEPT ![h] = "apply"]
        /\ UNCHANGED <<alive, kfds, isOpen, api, todo, exc, want>>
  /\ UNCHANGED <<devVars, fd, old, sent, recv, lastGet, committed>>

\* Ghost: a setter's tcsetattr succeeded; its field is now what it set.
Commit(h) ==
  committed' = [committed EXCEPT ![Port[h]][FieldOf[Cur(h).f]] = Cur(h).a]

\* Mutant: the settings are applied even when tcsetattr reports failure.
SetApplyDespiteError(h) ==
  /\ api[h] # NoValue /\ Cur(h).f \in SetOps /\ step[h] = "apply"
  /\ dev' = [dev EXCEPT ![Port[h]] = Applied(@, loc[h])]
  /\ \/ MayFail("tcsetattr") /\ Fail(h, ApplyError(Cur(h).f)) /\ UNCHANGED committed
     \/ Return(h) /\ Commit(h) /\ UNCHANGED <<alive, kfds, isOpen>>
  /\ loc' = [loc EXCEPT ![h] = NoValue]
  /\ UNCHANGED <<rx, tx, fd, old, sent, recv, lastGet>>

\* tcsetattr(TCSANOW, &port_settings); UnsupportedBaudRate (SetBaudRate) or
\* invalid_argument (the others) if it fails.
SetApply(h) ==
  /\ api[h] # NoValue /\ Cur(h).f \in SetOps /\ step[h] = "apply"
  /\ \/ /\ MayFail("tcsetattr")
        /\ Fail(h, ApplyError(Cur(h).f))
        /\ UNCHANGED <<dev, committed>>
     \/ /\ dev' = [dev EXCEPT ![Port[h]] = Applied(@, loc[h])]
        /\ Commit(h)
        /\ Return(h)
        /\ UNCHANGED <<alive, kfds, isOpen>>
  /\ loc' = [loc EXCEPT ![h] = NoValue]     \* port_settings goes out of scope
  /\ UNCHANGED <<rx, tx, fd, old, sent, recv, lastGet>>

\* if !IsOpen() throw NotOpen; tcgetattr (runtime_error if it fails);
\* decode the field from c_cflag or the input speed.
GetStep(h) ==
  LET f == Cur(h).f IN
  /\ api[h] # NoValue /\ f \in GetOps
  /\ \/ /\ ~isOpen[h]
        /\ Fail(h, "NotOpen")
        /\ UNCHANGED lastGet
     \/ /\ isOpen[h] /\ MayFail("tcgetattr")
        /\ Fail(h, "runtime_error")
        /\ UNCHANGED lastGet
     \/ /\ isOpen[h]
        /\ lastGet' = [lastGet EXCEPT ![h] =
                         [field |-> FieldOf[f], v |-> Decode(f, dev[Port[h]])]]
        /\ Return(h)
        /\ UNCHANGED <<alive, kfds, isOpen>>
  /\ UNCHANGED <<devVars, fd, old, loc, sent, recv, committed>>

-----------------------------------------------------------------------------
(* Data transfer                                                           *)

\* if !IsOpen() throw NotOpen; ioctl(FIONREAD), runtime_error if it fails;
\* the answer (count > 0) is not part of the state.
IsDataAvailableStep(h) ==
  /\ api[h] # NoValue /\ Cur(h).f = "IsDataAvailable"
  /\ \/ ~isOpen[h] /\ Fail(h, "NotOpen")
     \/ isOpen[h] /\ MayFail("ioctl") /\ Fail(h, "runtime_error")
     \/ isOpen[h] /\ Return(h) /\ UNCHANGED <<alive, kfds, isOpen>>
  /\ UNCHANGED <<devVars, fd, old, loc, sent, recv, lastGet, committed>>

\* Mutant: the wait loop tests count > 1 instead of count > 0.
ReadPollOffByOne(h) ==
  /\ api[h] # NoValue /\ Cur(h).f = "ReadByte" /\ step[h] \in {"start", "poll"}
  /\ \/ ~isOpen[h] /\ Fail(h, "NotOpen")
     \/ isOpen[h] /\ MayFail("ioctl") /\ Fail(h, "runtime_error")
     \/ /\ isOpen[h]
        /\ step' = [step EXCEPT ![h] = IF Len(rx[Port[h]]) > 1 THEN "read" ELSE "poll"]
        /\ UNCHANGED <<alive, kfds, isOpen, api, todo, exc, want>>
  /\ UNCHANGED <<devVars, fd, old, loc, sent, recv, lastGet, committed>>

\* ReadByte: if !IsOpen() throw NotOpen; then while(!IsDataAvailable()) ;
\* one step is one test of the loop (IsOpen and ioctl(FIONREAD)).
ReadPoll(h) ==
  /\ api[h] # NoValue /\ Cur(h).f = "ReadByte" /\ step[h] \in {"start", "poll"}
  /\ \/ ~isOpen[h] /\ Fail(h, "NotOpen")
     \/ isOpen[h] /\ MayFail("ioctl") /\ Fail(h, "runtime_error")
     \/ /\ isOpen[h]
        /\ step' = [step EXCEPT ![h] = IF Len(rx[Port[h]]) > 0 THEN "read" ELSE "poll"]
        /\ UNCHANGED <<alive, kfds, isOpen, api, todo, exc, want>>
  /\ UNCHANGED <<devVars, fd, old, loc, sent, recv, lastGet, committed>>

\* Mutant: the byte is returned but left in the queue.
ReadReadNoConsume(h) ==
  LET d == Port[h] IN
  /\ api[h] # NoValue /\ Cur(h).f = "ReadByte" /\ step[h] = "read"
  /\ \/ MayFail("read") /\ Fail(h, "runtime_error") /\ UNCHANGED recv
     \/ /\ rx[d] # <<>>
        /\ recv' = [recv EXCEPT ![d] = Append(@, Head(rx[d]))]
        /\ Return(h)
        /\ UNCHANGED <<alive, kfds, isOpen>>
  /\ UNCHANGED <<devVars, fd, old, loc, sent, lastGet, committed>>

\* Mutant: read's error return is not checked; the uninitialised byte is
\* returned and the queued byte stays for the next read.
ReadReadIgnoresFailure(h) ==
  LET d == Port[h] IN
  /\ api[h] # NoValue /\ Cur(h).f = "ReadByte" /\ step[h] = "read"
  /\ \/ /\ MayFail("read") \/ rx[d] = <<>>
        /\ \E b \in Bytes : recv' = [recv EXCEPT ![d] = Append(@, b)]
        /\ UNCHANGED rx
     \/ /\ rx[d] # <<>>
        /\ rx' = [rx EXCEPT ![d] = Tail(@)]
        /\ recv' = [recv EXCEPT ![d] = Append(@, Head(rx[d]))]
  /\ Return(h)
  /\ UNCHANGED <<alive, kfds, dev, tx, implVars, sent, lastGet, committed>>

\* read(mFileDescriptor, &data_byte, 1); runtime_error only if it returns
\* < 0.  With VMIN = VTIME = 0 a read of an empty queue returns 0, and the
\* uninitialised data_byte is returned: any byte value.
ReadRead(h) ==
  LET d == Port[h] IN
  /\ api[h] # NoValue /\ Cur(h).f = "ReadByte" /\ step[h] = "read"
  /\ \/ /\ MayFail("read")
        /\ Fail(h, "runtime_error")
        /\ UNCHANGED <<rx, recv>>
     \/ /\ rx[d] # <<>>
        /\ rx' = [rx EXCEPT ![d] = Tail(@)]
        /\ recv' = [recv EXCEPT ![d] = Append(@, Head(rx[d]))]
        /\ Return(h)
        /\ UNCHANGED <<alive, kfds, isOpen>>
     \/ /\ rx[d] = <<>>
        /\ \E b \in Bytes : recv' = [recv EXCEPT ![d] = Append(@, b)]
        /\ Return(h)
        /\ UNCHANGED <<alive, kfds, isOpen, rx>>
  /\ UNCHANGED <<dev, tx, fd, old, loc, sent, lastGet, committed>>

\* if !IsOpen() throw NotOpen; write(mFileDescriptor, &dataByte, 1),
\* runtime_error if it fails.  On the O_NONBLOCK descriptor write queues
\* the byte in the driver's output queue and returns, or fails with EAGAIN
\* when the queue is full.
WriteStep(h) ==
  LET d == Port[h]
      b == Cur(h).a IN
  /\ api[h] # NoValue /\ Cur(h).f = "WriteByte"
  /\ \/ /\ ~isOpen[h]
        /\ Fail(h, "NotOpen")
        /\ UNCHANGED <<tx, sent>>
     \/ /\ isOpen[h] /\ (MayFail("write") \/ Len(tx[d]) = TxCap)
        /\ Fail(h, "runtime_error")
        /\ UNCHANGED <<tx, sent>>
     \/ /\ isOpen[h] /\ Len(tx[d]) < TxCap
        /\ tx' = [tx EXCEPT ![d] = Append(@, [b |-> b, frame |-> Frame(dev[d])])]
        /\ sent' = [sent EXCEPT ![Wire[d]] = Append(@, b)]
        /\ Return(h)
        /\ UNCHANGED <<alive, kfds, isOpen>>
  /\ UNCHANGED <<dev, rx, fd, old, loc, recv, lastGet, committed>>

\* The UART of d shifts the oldest queued byte onto the line, with the
\* settings d has now; it arrives in the receive queue of the device the
\* line is wired to.  This goes on after close(): the driver drains.  With
\* CRTSCTS (SetFlowControl(FLOW_CONTROL_HARD)) the UART sends only while its
\* CTS is raised, that is while the far end's RTS is: the driver raises RTS
\* when a descriptor of that port is open and drops it on the last close
\* (HUPCL, the default, which no code here clears).
PeerReady(d) == \E h \in Handles : Port[h] = Wire[d] /\ kfds[h] # {}

Transmit(d) ==
  /\ tx[d] # <<>>
  /\ "CRTSCTS" \in dev[d].cflag => PeerReady(d)
  /\ tx' = [tx EXCEPT ![d] = Tail(@)]
  /\ rx' = [rx EXCEPT ![Wire[d]] = Append(@, Head(tx[d]).b)]
  /\ UNCHANGED <<dev, kfds, alive, implVars, callVars, ghostVars>>

-----------------------------------------------------------------------------
(* Object lifetime and process exit                                        *)

\* ~SerialPort: if IsOpen() Close() (the restore may fail unnoticed), then
\* delete the impl, whose destructor finds it closed.
Destroy(h) ==
  LET d == Port[h] IN
  /\ alive[h] /\ api[h] = NoValue
  /\ IF isOpen[h]
     THEN /\ Restore(h)
          /\ kfds' = [kfds EXCEPT ![h] = @ \ {fd[h]}]
     ELSE UNCHANGED <<dev, kfds, committed>>
  /\ alive' = [alive EXCEPT ![h] = FALSE]
  /\ isOpen' = [isOpen EXCEPT ![h] = FALSE]
  /\ UNCHANGED <<rx, tx, fd, old, loc, callVars, sent, recv, want, lastGet>>

\* The process constructs a new SerialPort on the same path.
Construct(h) ==
  /\ ~alive[h]
  /\ alive' = [alive EXCEPT ![h] = TRUE]
  /\ fd' = [fd EXCEPT ![h] = -1]
  /\ old' = [old EXCEPT ![h] = ZeroSettings]
  /\ loc' = [loc EXCEPT ![h] = NoValue]
  /\ want' = [want EXCEPT ![h] = NoWant]
  /\ UNCHANGED <<devVars, kfds, isOpen, callVars, sent, recv, lastGet, committed>>

\* A process without a SerialPort exits; the kernel closes what it leaked.
Exit(h) ==
  /\ ~alive[h] /\ kfds[h] # {}
  /\ kfds' = [kfds EXCEPT ![h] = {}]
  /\ UNCHANGED <<devVars, alive, implVars, callVars, ghostVars>>

-----------------------------------------------------------------------------

\* The steps of a public call in progress: the process runs its code.
Run(h) ==
  \/ OpenFile(h) \/ OpenSave(h) \/ OpenApply(h) \/ CloseStep(h)
  \/ SetRead(h) \/ SetApply(h) \/ GetStep(h)
  \/ IsDataAvailableStep(h) \/ ReadPoll(h) \/ ReadRead(h) \/ WriteStep(h)

Next ==
  \/ \E h \in Handles :
       \/ Call(h) \/ Run(h) \/ Destroy(h) \/ Construct(h) \/ Exit(h)
  \/ \E d \in Devices : Transmit(d)

\* A process that is in a call keeps running, and a UART with bytes queued
\* keeps sending them while it may (CTS raised, when CRTSCTS is set); only
\* weak fairness: a CTS that keeps dropping need not let a byte through;
\* callers, destruction and process exit are not obliged to happen.
Fairness ==
  /\ \A h \in Handles : WF_vars(Run(h))
  /\ \A d \in Devices : WF_vars(Transmit(d))

Spec == Init /\ [][Next]_vars /\ Fairness

-----------------------------------------------------------------------------
(* Properties                                                              *)

Idle(h) == api[h] = NoValue

\* "A Port Handle holds at most one live OS descriptor" and "destruction ...
\* guarantees no descriptor leak": between calls, a process holds exactly the
\* descriptor of its open port, and none while the port is closed or gone
\* (Open's failure paths after open(), Close, ~SerialPort).
OwnsOnlyItsDescriptor ==
  \A h \in Handles :
    Idle(h) => kfds[h] = IF isOpen[h] THEN {fd[h]} ELSE {}

\* Open saves the device's settings and Close restores them: once no process
\* holds a descriptor of a device and none is in a call, the device has the
\* settings it had before anyone opened it.
RestoredAfterLastClose ==
  \A d \in Devices :
    (\A h \in Handles : Port[h] = d => kfds[h] = {} /\ Idle(h))
      => dev[d] = InitSettings[d]

\* Set then Get round-trips (spec section 8): a getter for character size,
\* parity, stop bits or flow control returns the value the caller last set,
\* by the setter or by Open(params), in this session.
ConfigRoundTrip ==
  \A h \in Handles :
    /\ lastGet[h] # NoValue
    /\ lastGet[h].field # "BaudRate"
    /\ want[h][lastGet[h].field] # NoValue
    => lastGet[h].v = want[h][lastGet[h].field]

\* The same for the baud rate: GetBaudRate returns the rate last set by
\* SetBaudRate or by Open(params), which the spec says applies it first.
BaudRoundTrip ==
  \A h \in Handles :
    /\ lastGet[h] # NoValue
    /\ lastGet[h].field = "BaudRate"
    /\ want[h]["BaudRate"] # NoValue
    => lastGet[h].v = want[h]["BaudRate"]

\* The value of field f in termios s, as its getter decodes it.
FieldValue(f, s) ==
  Decode(CHOOSE g \in GetOps : FieldOf[g] = f, s)

\* "Modify only the relevant bitfield ... so unrelated settings are
\* preserved" (spec section 4), for every writer of the device: each field
\* a setter on d successfully set keeps that value until a later setter sets
\* it again or a Close restores d.  The read-modify-write of the setters
\* (tcgetattr ... tcsetattr) and Open's raw tcsetattr of the settings it
\* saved may write back a stale copy of the other fields.
LastSetterWins ==
  \A d \in Devices, f \in Fields :
    committed[d][f] # NoValue => FieldValue(f, dev[d]) = committed[d][f]

\* WriteByte writes one byte "unbuffered" (spec 4.4): a byte goes onto the
\* line with the frame (speed, character size, parity, stop bits) the port
\* had when write() returned.  write() only queues it in the driver, and
\* Close's restore and every setter apply their settings with TCSANOW, so a
\* later reconfiguration overtakes the bytes still in the output queue.
FramedAsWritten ==
  [][\A d \in Devices : Transmit(d) => Head(tx[d]).frame = Frame(dev[d])]_vars

\* The loopback scenario: ReadByte on a device returns the bytes that
\* arrived at it, in order, none lost, repeated or made up.
ReadsAreDelivered ==
  \A d \in Devices : IsPrefix(recv[d], sent[d])

\* Every failure is surfaced to the caller as an exception (spec section 7):
\* no call ends the process through std::unexpected.
NoTerminate ==
  \A h \in Handles : exc[h] # "terminate"

\* A byte is on its way to d: waiting in d's receive queue, or in the output
\* queue of a device wired to d, where write() left it.
Inbound(d) == rx[d] # <<>> \/ \E s \in Devices : Wire[s] = d /\ tx[s] # <<>>

\* ReadByte's busy-wait ends: once a byte has been written towards the device
\* of a process spinning in ReadByte (write() returned, the UART may not have
\* sent it yet), the call returns, with the byte or an exception.
ReadByteReturns ==
  \A h \in Handles :
    (~Idle(h) /\ api[h].name = "ReadByte" /\ Inbound(Port[h])) ~> Idle(h)

=============================================================================
