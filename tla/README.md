# TLA+ models of libserial's SerialPort

This directory models `src/libserial/src/SerialPort.cpp`, libserial's POSIX
serial-port class, together with the parts of the terminal driver and the
process it relies on. It contains TLA+ modules, TLC configurations, and
`PROJECT.json`, which holds the machine-readable inventory: components, runs,
mutants, the map from definitions to source lines, findings and hazards.

## 1. The system

### Components and their state

| Component | State | Operations |
|---|---|---|
| `SerialPort` (public class) | a pointer to its `SerialPortImpl` | constructor; destructor (closes the port if it is open); `Open(baud, size, parity, stop, flow)`; `IsOpen`, `Close`; five Set/Get pairs; `IsDataAvailable`, `ReadByte`, `WriteByte`. All of them forward to the impl except `Open(params)`, which calls `Impl::Open` and then `SetCharSize`, `SetParity`, `SetNumOfStopBits`, `SetFlowControl` |
| `SerialPortImpl` | `mSerialPortName`, `mIsOpen`, `mFileDescriptor`, `mOldPortSettings` (the termios saved by Open) | `Open`: `open(O_NONBLOCK)`, `tcgetattr` into `mOldPortSettings`, `tcsetattr` raw (lflag = oflag = 0, CREAD\|CLOCAL, VMIN = VTIME = 0), `fcntl(F_SETOWN)`, set `mIsOpen`. `Close`: `tcsetattr(mOldPortSettings)` (result ignored), `close`. Setters: `tcgetattr`, edit one c_cflag field, `tcsetattr`. Getters: `tcgetattr`, decode. `IsDataAvailable`: `ioctl(FIONREAD)`. `ReadByte`: spin on `IsDataAvailable`, then `read` 1 byte. `WriteByte`: `write` 1 byte |
| Enumerations (`SerialPort.h`) | none | BaudRate, CharacterSize, Parity, StopBits, FlowControl map onto termios constants. The header is not among the sources |
| Terminal driver and process (environment) | each device's termios, output queue and receive queue; each process's descriptor table | every system call above may fail. `write` on the `O_NONBLOCK` descriptor only queues the byte, and fails with EAGAIN when the queue is full; the UART sends queued bytes with whatever frame the device has when it sends them. Process exit closes descriptors but does not restore termios |

### How the components interact

The components interact only through calls. `SerialPort` forwards to
`SerialPortImpl`, which makes system calls. The class has no threads, no
callbacks and no locks. What runs concurrently is other processes: the OS
lets any number of processes open the same tty (the code uses neither
`O_EXCL` nor `TIOCEXCL`), and they share that device's termios and receive
queue. The spec's loopback scenario has two handles on the two ends of a
null-modem pair.

### What makes this code hard

- **Failure in the middle of a multi-step call.** `Open` makes four system
  calls. A failure after `open()` throws with the descriptor still open and
  `mIsOpen` false.
- **Dynamic exception specifications.** Several functions throw a
  `runtime_error` that their `throw(...)` list does not name. C++ then calls
  `std::unexpected`, which terminates the process.
- **Interleaving of processes that share a device.**
  - Open and Close save and restore the device's settings.
  - Each setter is a read, an edit and a write of the device's termios.
  - `ReadByte` tests `FIONREAD` and then reads.
- **Liveness.** `ReadByte` busy-waits with no timeout.
- **A driver that sends later.** `write` returns once the byte is queued,
  while `tcsetattr(TCSANOW)`, used by Close and by every setter, takes effect
  at once, on bytes still queued too.
- **A driver that applies part of a request.** POSIX `tcsetattr` succeeds
  when any of the requested changes was made. `SetBaudRate` never reads the
  speed back.

### Properties that make each component correct

- **Lifecycle:**
  - A process holds exactly the descriptor of its open port, and none when the port is closed or destroyed.
  - Once every descriptor is closed, the device has its original settings.
  - No failure terminates the process.
- **Accessors:**
  - A getter returns the value last set by the caller, through the setter or through `Open(params)`.
  - A field a setter set keeps that value until a later setter sets it or a Close restores the device, whoever else writes the device's settings.
- **Data transfer:**
  - `ReadByte` returns exactly the bytes that arrived, in order.
  - A `ReadByte` returns once a byte has been written towards it, whether the byte is already in its receive queue or still in the sender's output queue.
  - A byte goes out with the frame the port had when `WriteByte` wrote it.

## 2. Modules

### `SerialPort.tla`: the class pair and the driver it uses

Constants:
- `Handles`: one `SerialPort` object per process.
- `Devices`, `Port` (the device each handle was constructed with) and `Wire` (how transmitters feed receivers).
- `Bytes`, the input sets for each argument, and `OpenInputs`.
- `CallNames`: the public calls that callers make.
- `InitSettings`.
- `Failing`: the system calls that may fail.
- `MaxFds`: the per-process descriptor limit.
- `TxCap`: the size of a device's output queue.
- `UnappliedSpeeds`: speeds `cfsetispeed` accepts but the device cannot run at. `Applied` is the driver's side of `tcsetattr`: it keeps the old speed for those and still reports success.

State:
- `dev`, `rx`, `tx`: the driver's termios, receive queue and output queue for each device. An entry of `tx` is the byte and its `Frame`, the speed and the CSIZE/PARENB/PARODD/CSTOPB bits the device had when `write` returned (the frame is a ghost).
- `kfds`: the descriptors open in each process.
- `alive`, `isOpen` (`mIsOpen`), `fd` (`mFileDescriptor`), `old` (`mOldPortSettings`), `loc`: a call's local `port_settings`.
- `api`, `todo`, `step`: the public call in progress, the impl calls it has left, and the position inside the current one.
- `exc`: how the last public call ended.
- Ghost variables:
  - `sent`, `recv`: the bytes that arrived at and were read from each device.
  - `want`: what the caller last set.
  - `lastGet`: what a getter last returned.
  - `committed`: for each device, the value of each field that the last successful setter on it wrote (`Commit`). A Close that restores the device clears it (`Restore`).

termios is abstracted as follows:
- `c_cflag` is a set of flag names, with CSIZE as its two bits.
- The two speeds are kept.
- `raw` stands for lflag = oflag = 0 and VMIN = VTIME = 0. Open sets these together, and nothing else touches them.

Actions. Each action is one system call of the code and carries that call's failure branches:
- `Call(h)`: a public call starts. `ImplCalls` turns it into impl calls; `Open(params)` becomes five.
- `OpenFile`, `OpenSave`, `OpenApply`: `Impl::Open`'s `open`, `tcgetattr`, and `tcsetattr` + `fcntl`.
- `CloseStep`.
- `SetRead` (`tcgetattr` plus the bit edit `Set*Bits`) and `SetApply` (`tcsetattr`; the local `port_settings` then goes out of scope).
- `GetStep` (`tcgetattr` plus the decoding `Get*Of`).
- `IsDataAvailableStep`.
- `ReadPoll`: one iteration of the `FIONREAD` loop.
- `ReadRead`: `read`. If `read` returns 0, any byte value is returned, because `data_byte` is uninitialised.
- `WriteStep`: `write` queues the byte in `tx`, or fails (a `Failing` write, or EAGAIN when `tx` holds `TxCap` bytes).
- `Transmit(d)`: the environment's UART sends the head of `tx[d]` to the receive queue of `Wire[d]`. With `CRTSCTS` set (`SetFlowControl(FLOW_CONTROL_HARD)`) it sends only while its CTS is raised, that is while a descriptor of the far end's port is open (`PeerReady`): the driver raises RTS when a port is opened and drops it on the last close, because `HUPCL` is on by default and no code here clears it.
- `Destroy` (`~SerialPort`), `Construct` (a new object in the same process), and `Exit` (a process without an object exits, and the kernel closes what it leaked).

An exception thrown by an impl call goes through `Fail(h, e)`:
- If the impl function, its wrapper and the public call all list `e`, the exception reaches the caller. The rest of `Open(params)` is skipped and nothing is rolled back.
- Otherwise the process terminates: its descriptors are closed and `dev` is left as it is.

`MCSerialPort.tla` instantiates the module for TLC. It defines:
- the pair wiring (`PairPort`, `CrossWire`), the shared-device wiring (`SharedPort`) and a loopback plug (`SelfWire`);
- the initial settings: cooked 8N1 at 9600 baud, without CLOCAL;
- three Open argument records: 7O2 with hardware flow control, the plain 8N1 line, and both;
- `NoCommittedView`, the state without the ghost `committed`. Runs that do not check `LastSetterWins` use it as their VIEW. No guard reads `committed`, so the VIEW merges only states that behave alike.

### `SerialPortAbstract.tla`: the Port Handle the design describes

Each handle has `descriptorState` and `savedSettings` (spec section 2), and each device has a `line` and a receive queue `inq`. A line is the five configurable fields plus the polling (raw) mode. Each operation is one atomic step:
- `Open` saves the line and turns polling on.
- `Close` puts the saved line back; the restore is best effort and may not happen.
- `Set` changes one field and nothing else.
- `Get` sets `reply` to the current value.
- `WriteByte` queues a byte at the wired receiver.
- `ReadByte` takes the oldest queued byte.
- `Begin` forgets the last reply when a call starts.

A failing call is a stutter step: it changes nothing.

### `MCRefinement.tla`: SerialPort implements it

`Abs == INSTANCE SerialPortAbstract WITH` a refinement mapping:
- `descriptorState` comes from `mIsOpen`.
- `savedSettings` is `mOldPortSettings` while open, and nothing while closed.
- `line` is the driver's termios, decoded by the getters' own `Get*Of`, plus the raw flag.
- `inq[d]` is `rx[d]` followed by the bytes still queued in the output queue of the device wired to `d` (`InFlight`): the abstract `WriteByte` queues at the receiver, so a byte counts as arriving when `write` returns. `got` is `recv`, and `reply` is `lastGet`.

`ImplementsAbstractPort == Abs!Spec` is checked as a PROPERTY.

How the steps correspond:
- `OpenApply` is the abstract `Open`. `OpenFile` and `OpenSave` change nothing the abstract spec sees.
- `SetApply` is a `Set`, and `GetStep` is a `Get`.
- `CloseStep` and `Destroy` are a `Close`. So is a process terminating: `mIsOpen` goes false and the device is not restored.
- `WriteStep` is a `WriteByte`, and `Transmit` is a stutter.
- All other steps are stutters.

### Fairness

`Spec` has weak fairness on `Run(h)`, the steps of a call already in progress: a process inside a call keeps executing its code. It also has weak fairness on `Transmit(d)`: a UART with bytes queued keeps sending them while its CTS allows. This is only weak fairness: a CTS that keeps dropping need not let a byte through. `ReadByteReturns` needs nothing stronger, because a reader waiting in `ReadByte` holds its port open, and so keeps the sender's CTS raised. Three things are not assumed to happen:
- callers calling;
- processes destroying their objects or exiting;
- callers writing bytes (a `Transmit` needs a byte queued by `WriteByte`).

The code gives no reason to assume them.

## 3. Runs

| Run | cfg | Bounds | Checks | Result |
|---|---|---|---|---|
| config | MCConfig.cfg | 1 process; every call; 3 bauds, 2 sizes, 4 parities, 3 stop, 3 flow inputs (each with an invalid one); open/read/write fail; MaxFds 2 | TypeOK, OwnsOnlyItsDescriptor, RestoredAfterLastClose, ConfigRoundTrip | pass (1.5M states, 75 s) |
| loopback | MCLoopback.cfg | h1 on devA with a loopback plug; Open/Close/IsDataAvailable/ReadByte/WriteByte (and the destructor); 3 bytes; output queue of 1; no failures | ReadsAreDelivered, ReadByteReturns | pass (7.5k states, a few seconds) |
| faults | MCFaults.cfg | 1 process with a loopback plug; every syscall fails; reduced inputs; MaxFds 2 | ConfigRoundTrip | pass (3.9M states, 2 min) |
| read_faults | MCReadFaults.cfg | 1 process with a loopback plug; Open(plain)/Close/IsDataAvailable/ReadByte/WriteByte; 3 bytes; every syscall fails; MaxFds 2 | ReadsAreDelivered | pass (113k states, a few seconds) |
| leak | MCLeak.cfg | tcgetattr fails | OwnsOnlyItsDescriptor | violation |
| unexpected | MCUnexpected.cfg | tcgetattr fails; GetParity | NoTerminate | violation |
| shared_restore | MCSharedRestore.cfg | 2 processes open/close devA | RestoredAfterLastClose | violation |
| shared_read | MCSharedRead.cfg | 2 readers on devA | ReadsAreDelivered | violation |
| refinement | MCRefinement.cfg | 1 process on devA (plug); every call; the plain Open record; one changing value for baud, size, parity; every syscall but fcntl fails; MaxFds 2 | ImplementsAbstractPort | pass (2.0M states, about 2 min) |
| lost_update | MCLostUpdate.cfg | 2 processes on devA run Open(params), one 8N1 and one 7O2 | LastSetterWins | violation |
| baud_unapplied | MCBaudUnapplied.cfg | Open, SetBaudRate(115200), GetBaudRate; the device cannot run at 115200 | BaudRoundTrip | violation |
| drain | MCDrain.cfg | 1 process: Open(115200, 7O2, hardware flow control), which leaves the rate at 9600 (finding 1); WriteByte; Close or destroy; output queue of 1 | FramedAsWritten | violation |

Why these bounds are enough:
- Two processes are the fewest that can interleave.
- Two bytes are the fewest that can be reordered or lost without being noticed; the loopback and read_faults runs write three, so that a write meets a full queue with bytes on both sides of it.
- Every setter input set has three legal values or more where a field has that many, plus an invalid one, so the bit edits meet every earlier value of their field.
- MaxFds 2 lets leaked descriptors reach EMFILE.
- `TxCap` 1 is the smallest queue that both holds a byte across a later call and fills up, so the EAGAIN branch of `write` is taken.
- The loopback run uses one process on a plug rather than two on a crossed pair: two processes on different devices share nothing but the wire, and the wire's own steps (`Transmit`) interleave with the caller's here. With two crossed processes and two bytes the liveness check takes longer than five minutes. On the plug, CTS is raised whenever the port is open, so no loopback run sees hardware flow control hold a byte back. Only the drain trace does.

The passing runs between them fire every action and every branch. Each property of each passing run has a mutant in `PROJECT.json`, an operator defined just before the definition it replaces, which TLC must catch.

### Findings (violation runs)

1. **Open ignores its baud rate.** `SerialPort::Open(params)` never calls `SetBaudRate` (line 219). The spec says it applies the rate first. An earlier run (open_baud: `Open(115200, ...)` then `GetBaudRate`) showed it against `BaudRoundTrip`; it was retired for the drain run, since any unit test of `Open(params)` catches this one, and `BaudRoundTrip` is still checked by baud_unapplied. `ImplCalls` keeps the missing call missing.
2. **Failed Open leaks a descriptor.** Failing `tcgetattr`, `tcsetattr` or `fcntl` inside `Open` leaks the descriptor (line 398). The device is also left raw if `fcntl` fails.
3. **A `tcgetattr` failure terminates the process.** `SerialPortImpl::SetCharSize` throws `runtime_error` when `tcgetattr` fails, and `SerialPort::SetCharSize` (line 263) forwards it through a `throw()` list that does not name it. The process terminates, also when this happens inside `Open(params)`. `GetParity` (line 687) and seven more functions do the same.
4. **Shared device left raw.** Two processes on one device save each other's raw settings, so closing in opening order leaves the device raw (line 396). The spec is silent on shared devices.
5. **Uninitialised byte returned.** With two readers of one device, `read` can return 0 after `FIONREAD` reported data, and `ReadByte` returns an uninitialised byte (line 896).
6. **A setter of one process is undone by another.** Open writes back the raw form of a snapshot taken earlier (line 432), and every setter writes back its own copy. A setter of another process in between is lost, although it returned normally. The trace: two `Open(params)` calls on one device, where the second process's `SetCharSize(7)` is reverted by the first one's raw `tcsetattr`. The spec assumes one owner per descriptor, but the code does not enforce it.
7. **A refused baud rate is reported as set.** `tcsetattr` succeeds when any of the changes was made, and `SetBaudRate` does not read the speed back (line 528). On a device that cannot run at the rate, the call returns normally and the old rate stays. The spec calls this mismatch an `UnsupportedBaudRate` failure.

8. **A byte can go out with the wrong frame.** `Close` restores `mOldPortSettings` with `tcsetattr(TCSANOW)` (line 476) without draining the output queue. A byte written just before Close is sent at the restored speed and framing, and a setter (`TCSANOW`, line 528 and alike) does the same to the bytes ahead of it. The spec says `WriteByte` writes the byte unbuffered. `TCSADRAIN`, or `tcdrain` before the restore, would keep the frame. In the trace TLC finds, Open(115200, 7O2, hardware flow control) has applied everything but the rate, and the far end is closed, so hardware flow control holds the byte while the port is open. The destructor's restore clears `CRTSCTS`, and the byte leaves at 8N1.

## 4. Not modelled, and why

- **Error message strings:** wording only.
- **SIGIO/SIGURG delivery set up by `F_SETOWN`:** `O_ASYNC` is never set, so no signal is delivered. Only the failure of `fcntl` is modelled.
- **Enumeration constants of `SerialPort.h`:** the header is not among the sources. Character sizes are taken as CS5..CS8 from the spec; the other values are names.
- **Modem lines other than RTS/CTS (DTR, carrier):** `CLOCAL` is set by Open, so carrier is ignored, and no code here reads or drives DTR.
- **Input discarded by the kernel:** Linux drops bytes that reach a port with no descriptor open and flushes the input queue on the last close; the model keeps them in `rx`. `ReadsAreDelivered` is therefore about bytes that reach a port while it is open, which is what the code's reader sees.
- **Hangup (device removed):** afterwards `ioctl`, `tcgetattr`, `tcsetattr` and `write` fail and `read` returns 0. Each of these is already a behaviour of the faults and read_faults runs (`Failing` holds every system call), so a hangup adds no behaviour of the code.
- **Baud-rate mismatch between the ends of the line, and line noise:** these are properties of the wire, not the code.
- **Refinement limits.**
  - The refinement run leaves out `fcntl` failures: Open then fails with the device already raw, which no abstract step allows (finding 2).
  - It checks one process. With two processes on one device, findings 4 and 6 already show that the abstract contract does not hold.
  - Only the plain Open record is used, so that the run stays at about two minutes. `Open(params)` still runs all four of its setters.

## 5. Plan

The order puts the most important behaviour first.
- Sitting 1 completed items 1–3.
- Sitting 2 completed items 4–6, and fixed `GetStep`, whose terminating branch had been disabled by an UNCHANGED on `isOpen`.
- Sitting 3 completed item 9: the driver's output queue, the drain run and finding 8.
- Sitting 4 completed item 10 and closed items 7 and 8 (see below).
- After review: the shared run was dropped, because descriptor ownership only changes in a process's own actions, so a second process could not affect it. Its slot went to read_faults, which checks `ReadsAreDelivered` under failures with three bytes; with one byte a lost byte could not be seen. The hazards of descriptor exhaustion, of Open's step order and of the flow-control hold were taken off the list: no run of this code shows them as a hazard of its own.

1. `SerialPort.tla`: lifecycle, accessors and data transfer, with system-call failures and exception specifications.
2. Runs: config, loopback, faults, and the violation runs leak, unexpected, shared_restore and shared_read (open_baud later retired).
3. Hazards in `PROJECT.json`.
4. `LastSetterWins`, with the ghost `committed`, and the lost_update run (the hazards at lines 663 and 432).
5. `SerialPortAbstract.tla` and `MCRefinement.tla`, with the refinement run.
6. The partial-success `tcsetattr` (`UnappliedSpeeds`) and the baud_unapplied run (line 528).
7. A `Hangup` event, where the device goes away. Closed without a new action: its behaviours are those of failing system calls, which the faults and read_faults runs already explore (see Not modelled).
8. Liveness of the abstract port. Closed: the abstract operations are atomic steps that callers choose to take, so the abstract spec has no pending `ReadByte` that fairness could oblige to complete. The obligation stays where the busy-wait is, as `ReadByteReturns` on `SerialPort`.
9. The output queue `tx`, `Transmit` and `FramedAsWritten`, with the drain run (line 476); the EAGAIN branch of `write` (line 913).
10. Hardware flow control in `Transmit` (`CRTSCTS`, line 804), and `ReadByteReturns` extended to bytes still in the sender's output queue.
