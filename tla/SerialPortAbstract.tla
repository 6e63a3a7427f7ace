------------------------- MODULE SerialPortAbstract -------------------------
(***************************************************************************)
(* The Port Handle as the libserial design describes it (spec sections 2,  *)
(* 4 and 8), with every operation one atomic step.                         *)
(*                                                                         *)
(* A handle is closed or open; while open it holds savedSettings, the line *)
(* settings of its device at the time of Open.  A device's line settings   *)
(* are the five configurable fields and whether the polling (raw) mode of  *)
(* Open is on.  Open saves them and turns polling on, Close puts the saved *)
(* ones back (best effort), a setter changes its one field and nothing     *)
(* else, a getter replies with the field's current value, WriteByte queues *)
(* a byte at the receiver the line is wired to, and ReadByte takes the     *)
(* oldest queued byte.  A failing operation changes nothing.               *)
(***************************************************************************)
EXTENDS Sequences

CONSTANTS
  Handles,      \* Port Handles
  Devices,      \* device paths
  Port,         \* Port[h]: the device h is bound to
  Wire,         \* Wire[d]: the device whose receiver d's transmitter feeds
  Bytes,        \* data byte values
  FieldValues,  \* FieldValues[f]: the legal values of configurable field f
  InitLine,     \* InitLine[d]: line settings of d before any Open
  NoValue

Fields == DOMAIN FieldValues
Lines == [Fields \cup {"raw"} -> UNION {FieldValues[f] : f \in Fields} \cup BOOLEAN]

VARIABLES
  descriptorState,  \* "open" or "closed"
  savedSettings,    \* the line saved by Open, NoValue while closed
  line,             \* line[d]: d's line settings
  inq,              \* inq[d]: bytes waiting in d's receiver
  got,              \* got[d]: the bytes ReadByte returned from d, in order
  reply             \* the field and value the last getter replied, or NoValue

vars == <<descriptorState, savedSettings, line, inq, got, reply>>

TypeOK ==
  /\ descriptorState \in [Handles -> {"open", "closed"}]
  /\ savedSettings \in [Handles -> Lines \cup {NoValue}]
  /\ line \in [Devices -> Lines]
  /\ inq \in [Devices -> Seq(Bytes)]
  /\ got \in [Devices -> Seq(Bytes)]
  /\ reply \in [Handles -> [field : Fields, v : UNION {FieldValues[f] : f \in Fields}]
                           \cup {NoValue}]

Init ==
  /\ descriptorState = [h \in Handles |-> "closed"]
  /\ savedSettings = [h \in Handles |-> NoValue]
  /\ line = InitLine
  /\ inq = [d \in Devices |-> <<>>]
  /\ got = [d \in Devices |-> <<>>]
  /\ reply = [h \in Handles |-> NoValue]

IsOpen(h) == descriptorState[h] = "open"

\* A call starts: the reply of the previous one is gone.
Begin(h) ==
  /\ reply' = [reply EXCEPT ![h] = NoValue]
  /\ UNCHANGED <<descriptorState, savedSettings, line, inq, got>>

Open(h) ==
  /\ ~IsOpen(h)
  /\ descriptorState' = [descriptorState EXCEPT ![h] = "open"]
  /\ savedSettings' = [savedSettings EXCEPT ![h] = line[Port[h]]]
  /\ line' = [line EXCEPT ![Port[h]].raw = TRUE]
  /\ UNCHANGED <<inq, got, reply>>

\* Close, or the destructor of an open handle; the restore may not happen.
Close(h) ==
  /\ IsOpen(h)
  /\ descriptorState' = [descriptorState EXCEPT ![h] = "closed"]
  /\ savedSettings' = [savedSettings EXCEPT ![h] = NoValue]
  /\ \/ line' = [line EXCEPT ![Port[h]] = savedSettings[h]]
     \/ UNCHANGED line
  /\ UNCHANGED <<inq, got, reply>>

Set(h) ==
  /\ IsOpen(h)
  /\ \E f \in Fields : \E v \in FieldValues[f] :
       line' = [line EXCEPT ![Port[h]][f] = v]
  /\ UNCHANGED <<descriptorState, savedSettings, inq, got, reply>>

Get(h) ==
  /\ IsOpen(h)
  /\ \E f \in Fields :
       reply' = [reply EXCEPT ![h] = [field |-> f, v |-> line[Port[h]][f]]]
  /\ UNCHANGED <<descriptorState, savedSettings, line, inq, got>>

WriteByte(h) ==
  /\ IsOpen(h)
  /\ \E b \in Bytes : inq' = [inq EXCEPT ![Wire[Port[h]]] = Append(@, b)]
  /\ UNCHANGED <<descriptorState, savedSettings, line, got, reply>>

ReadByte(h) ==
  LET d == Port[h] IN
  /\ IsOpen(h)
  /\ inq[d] # <<>>
  /\ got' = [got EXCEPT ![d] = Append(@, Head(inq[d]))]
  /\ inq' = [inq EXCEPT ![d] = Tail(@)]
  /\ UNCHANGED <<descriptorState, savedSettings, line, reply>>

Next ==
  \E h \in Handles :
    \/ Begin(h) \/ Open(h) \/ Close(h) \/ Set(h) \/ Get(h)
    \/ WriteByte(h) \/ ReadByte(h)

Spec == Init /\ [][Next]_vars

=============================================================================
