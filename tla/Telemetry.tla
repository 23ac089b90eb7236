----------------------------- MODULE Telemetry -----------------------------
(***************************************************************************)
(* examples/iot-telemetry: handleDevice and the store of readings.  Several*)
(* clients may use one device ID (the default of the flag).                *)
(***************************************************************************)
EXTENDS Serving

CONSTANTS
  Keep,      \* readings kept for a device: 1000 in the code
  DeviceOf   \* the device ID a client is started with

ASSUME TelemetryAssumption == Keep \in Nat \ {0}

VARIABLES
  records,  \* telemetryStore.records
  added     \* history: all readings of a device in the order of add

store == <<records, added>>

Devices == {DeviceOf[p] : p \in Peers}

StoreInit == records = [d \in Devices |-> <<>>] /\ added = [d \in Devices |-> <<>>]

Last(s, n) == SubSeq(s, Len(s) - n + 1, Len(s))

\* Mutant: the slice keeps the oldest readings.
TrimOldest(s) == IF Len(s) > Keep THEN SubSeq(s, 1, Keep) ELSE s

Trim(s) == IF Len(s) > Keep THEN Last(s, Keep) ELSE s

\* handleDevice: add and the "ack" command.
Add(p) ==
  LET d == DeviceOf[p]
      reading == [from |-> p, run |-> runs[p], n |-> round[p]]
  IN /\ records' = [records EXCEPT ![d] = Trim(Append(@, reading))]
     /\ added' = [added EXCEPT ![d] = Append(@, reading)]
     /\ Work(p, "sent", "done", reading)

StoreNext ==
  \E p \in Peers :
    \/ (Join(p) \/ ClientStep(p)) /\ UNCHANGED store
    \/ Add(p)
=============================================================================
