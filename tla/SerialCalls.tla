----------------------------- MODULE SerialCalls -----------------------------
(***************************************************************************)
(* The calls of the serial transport of SerialHci, one after another, over *)
(* the state of CodecCalls.  SerialArgsOK says what their                  *)
(* arguments are, and what serialport hands back: a port list of           *)
(* SerialPort.list(), and the notifications of port.open (an 'open' event  *)
(* then callback(null), or callback(err) alone) and of port.close          *)
(* (callback(null) or callback(err)).  MC_HciCodec runs these calls among  *)
(* the codec's; SerialCalls_proofs proves the properties for every         *)
(* argument.                                                               *)
(***************************************************************************)
EXTENDS SerialHci, CodecCalls

SerialOps == {"CreateHciSerial", "Open", "Close"}

(* The options a caller of createHciSerial may set. *)
OptionKeys == {"path", "baudRate", "parity", "rtscts", "dataBits", "stopBits"}

SerialOptionsOK(s) ==
    /\ DOMAIN s \subseteq OptionKeys
    /\ "path" \in DOMAIN s => s.path \in STRING
    /\ "baudRate" \in DOMAIN s => s.baudRate \in Nat
    /\ "parity" \in DOMAIN s => s.parity \in STRING
    /\ "rtscts" \in DOMAIN s => s.rtscts \in BOOLEAN
    /\ "dataBits" \in DOMAIN s => s.dataBits \in Nat
    /\ "stopBits" \in DOMAIN s => s.stopBits \in Nat

PortInfo == [manufacturer: STRING, vendorId: STRING, productId: STRING, path: STRING]

(* A notification: an event or a callback, with an error or "null". *)
Note(ev, err) == [ev |-> ev, err |-> err]

(* What port.open and port.close may do, with the outcome (ok, error)    *)
(* the library reports.                                                  *)
OpenOutcomeOK(a) ==
    \/ a = [notes |-> <<Note("open", "null"), Note("cb", "null")>>, ok |-> TRUE, error |-> "null"]
    \/ /\ a.error \in STRING \ {"null"}
       /\ a = [notes |-> <<Note("cb", a.error)>>, ok |-> FALSE, error |-> a.error]

CloseOutcomeOK(a) ==
    \/ a = [notes |-> <<Note("cb", "null")>>, ok |-> TRUE, error |-> "null"]
    \/ /\ a.error \in STRING \ {"null"}
       /\ a = [notes |-> <<Note("cb", a.error)>>, ok |-> FALSE, error |-> a.error]

SerialArgsOK(c) ==
    /\ c.op = "CreateHciSerial" =>
          /\ c.arg.deviceId \in Nat
          /\ SerialOptionsOK(c.arg.serial)
          /\ c.arg.ports \in Seq(PortInfo)
    /\ c.op = "Open" => OpenOutcomeOK(c.arg)
    /\ c.op = "Close" => CloseOutcomeOK(c.arg)

ASSUME SerialCasesAssumption == \A c \in Cases : SerialArgsOK(c)

(* The serial call c, as the code makes it. *)
SerialRun(c) ==
    IF c.op = "CreateHciSerial" THEN CreateHciSerial(c.arg.deviceId, c.arg.serial, c.arg.ports)
    ELSE IF c.op = "Open" THEN Open(c.arg.notes)
    ELSE Close(c.arg.notes)

SerialInit == \E c \in Cases : c.op \in SerialOps /\ case = c /\ result = SerialRun(c)

(* A caller makes another serial call. *)
SerialCall == \E c \in Cases : c.op \in SerialOps /\ case' = c /\ result' = SerialRun(c)

SerialSpec == SerialInit /\ [][SerialCall]_vars

(***************************************************************************)
(* UART configuration (spec.md 3, Transport): a device createHciSerial     *)
(* makes is opened explicitly (autoOpen off) with 8N1 framing, RTS/CTS and *)
(* 1,000,000 baud except where the caller set a parity, a flow control, a  *)
(* data or stop bit count or a positive baud rate, on the caller's path    *)
(* or, without one, on the path of a listed port; it throws only when the  *)
(* caller gave no path.                                                    *)
(***************************************************************************)
DeviceConfigured(s, ports, r) ==
    LET o == r.options
        pathGiven == "path" \in DOMAIN s /\ s.path # Undefined
    IN  IF r.err # "none" THEN ~pathGiven
        ELSE /\ o.autoOpen = FALSE
             /\ o.baudRate = IF "baudRate" \in DOMAIN s /\ s.baudRate > 0 THEN s.baudRate ELSE 1000000
             /\ o.parity = IF "parity" \in DOMAIN s THEN s.parity ELSE "none"
             /\ o.dataBits = IF "dataBits" \in DOMAIN s THEN s.dataBits ELSE 8
             /\ o.stopBits = IF "stopBits" \in DOMAIN s THEN s.stopBits ELSE 1
             /\ o.rtscts = IF "rtscts" \in DOMAIN s THEN s.rtscts ELSE TRUE
             /\ IF pathGiven THEN o.path = s.path
                ELSE \E i \in 1..Len(ports) : o.path = ports[i].path

UartConfiguredOf(c, r) ==
    c.op = "CreateHciSerial" => DeviceConfigured(c.arg.serial, c.arg.ports, r)

(* The device of the last createHciSerial call is configured as above. *)
UartConfigured == UartConfiguredOf(case, result)

(***************************************************************************)
(* Transport errors are propagated unchanged (spec.md 7): the promise of   *)
(* open() or close() resolves when the library opened or closed the port,  *)
(* and otherwise rejects with the library's error.                         *)
(***************************************************************************)
TransportSettlesOf(c, r) ==
    c.op \in {"Open", "Close"} =>
        r = IF c.arg.ok THEN [settled |-> "resolved", err |-> "null"]
            ELSE [settled |-> "rejected", err |-> c.arg.error]

(* The last open() or close() settled as the library reported. *)
TransportSettles == TransportSettlesOf(case, result)

=============================================================================
