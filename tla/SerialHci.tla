------------------------------ MODULE SerialHci ------------------------------
(***************************************************************************)
(* The serial transport of src/src/gap/GapEvent.ts: the options            *)
(* SerialHciDevice gives the SerialPort it makes, findSerial,              *)
(* createHciSerial, and how the promises of open() and close() settle.     *)
(* An options object is a function from the keys the caller set to their  *)
(* values (a key left undefined is outside its domain), so o.k ?? d is     *)
(* IF k \in DOMAIN o THEN o[k] ELSE d, and {...a, ...b} is Merge(b, a). The *)
(* serialport library is represented by what it hands back: the port list *)
(* of SerialPort.list(), and the notifications of port.open and           *)
(* port.close, in the order the library makes them (an 'open' event and    *)
(* callbacks, each with an error or "null").                               *)
(***************************************************************************)
EXTENDS Naturals, Sequences, FiniteSets

(* A string that is falsy: an undefined path, or the empty string, which *)
(* !serial.path rejects alike. *)
Undefined == ""

(* A PortInfo a null port gives to ?.path: the path is undefined. *)
NoPortInfo == [manufacturer |-> Undefined, vendorId |-> Undefined, productId |-> Undefined,
               path |-> Undefined]

(* The object f with the keys of g it lacks: {...g, ...f}. *)
Merge(f, g) == [k \in DOMAIN f \cup DOMAIN g |-> IF k \in DOMAIN f THEN f[k] ELSE g[k]]

(* The defaults the SerialHciDevice constructor gives with ??. *)
SerialDefaults ==
    [parity |-> "none", rtscts |-> TRUE, baudRate |-> 1000000, dataBits |-> 8, stopBits |-> 1]

(* The SerialHciDevice constructor: autoOpen forced off, then            *)
(* parity, rtscts, baudRate, dataBits, stopBits defaulted with ??.        *)
SerialPortOptions(options) ==
    [k \in {"autoOpen"} \cup DOMAIN options \cup DOMAIN SerialDefaults |->
       IF k = "autoOpen" THEN FALSE
       ELSE IF k \in DOMAIN options THEN options[k] ELSE SerialDefaults[k]]

(* The filter of findSerial: a SEGGER probe or a Zephyr HCI UART. *)
IsHciPort(port) ==
    port.manufacturer = "SEGGER" \/ (port.vendorId = "2fe3" /\ port.productId = "0100")

(* The positions in portInfos of the ports the filter keeps; the one at  *)
(* position i is hciPortInfos[n] when n of them come before it.          *)
HciIndices(portInfos) == {i \in 1..Len(portInfos) : IsHciPort(portInfos[i])}

HciRank(portInfos, i) == Cardinality({j \in HciIndices(portInfos) : j < i})

(* findSerial: throws when no port passes the filter, else the           *)
(* deviceId-th that does, or null past the end.                          *)
FindSerial(portInfos, deviceId) ==
    LET hci == HciIndices(portInfos) IN
    IF hci = {} THEN [err |-> "NoPort"]
    ELSE [err |-> "none",
          port |-> IF \E i \in hci : HciRank(portInfos, i) = deviceId
                   THEN portInfos[CHOOSE i \in hci : HciRank(portInfos, i) = deviceId]
                   ELSE NoPortInfo]

(* Mutant: createHciSerial without the fallback for a falsy baudRate. *)
CreateHciSerialKeepsBaud(deviceId, serial, portInfos) ==
    LET found == FindSerial(portInfos, deviceId)
        given == "path" \in DOMAIN serial /\ serial.path # Undefined
        path  == IF given THEN serial.path ELSE found.port.path
    IN  IF ~given /\ found.err # "none" THEN [err |-> found.err]
        ELSE IF path = Undefined THEN [err |-> "NoPort"]
        ELSE [err |-> "none", options |-> SerialPortOptions(Merge([path |-> path], serial))]

(* createHciSerial: the path found when none is given (throwing when     *)
(* none is found), baudRate 1000000 when it is falsy, then the device.   *)
CreateHciSerial(deviceId, serial, portInfos) ==
    LET found == FindSerial(portInfos, deviceId)
        given == "path" \in DOMAIN serial /\ serial.path # Undefined
        path  == IF given THEN serial.path ELSE found.port.path
        baud  == IF "baudRate" \in DOMAIN serial /\ serial.baudRate # 0
                 THEN serial.baudRate ELSE 1000000
    IN  IF ~given /\ found.err # "none" THEN [err |-> found.err]
        ELSE IF path = Undefined THEN [err |-> "NoPort"]
        ELSE [err |-> "none",
              options |-> SerialPortOptions(Merge([path |-> path, baudRate |-> baud], serial))]

(* Mutant: open() without the once('open') listener. *)
OpenWithoutListener(notes) ==
    LET cb == CHOOSE i \in 1..Len(notes) :
                 notes[i].ev = "cb" /\ \A j \in 1..i - 1 : notes[j].ev # "cb"
    IN  [settled |-> "rejected", err |-> notes[cb].err]

(* open(): resolved by the port's 'open' event, rejected by the open     *)
(* callback with whatever error it passes, null included; the first      *)
(* notification settles the promise and the later ones are ignored.      *)
Open(notes) ==
    IF notes[1].ev = "open" THEN [settled |-> "resolved", err |-> "null"]
    ELSE [settled |-> "rejected", err |-> notes[1].err]

(* close(): the close callback rejects with its error, or resolves. *)
Close(notes) ==
    IF notes[1].err # "null" THEN [settled |-> "rejected", err |-> notes[1].err]
    ELSE [settled |-> "resolved", err |-> "null"]

=============================================================================
