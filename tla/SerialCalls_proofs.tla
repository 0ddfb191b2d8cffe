-------------------------- MODULE SerialCalls_proofs --------------------------
(***************************************************************************)
(* Proofs that createHciSerial configures the UART as spec.md 3 says and   *)
(* that open() and close() settle as the library reports, for every        *)
(* option object, port list, device id and library outcome SerialArgsOK    *)
(* allows.  Each call sets case and result afresh, so a property of one    *)
(* call (UartConfiguredOf, TransportSettlesOf) is all the induction needs.  *)
(***************************************************************************)
EXTENDS SerialCalls, TLAPS

(* findSerial's port, when it has a path, is one of the listed ports. *)
LEMMA FoundPortListed ==
    ASSUME NEW ports \in Seq(PortInfo), NEW id,
           FindSerial(ports, id).err = "none", FindSerial(ports, id).port.path # Undefined
    PROVE  \E i \in 1..Len(ports) : FindSerial(ports, id).port.path = ports[i].path
<1> DEFINE hci == HciIndices(ports)
           P(i) == HciRank(ports, i) = id
<1>1. hci # {}
  BY DEF FindSerial
<1>2. \E i \in hci : P(i)
  <2>. SUFFICES ASSUME ~\E i \in hci : P(i) PROVE FALSE
    OBVIOUS
  <2>. QED
    BY <1>1 DEF FindSerial, NoPortInfo
<1>3. FindSerial(ports, id).port = ports[CHOOSE i \in hci : P(i)]
  BY <1>1, <1>2 DEF FindSerial
<1>4. (CHOOSE i \in hci : P(i)) \in 1..Len(ports)
  BY <1>2 DEF HciIndices
<1>. QED
  BY <1>3, <1>4

(* createHciSerial configures the device it makes as UartConfigured says. *)
LEMMA CreateConfigured ==
    ASSUME NEW id, NEW s, SerialOptionsOK(s), NEW ports \in Seq(PortInfo)
    PROVE  DeviceConfigured(s, ports, CreateHciSerial(id, s, ports))
<1> DEFINE found == FindSerial(ports, id)
           given == "path" \in DOMAIN s /\ s.path # Undefined
           path == IF given THEN s.path ELSE found.port.path
           baud == IF "baudRate" \in DOMAIN s /\ s.baudRate # 0 THEN s.baudRate ELSE 1000000
           r == CreateHciSerial(id, s, ports)
<1>1. r = IF ~given /\ found.err # "none" THEN [err |-> found.err]
          ELSE IF path = Undefined THEN [err |-> "NoPort"]
          ELSE [err |-> "none",
                options |-> SerialPortOptions(Merge([path |-> path, baudRate |-> baud], s))]
  BY DEF CreateHciSerial
<1>2. given => path = s.path
  OBVIOUS
<1>3. ~given /\ found.err = "none" /\ path # Undefined => \E i \in 1..Len(ports) : path = ports[i].path
  BY FoundPortListed
<1>4. baud = IF "baudRate" \in DOMAIN s /\ s.baudRate > 0 THEN s.baudRate ELSE 1000000
  BY DEF SerialOptionsOK
<1> SUFFICES DeviceConfigured(s, ports, r)
  OBVIOUS
<1> HIDE DEF found, path, baud, r
<1>5. CASE ~given /\ found.err # "none"
  <2>1. r.err # "none"
    BY <1>1, <1>5
  <2>. QED
    BY <1>5, <2>1 DEF DeviceConfigured
<1>6. CASE ~(~given /\ found.err # "none") /\ path = Undefined
  <2>1. r.err # "none"
    BY <1>1, <1>6
  <2>2. ~given
    BY <1>2, <1>6
  <2>. QED
    BY <2>1, <2>2 DEF DeviceConfigured
<1>7. CASE ~(~given /\ found.err # "none") /\ path # Undefined
  <2>1. r.err = "none" /\ r.options = SerialPortOptions(Merge([path |-> path, baudRate |-> baud], s))
    BY <1>1, <1>7
  (* What the constructor makes of the spread {...serial, path, baudRate}. *)
  <2>2. /\ r.options.autoOpen = FALSE /\ r.options.baudRate = baud /\ r.options.path = path
        /\ r.options.parity = IF "parity" \in DOMAIN s THEN s.parity ELSE "none"
        /\ r.options.dataBits = IF "dataBits" \in DOMAIN s THEN s.dataBits ELSE 8
        /\ r.options.stopBits = IF "stopBits" \in DOMAIN s THEN s.stopBits ELSE 1
        /\ r.options.rtscts = IF "rtscts" \in DOMAIN s THEN s.rtscts ELSE TRUE
    <3> DEFINE o == r.options
    <3> DEFINE spread == Merge([path |-> path, baudRate |-> baud], s)
    <3>1. /\ DOMAIN spread = {"path", "baudRate"} \cup DOMAIN s
          /\ spread.path = path /\ spread.baudRate = baud
          /\ \A k \in DOMAIN s \ {"path", "baudRate"} : spread[k] = s[k]
      BY DEF Merge
    <3>2. o = SerialPortOptions(spread)
      BY <2>1
    <3> HIDE DEF spread, Merge
    <3>3. o.autoOpen = FALSE
      BY <3>2 DEF SerialPortOptions
    <3>4. o.baudRate = baud /\ o.path = path
      BY <3>1, <3>2 DEF SerialPortOptions
    <3>5. ASSUME NEW k \in {"parity", "dataBits", "stopBits", "rtscts"}
          PROVE  o[k] = IF k \in DOMAIN s THEN s[k] ELSE SerialDefaults[k]
      <4>1. CASE k \in DOMAIN s
        <5>1. k \in DOMAIN spread /\ spread[k] = s[k]
          BY <3>1, <4>1
        <5>. QED
          BY <3>2, <4>1, <5>1 DEF SerialPortOptions
      <4>2. CASE k \notin DOMAIN s
        <5>1. k \notin DOMAIN spread /\ k \in DOMAIN SerialDefaults
          BY <3>1, <4>2 DEF SerialDefaults
        <5>. QED
          BY <3>2, <4>2, <5>1 DEF SerialPortOptions
      <4>. QED
        BY <4>1, <4>2
    <3>6. /\ SerialDefaults.parity = "none" /\ SerialDefaults.dataBits = 8
          /\ SerialDefaults.stopBits = 1 /\ SerialDefaults.rtscts = TRUE
      BY DEF SerialDefaults
    <3>7. o.parity = IF "parity" \in DOMAIN s THEN s.parity ELSE "none"
      BY <3>5, <3>6
    <3>8. o.dataBits = IF "dataBits" \in DOMAIN s THEN s.dataBits ELSE 8
      BY <3>5, <3>6
    <3>9. o.stopBits = IF "stopBits" \in DOMAIN s THEN s.stopBits ELSE 1
      BY <3>5, <3>6
    <3>10. o.rtscts = IF "rtscts" \in DOMAIN s THEN s.rtscts ELSE TRUE
      BY <3>5, <3>6
    <3>. QED
      BY <3>3, <3>4, <3>7, <3>8, <3>9, <3>10
  <2>3. IF given THEN r.options.path = s.path
        ELSE \E i \in 1..Len(ports) : r.options.path = ports[i].path
    BY <1>2, <1>3, <1>7, <2>2
  <2>4. r.err = "none"
    BY <2>1
  <2>. QED
    BY <1>4, <2>2, <2>3, <2>4 DEF DeviceConfigured
<1>. QED
  BY <1>5, <1>6, <1>7

(* open() and close() settle as TransportSettles says. *)
LEMMA TransportOutcome ==
    ASSUME NEW c, c.op \in {"Open", "Close"}, SerialArgsOK(c)
    PROVE  TransportSettlesOf(c, SerialRun(c))
<1>1. CASE c.op = "Open"
  BY <1>1 DEF SerialArgsOK, OpenOutcomeOK, Note, SerialRun, Open, TransportSettlesOf
<1>2. CASE c.op = "Close"
  BY <1>2 DEF SerialArgsOK, CloseOutcomeOK, Note, SerialRun, Close, TransportSettlesOf
<1>. QED
  BY <1>1, <1>2

(* Every serial call a caller may make leaves both properties true. *)
LEMMA CallCorrect ==
    ASSUME NEW c \in Cases, c.op \in SerialOps
    PROVE  UartConfiguredOf(c, SerialRun(c)) /\ TransportSettlesOf(c, SerialRun(c))
<1>1. SerialArgsOK(c)
  BY SerialCasesAssumption
<1>2. UartConfiguredOf(c, SerialRun(c))
  <2>1. c.op = "CreateHciSerial" =>
          /\ SerialRun(c) = CreateHciSerial(c.arg.deviceId, c.arg.serial, c.arg.ports)
          /\ SerialOptionsOK(c.arg.serial) /\ c.arg.ports \in Seq(PortInfo)
    BY <1>1 DEF SerialRun, SerialArgsOK
  <2>. QED
    BY <2>1, CreateConfigured DEF UartConfiguredOf
<1>3. TransportSettlesOf(c, SerialRun(c))
  BY <1>1, TransportOutcome DEF TransportSettlesOf
<1>. QED
  BY <1>2, <1>3

(***************************************************************************)
(* UART configuration: every device createHciSerial makes has autoOpen     *)
(* off, 8N1 framing, RTS/CTS and 1,000,000 baud wherever the caller left   *)
(* them unset (a zero baud rate included), on the caller's path or on that *)
(* of a listed port; it throws only when no path was given.                *)
(***************************************************************************)
THEOREM SerialConfigured == SerialSpec => []UartConfigured
<1>1. SerialInit => UartConfigured
  BY CallCorrect DEF SerialInit, UartConfigured
<1>2. UartConfigured /\ [SerialCall]_vars => UartConfigured'
  BY CallCorrect DEF SerialCall, UartConfigured, vars
<1>. QED
  BY <1>1, <1>2, PTL DEF SerialSpec

(***************************************************************************)
(* Transport errors propagate unchanged: the promise of open() and of      *)
(* close() resolves exactly when the library succeeded and otherwise       *)
(* rejects with the library's own error.                                   *)
(***************************************************************************)
THEOREM SerialSettles == SerialSpec => []TransportSettles
<1>1. SerialInit => TransportSettles
  BY CallCorrect DEF SerialInit, TransportSettles
<1>2. TransportSettles /\ [SerialCall]_vars => TransportSettles'
  BY CallCorrect DEF SerialCall, TransportSettles, vars
<1>. QED
  BY <1>1, <1>2, PTL DEF SerialSpec

=============================================================================
