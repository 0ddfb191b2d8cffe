----------------------------- MODULE MC_HciCodec -----------------------------
(***************************************************************************)
(* Checks the codec of HciCodec and the router of EventRouter against the *)
(* wire layouts of spec.md (4.1, 6, 8) and of the Bluetooth Core           *)
(* specification.  A state is one call of an encoder, framer, decoder or   *)
(* of onData on one input (case) and what it returned (result); a step     *)
(* makes another call.  The properties parse what an encoder wrote with a  *)
(* reference reader written from the wire layout, compare a decoder's      *)
(* verdict with the length the layout requires, and compare what onData    *)
(* did with what the layout of the packet says it must do.                 *)
(***************************************************************************)
EXTENDS LeStates, EventRouter, SerialCalls, DecodeCalls, FiniteSets

(* The call c, as the code makes it. *)
Run(c) ==
    LET a == c.arg IN
    CASE c.op = "LeSetRandomAddress"              -> LeSetRandomAddress(a.addr)
      [] c.op = "LeSetAdvertisingParameters"      -> LeSetAdvertisingParameters(a)
      [] c.op = "LeSetAdvertisingData"            -> LeSetAdvertisingData(a.data)
      [] c.op = "LeSetScanResponseData"           -> LeSetScanResponseData(a.data)
      [] c.op = "LeSetAdvertisingEnable"          -> LeSetAdvertisingEnable(a.enable)
      [] c.op = "LeSetExtendedScanResponseData"   -> LeSetExtendedScanResponseData(a)
      [] c.op = "LeSetScanEnable"                 -> LeSetScanEnable(a.enable, a.filterDuplicates)
      [] c.op = "LeWriteSuggestedDefaultDataLength" -> LeWriteSuggestedDefaultDataLength(a)
      [] c.op = "LeSetDefaultPhy"                 -> LeSetDefaultPhy(a)
      [] c.op = "LeSetAdvertisingSetRandomAddress" -> LeSetAdvertisingSetRandomAddress(a)
      [] c.op = "LeSetExtendedAdvertisingParameters" -> LeSetExtendedAdvertisingParameters(a)
      [] c.op = "LeSetExtendedAdvertisingData"    -> LeSetExtendedAdvertisingData(a)
      [] c.op = "LeSetExtendedScanParameters"     -> LeSetExtendedScanParameters(a)
      [] c.op = "LeSetExtendedScanEnable"         -> LeSetExtendedScanEnable(a)
      [] c.op = "BuildBuffer"                     -> BuildBuffer(a.opcode, a.payload)
      [] c.op = "BuildCommand"                    -> BuildCommand(a.opcode, a.payload)
      [] c.op = "GroupCommand"                    -> LET cmd == GroupCommand(a.group, a)
                                                     IN  BuildCommand(cmd.opcode, cmd.payload)
      [] c.op = "SendAclData"                     -> SendAclData(a)
      [] c.op = "LeSupportedStates"               -> SupportedStateNames(a.rp)
      [] IsDecoder(c)                             -> DecodeRun(c)
      [] c.op \in SerialOps                       -> SerialRun(c)
      [] c.op = "OnData"                          -> OnData(a.pt, a.frame, a.listeners)

Init ==
    \E c \in Cases : case = c /\ result = Run(c)

(* A caller makes another call. *)
Call ==
    \E c \in Cases : case' = c /\ result' = Run(c)

Spec == Init /\ [][Call]_vars

CodecTypeOK ==
    /\ case \in Cases
    /\ result \in [out: Seq([kind: {"cmdResult", "deliver"}, label: STRING, listener: Nat,
                              vals: Seq(Nat), bytes: Seq(0..255)]), threw: BOOLEAN]
                \cup [err: {"none", "RangeError", "InvalidPayloadSize", "InvalidCommandParameter"},
                   bytes: Seq(Junk..255)]
                \cup [err: {"none"}, fields: Seq(Seq(0..255))]
                \cup [err: {"none"}, bytes: {<<>>}, names: Seq(Seq(STRING))]
                \cup [err: {"none"}, options: [autoOpen: BOOLEAN, path: STRING, baudRate: Nat,
                                               dataBits: Nat, stopBits: Nat, parity: STRING,
                                               rtscts: BOOLEAN]]
                \cup [err: {"NoPort"}] \cup [settled: {"resolved", "rejected"}, err: STRING]

-----------------------------------------------------------------------------
(***************************************************************************)
(* The reference reader.  A layout is a sequence of fields, each of width  *)
(* w bytes at consecutive offsets, with what the caller passed for it and  *)
(* how the wire represents it:                                             *)
(*   "u"    unsigned little-endian;  "i"  two's complement;                *)
(*   "bits" the set of ordinals whose bit is set;                          *)
(*   "t625", "t10", "t128" the nearest count of 0.625 ms, 10 ms or 1.28 s  *)
(*          ticks to a time in ms, ms or s;                                *)
(*   "raw"  the bytes themselves;  "zero"  w zero bytes;                    *)
(*   "acl"  an ACL header: handle in bits 0-11, boundary 12-13, broadcast  *)
(*          14-15;  "opcode"  an OGF in bits 10-15 over an OCF in 0-9.      *)
(***************************************************************************)
F(w, kind, val) == [w |-> w, kind |-> kind, val |-> val]

Abs(x) == IF x < 0 THEN -x ELSE x

RECURSIVE ReadU(_, _, _)
ReadU(b, off, w) == IF w = 0 THEN 0 ELSE b[off + 1] + 256 * ReadU(b, off + 1, w - 1)

NearTick(kind, t, x) ==
    CASE kind = "t625" -> Abs(10 * t - 16 * x) <= 5     \* |t * 0.625 - x| <= 0.3125
      [] kind = "t10"  -> Abs(10 * t - x) <= 5
      [] kind = "t128" -> Abs(128 * t - 100 * x) <= 64

(* The largest value of a w-byte field (any model integer fits 4 bytes or more). *)
MaxU(w) == IF w >= 4 THEN 2^30 + (2^30 - 1) ELSE 2^(8 * w) - 1

(* The caller's value has a representation in a field of width w. *)
Representable(f) ==
    CASE f.kind \in {"u", "bits"} -> f.kind = "bits" \/ (0 <= f.val /\ f.val <= MaxU(f.w))
      [] f.kind = "i"             -> -(2^(8 * f.w - 1)) <= f.val /\ f.val < 2^(8 * f.w - 1)
      [] f.kind \in {"t625", "t10", "t128"} ->
            \E t \in {0, MaxU(f.w)} \cup {(16 * f.val) \div 10, (f.val \div 10),
                                        (100 * f.val) \div 128} :
                \E d \in {0, 1} : t + d <= MaxU(f.w) /\ NearTick(f.kind, t + d, f.val)
      [] f.kind = "acl"           -> f.val.handle \in 0..4095 /\ f.val.boundary \in 0..3
                                     /\ f.val.broadcast \in 0..3
      [] f.kind = "opcode"        -> f.val.ogf \in 0..63 /\ f.val.ocf \in 0..1023
      [] OTHER -> f.w <= 255

(* The offset of field i of layout L: the widths of the fields before it. *)
Offset(L, i) == LET off[j \in 1..i] == IF j = 1 THEN 0 ELSE off[j - 1] + L[j - 1].w IN off[i]

(* The field is read back from bytes b at offset off as the caller's value. *)
ReadsAs(b, off, f) ==
    LET v == ReadU(b, off, f.w) IN
    CASE f.kind = "u"    -> v = f.val
      [] f.kind = "i"    -> (IF v >= 2^(8 * f.w - 1) THEN v - 2^(8 * f.w) ELSE v) = f.val
      [] f.kind = "bits" -> {k \in 0..(8 * f.w - 1) : (v \div 2^k) % 2 = 1} = f.val
      [] f.kind = "raw"  -> SubSeq(b, off + 1, off + f.w) = f.val
      [] f.kind = "zero" -> \A k \in off + 1..off + f.w : b[k] = 0
      [] f.kind = "acl"  -> /\ v % 4096 = f.val.handle
                            /\ (v \div 4096) % 4 = f.val.boundary
                            /\ v \div 16384 = f.val.broadcast
      [] f.kind = "opcode" -> v \div 1024 = f.val.ogf /\ v % 1024 = f.val.ocf
      [] OTHER           -> NearTick(f.kind, v, f.val)

Parses(b, L) ==
    /\ Len(b) = Offset(L, Len(L) + 1)
    /\ \A k \in 1..Len(b) : b[k] \in 0..255
    /\ \A i \in 1..Len(L) : ReadsAs(b, Offset(L, i), L[i])

Set(s) == {s[i] : i \in DOMAIN s}

(* The wire layouts of spec.md 4.1 and 6 and of the Core specification.   *)
Layout(c) ==
    LET a == c.arg IN
    CASE c.op = "LeSetRandomAddress" -> <<F(6, "u", a.addr)>>
      [] c.op = "LeSetAdvertisingParameters" ->
            <<F(2, "t625", a.intervalMinMs), F(2, "t625", a.intervalMaxMs), F(1, "u", a.advertisingType),
              F(1, "u", a.ownAddressType), F(1, "u", a.peerAddressType), F(6, "u", a.peerAddress),
              F(1, "bits", Set(a.channelMap)), F(1, "u", a.filterPolicy)>>
      [] c.op \in {"LeSetAdvertisingData", "LeSetScanResponseData"} ->
            <<F(1, "u", Len(a.data)), F(Len(a.data), "raw", a.data), F(31 - Len(a.data), "zero", 0)>>
      [] c.op = "LeSetScanEnable" ->
            <<F(1, "u", IF a.enable THEN 1 ELSE 0), F(1, "u", IF a.filterDuplicates THEN 1 ELSE 0)>>
      [] c.op = "LeWriteSuggestedDefaultDataLength" -> <<F(2, "u", a.maxTxOctets), F(2, "u", a.maxTxTime)>>
      [] c.op = "LeSetDefaultPhy" ->
            <<F(1, "bits", {k \in {0, 1} : IF k = 0 THEN a.txAny ELSE a.rxAny}),
              F(1, "bits", IF a.txAny THEN {} ELSE {a.tx}), F(1, "bits", IF a.rxAny THEN {} ELSE {a.rx})>>
      [] c.op = "LeSetAdvertisingSetRandomAddress" -> <<F(1, "u", a.handle), F(6, "u", a.address)>>
      [] c.op = "LeSetExtendedAdvertisingParameters" ->
            <<F(1, "u", a.handle), F(2, "bits", Set(a.eventProperties)),
              F(3, "t625", a.intervalMinMs), F(3, "t625", a.intervalMaxMs),
              F(1, "bits", Set(a.channelMap)), F(1, "u", a.ownAddressType), F(1, "u", a.peerAddressType),
              F(6, "u", a.peerAddress), F(1, "u", a.filterPolicy),
              \* 0x7F: the host has no preference (spec.md 4.1)
              F(1, "i", IF a.txNone THEN 127 ELSE a.txPower),
              F(1, "u", a.primaryPhy), F(1, "u", a.secondaryMaxSkip), F(1, "u", a.secondaryPhy),
              F(1, "u", a.sid), F(1, "u", IF a.scanRequestNotification THEN 1 ELSE 0)>>
      [] c.op = "LeSetAdvertisingEnable" -> <<F(1, "u", IF a.enable THEN 1 ELSE 0)>>
      [] c.op \in {"LeSetExtendedAdvertisingData", "LeSetExtendedScanResponseData"} ->
            <<F(1, "u", a.handle), F(1, "u", a.operation), F(1, "u", IF a.fragment THEN 0 ELSE 1),
              F(1, "u", Len(a.data)), F(Len(a.data), "raw", a.data)>>
      [] c.op = "LeSetExtendedScanParameters" ->
            \* ascending PHY ordinal: all types, then all intervals, then all windows
            LET phys == SelectSeq(<<[on |-> a.has1M, ord |-> 0, p |-> a.phy1M],
                                   [on |-> a.hasCoded, ord |-> 2, p |-> a.phyCoded]>>,
                                  LAMBDA x : x.on)
                Group(kind, g(_)) == [i \in 1..Len(phys) |-> F(IF kind = "u" THEN 1 ELSE 2, kind, g(phys[i].p))]
            IN  <<F(1, "u", a.ownAddressType), F(1, "u", a.filterPolicy),
                  F(1, "bits", {phys[i].ord : i \in 1..Len(phys)})>>
                \o Group("u", LAMBDA p : p.type) \o Group("t625", LAMBDA p : p.intervalMs)
                \o Group("t625", LAMBDA p : p.windowMs)
      [] c.op = "LeSetExtendedScanEnable" ->
            <<F(1, "u", IF a.enable THEN 1 ELSE 0), F(1, "u", a.filterDuplicates),
              F(2, "t10", a.durationMs), F(2, "t128", a.periodSec)>>
      [] c.op \in {"BuildBuffer", "BuildCommand"} ->
            <<F(2, "u", a.opcode), F(1, "u", Len(a.payload)), F(Len(a.payload), "raw", a.payload)>>
      [] c.op = "GroupCommand" ->
            <<F(2, "opcode", [ogf |-> HciOgf[a.group], ocf |-> a.ocf]),
              F(1, "u", Len(a.payload)), F(Len(a.payload), "raw", a.payload)>>
      [] c.op = "SendAclData" ->
            \* handle[0:12] | boundary[12:14] | broadcast[14:16]
            <<F(2, "acl", [handle |-> a.handle, boundary |-> a.boundary, broadcast |-> a.broadcast]),
              F(2, "u", Len(a.data)), F(Len(a.data), "raw", a.data)>>

(* Inputs the commands refuse before encoding. *)
Refused(c) ==
    \/ c.op \in {"LeSetAdvertisingData", "LeSetScanResponseData"} /\ Len(c.arg.data) > 31
    \/ c.op = "LeSetExtendedScanParameters" /\ ~c.arg.has1M /\ ~c.arg.hasCoded

(* The return-parameter lengths of the Core specification. *)
IsEncoder(c) ==
    ~IsDecoder(c) /\ c.op \notin {"OnData", "LeSupportedStates", "CreateHciSerial", "Open", "Close"}

-----------------------------------------------------------------------------
(***************************************************************************)
(* Encoding round trip (spec.md 8): whatever a command encoder or framer   *)
(* writes reads back, field by field along the wire layout, as the values  *)
(* the caller passed (a time as the nearest tick, so that a boundary       *)
(* interval of 20 or 10240 ms converts back to itself); no byte is left as *)
(* allocUnsafe found it; and an input the layout cannot represent, or that *)
(* the command refuses, makes the call throw instead.                      *)
(***************************************************************************)
EncodeRoundTrip ==
    IsEncoder(case) =>
        IF Refused(case) \/ \E i \in 1..Len(Layout(case)) : ~Representable(Layout(case)[i])
        THEN result.err # "none"
        ELSE result.err = "none" /\ Parses(result.bytes, Layout(case))

(***************************************************************************)
(* Event routing (spec.md 4.4, 6, 8): a well-formed event packet reaches   *)
(* exactly where its code sends it, with the fields the Core layout puts   *)
(* in it -- a CommandComplete or CommandStatus to onCmdResult with its     *)
(* status, credit, opcode and (for CommandComplete only) return            *)
(* parameters; any other event to every listener of its label, in          *)
(* registration order, one call per advertising report in report order --  *)
(* and a packet that is not a well-formed event reaches nobody.            *)
(***************************************************************************)
PacketsRouted ==
    case.op = "OnData" => result.out = case.arg.expect

(***************************************************************************)
(* Spec.md 4.2: a malformed frame (a header cut short, a length byte that  *)
(* disagrees with the payload, a payload too short for its event) is       *)
(* reported on a parser-error channel rather than dropped.                 *)
(***************************************************************************)
MalformedFramesReported ==
    case.op = "OnData" /\ case.arg.malformed =>
        \E i \in 1..Len(result.out) : result.out[i].kind = "parserError"

(***************************************************************************)
(* The LE Supported States table of the Core specification (Vol 4, Part E, *)
(* 7.8.27), as it is laid out there: the single states, then advertising   *)
(* with scanning, advertising or scanning with initiating or a connection, *)
(* low duty cycle advertising, and the later combinations.                 *)
(***************************************************************************)
CoreStateNames ==
    [NonConnAdv  |-> "Non-connectable and Non-Scannable Undirected Advertising State",
     ScanAdv     |-> "Scannable Undirected Advertising State",
     ConnAdv     |-> "Connectable and Scannable Undirected Advertising State",
     HighDutyAdv |-> "High Duty Cycle Connectable Directed Advertising State",
     LowDutyAdv  |-> "Low Duty Cycle Connectable Directed Advertising State",
     PassiveScan |-> "Passive Scanning State", ActiveScan |-> "Active Scanning State",
     Init |-> "Initiating State", Master |-> "Connection State (Master Role)",
     Slave |-> "Connection State (Slave Role)"]

CoreSupportedStates(b) ==
    LET Adv  == <<"NonConnAdv", "ScanAdv", "ConnAdv", "HighDutyAdv">>
        Scan == <<"PassiveScan", "ActiveScan">>
        Role == <<"Init", "Master", "Slave">>
    IN  CASE b \in 0..3   -> {Adv[b + 1]}
          [] b \in 4..5   -> {Scan[b - 3]}
          [] b = 6        -> {"Init"}
          [] b = 7        -> {"Slave"}
          [] b \in 8..15  -> {Adv[((b - 8) % 4) + 1], Scan[(b - 8) \div 4 + 1]}
          [] b \in 16..21 -> {Adv[(b % 2) + 1], Role[(b - 16) \div 2 + 1]}
          [] b \in 22..27 -> {Scan[(b % 2) + 1], Role[(b - 22) \div 2 + 1]}
          [] b = 28       -> {"Init", "Master"}
          [] b \in 29..31 -> {"LowDutyAdv"} \cup {Scan[k] : k \in {b - 29} \ {0}}
          [] b \in 32..40 -> {<<"ConnAdv", "HighDutyAdv", "LowDutyAdv">>[((b - 32) % 3) + 1],
                               Role[(b - 32) \div 3 + 1]}
          [] b = 41       -> {"Init", "Slave"}

(***************************************************************************)
(* Supported-states decoding (spec.md 6): leReadSupportedStates given      *)
(* fewer than 8 bytes throws InvalidPayloadSize; given 8 or more it reads  *)
(* them as a little-endian 64-bit mask and lists, for each of the bits     *)
(* 0-41 that is set and in bit order, the names of the one or two states   *)
(* the Core table gives that bit, ignoring the reserved bits 42-63.        *)
(***************************************************************************)
SupportedStatesDecoded ==
    case.op = "LeSupportedStates" =>
        LET rp == case.arg.rp
            IsSet(b) == (rp[b \div 8 + 1] \div 2^(b % 8)) % 2 = 1
        IN  IF Len(rp) < 8 THEN result = Throw("InvalidPayloadSize")
            ELSE LET bits == SelectSeq([k \in 1..42 |-> k - 1], IsSet) IN
                 /\ result.err = "none"
                 /\ Len(result.names) = Len(bits)
                 /\ \A i \in 1..Len(bits) :
                       /\ Len(result.names[i]) = Cardinality(CoreSupportedStates(bits[i]))
                       /\ Set(result.names[i]) =
                             {CoreStateNames[s] : s \in CoreSupportedStates(bits[i])}

-----------------------------------------------------------------------------
(* The inputs of the runs. *)

Bytes(n, v) == [i \in 1..n |-> v]

Ramp(n) == [i \in 1..n |-> i]

C(op, S) == [op: {op}, arg: S]

EncoderCases ==
    C("LeSetRandomAddress", [addr: {0, 2^30 + 7, -1}])
    \cup C("LeSetAdvertisingParameters",
           [intervalMinMs: {20, 21, 40960}, intervalMaxMs: {10240}, advertisingType: {0, 4},
            ownAddressType: {0, 3}, peerAddressType: {1}, peerAddress: {0, 2^30 + 5},
            channelMap: {<<>>, <<0, 2>>, <<1, 1>>}, filterPolicy: {3}])
    \cup C("LeSetAdvertisingData", [data: {<<>>, <<7>>, Bytes(31, 9), Bytes(32, 9)}])
    \cup C("LeSetScanResponseData", [data: {Ramp(31), Ramp(40)}])
    \cup C("LeSetAdvertisingEnable", [enable: BOOLEAN])
    \cup C("LeSetExtendedScanResponseData", [handle: {2}, operation: {1, 2}, fragment: {TRUE},
                                             data: {Ramp(5)}])
    \cup C("LeWriteSuggestedDefaultDataLength", [maxTxOctets: {27, 251, 65536}, maxTxTime: {328, 17040}])
    \cup C("LeSetDefaultPhy", [txAny: BOOLEAN, tx: {0, 2}, rxAny: BOOLEAN, rx: {1}])
    \cup C("LeSetAdvertisingSetRandomAddress", [handle: {0, 256}, address: {5}])
    \cup C("LeSetExtendedAdvertisingParameters",
           [handle: {0}, eventProperties: {<<0, 1, 4>>, <<6>>}, intervalMinMs: {20, 40960},
            intervalMaxMs: {10240}, channelMap: {<<0, 1, 2>>}, ownAddressType: {1},
            peerAddressType: {0}, peerAddress: {7}, filterPolicy: {0},
            txNone: {FALSE}, txPower: {-128, 20, 126, 128}, primaryPhy: {1, 3},
            secondaryMaxSkip: {0}, secondaryPhy: {2}, sid: {15}, scanRequestNotification: BOOLEAN]
        \cup [handle: {1}, eventProperties: {<<>>}, intervalMinMs: {21}, intervalMaxMs: {21},
              channelMap: {<<2>>}, ownAddressType: {0}, peerAddressType: {1}, peerAddress: {0},
              filterPolicy: {1}, txNone: {TRUE}, txPower: {0}, primaryPhy: {1},
              secondaryMaxSkip: {3}, secondaryPhy: {1}, sid: {0}, scanRequestNotification: {FALSE}])
    \cup C("LeSetExtendedAdvertisingData",
           [handle: {0}, operation: {0, 3}, fragment: BOOLEAN,
            data: {<<>>, Ramp(3), Bytes(256, 1)}])
    \cup C("LeSetExtendedScanParameters",
           [ownAddressType: {0, 1}, filterPolicy: {0}, has1M: BOOLEAN, hasCoded: BOOLEAN,
            phy1M: {[type |-> 1, intervalMs |-> 20, windowMs |-> 10]},
            phyCoded: {[type |-> 0, intervalMs |-> 40, windowMs |-> 30],
                       [type |-> 1, intervalMs |-> 40960, windowMs |-> 30]}])
    \cup C("LeSetExtendedScanEnable",
           [enable: BOOLEAN, filterDuplicates: {0, 2}, durationMs: {0, 15, 655350, 655360},
            periodSec: {0, 16, 83885, 83886}])
    \cup C("BuildBuffer", [opcode: {3075}, payload: {<<>>, Ramp(2), Bytes(255, 4), Bytes(256, 4)}])
    \cup C("BuildCommand", [opcode: {8257}, payload: {<<>>, Ramp(2), Bytes(255, 4), Bytes(256, 4)}])
    \cup C("SendAclData", [handle: {0, 3839}, boundary: 0..3, broadcast: 0..1,
                           data: {<<>>, Ramp(2)}])

(* The four command groups, each with the lowest and the highest OCF. *)
GroupCases ==
    C("GroupCommand", [group: DOMAIN HciOgf, ocf: {0, 1, 1023}, payload: {<<>>, Ramp(2)},
                       connHandle: {10}])

(* Supported-states masks: each single bit 0-63, all bits, a short and a *)
(* long parameter list.                                                   *)
LeStatesCases ==
    C("LeSupportedStates",
      [rp: {[i \in 1..8 |-> IF i = b \div 8 + 1 THEN 2^(b % 8) ELSE 0] : b \in 0..63}
           \cup {Bytes(8, 255), Bytes(7, 255), Ramp(9)}])

(* serialport's answers: list() with no port, a non-HCI port only, and a *)
(* SEGGER probe, an FTDI cable and a Zephyr UART; the notifications of    *)
(* port.open and port.close on success, on a missing device, on a port    *)
(* already open and on a port not open.                                   *)
Port(m, v, pr, path) == [manufacturer |-> m, vendorId |-> v, productId |-> pr, path |-> path]
Ftdi == Port("FTDI", "0403", "6001", "/dev/ttyUSB0")
PortLists ==
    {<<>>, <<Ftdi>>,
     <<Port("SEGGER", "1366", "1015", "/dev/ttyACM0"), Ftdi, Port("", "2fe3", "0100", "/dev/ttyACM1")>>}
SerialArgs ==
    {pa @@ ba @@ rt @@ sb @@ pd : pa \in {<<>>, "path" :> "", "path" :> "/dev/ttyS9"},
                           ba \in {<<>>, "baudRate" :> 0, "baudRate" :> 115200},
                           rt \in {<<>>, "rtscts" :> FALSE}, sb \in {<<>>, "stopBits" :> 2},
                           pd \in {<<>>, "parity" :> "even" @@ "dataBits" :> 7}}
Outcome(notes, ok, error) == [notes |-> notes, ok |-> ok, error |-> error]

SerialCases ==
    C("CreateHciSerial", [deviceId: {0, 1, 2}, serial: SerialArgs, ports: PortLists])
    \cup C("Open", {Outcome(<<Note("open", "null"), Note("cb", "null")>>, TRUE, "null"),
                    Outcome(<<Note("cb", "ENOENT")>>, FALSE, "ENOENT"),
                    Outcome(<<Note("cb", "PortAlreadyOpen")>>, FALSE, "PortAlreadyOpen")})
    \cup C("Close", {Outcome(<<Note("cb", "null")>>, TRUE, "null"),
                     Outcome(<<Note("cb", "PortNotOpen")>>, FALSE, "PortNotOpen")})

DecoderCases ==
    UNION {C(op, [rp: {Ramp(n) : n \in 0..9}]) : op \in DecoderOps}

(* Event packets as the Core specification lays them out. *)
EventFrame(code, params) == <<code, Len(params)>> \o params
U16(v) == <<v % 256, v \div 256>>

ToAll(Ls, label, vals) == [i \in 1..Len(Ls) |-> Deliver(i, label, vals)]

Packet(pt, frame, Ls, expect) ==
    [pt |-> pt, frame |-> frame, listeners |-> Ls, expect |-> expect, malformed |-> FALSE]
Malformed(pt, frame) ==
    [pt |-> pt, frame |-> frame, listeners |-> <<"ok">>, expect |-> <<>>, malformed |-> TRUE]

Listeners == {<<>>, <<"ok">>, <<"ok", "ok">>}

(* Packets for onData: command answers (opcodes Reset, LE Set Scan Enable, *)
(* and 0xFC01 of the vendor-specific group, above 0x7FFF), the four-byte   *)
(* events, LE meta events with 0, 1 and 3 reports, ignored codes and       *)
(* packet types, and malformed frames.                                     *)
RouterCases ==
    C("OnData",
      {Packet(PktEvent, EventFrame(EvCommandComplete, <<1>> \o U16(o) \o <<st>> \o rp), <<"ok">>,
              <<CmdResult(TRUE, <<st, 1, o>>, rp)>>) :
         o \in {3075, 8205, 64513}, st \in {0, 18}, rp \in {<<>>, <<7>>, <<10, 0, 7>>}}
      \cup {Packet(PktEvent, EventFrame(EvCommandStatus, <<st, 1>> \o U16(o)), <<"ok">>,
                   <<CmdResult(FALSE, <<st, 1, o>>, <<>>)>>) : o \in {1037, 8205}, st \in {0, 12}}
      \cup {Packet(PktEvent, EventFrame(code, <<st>> \o U16(h) \o <<r>>), Ls,
                   ToAll(Ls, IF code = EvDisconnectionComplete THEN "DisconnectionComplete"
                                                             ELSE "EncryptionChange", <<st, h, r>>)) :
             code \in {EvDisconnectionComplete, EvEncryptionChange}, st \in {0, 8},
             h \in {10, 3839}, r \in {1}, Ls \in Listeners}
      \cup {Packet(PktEvent, EventFrame(EvLeMeta, <<LeChannelSelectionAlgorithmEv>> \o U16(10) \o <<a>>),
                   <<"ok">>, ToAll(<<"ok">>, "LeChannelSelectionAlgorithm", <<10, a>>)) : a \in {0, 1}}
      \cup {Packet(PktEvent, EventFrame(EvLeMeta, <<sub, n>> \o Bytes(3 * n, 0)), Ls,
                   FlattenSeq([k \in 1..n |-> ToAll(Ls, IF sub = LeAdvertisingReportEv
                                                     THEN "LeAdvertisingReport"
                                                     ELSE "LeExtendedAdvertisingReport", <<k>>)])) :
             sub \in {LeAdvertisingReportEv, LeExtendedAdvertisingReportEv}, n \in {0, 1, 3},
             Ls \in Listeners}
      \cup {Packet(PktEvent, EventFrame(EvLeMeta, <<LeConnectionCompleteEv, 0>>), <<"ok">>,
                   ToAll(<<"ok">>, "LeConnectionComplete", <<>>)),
             Packet(PktEvent, EventFrame(EvNumberOfCompletedPackets, <<1>> \o U16(10) \o U16(2)),
                    <<"ok">>, <<>>),
             Packet(PktEvent, EventFrame(16, <<0>>), <<"ok">>, <<>>),
             Packet(PktAclData, EventFrame(EvCommandComplete, <<1, 3, 12, 0>>), <<"ok">>, <<>>),
             Packet(PktCommand, EventFrame(EvCommandComplete, <<1, 3, 12, 0>>), <<"ok">>, <<>>)}
      \cup {Malformed(PktEvent, f) :
             f \in {<<>>, <<EvCommandComplete>>, <<EvCommandComplete, 5, 1, 3, 12>>,
                    EventFrame(EvCommandComplete, <<1, 3, 12>>), EventFrame(EvCommandStatus, <<0, 1>>),
                    EventFrame(EvDisconnectionComplete, <<0, 10, 0>>),
                    EventFrame(EvNumberOfCompletedPackets, <<2>> \o U16(10))}})

PassCases == EncoderCases \cup GroupCases \cup DecoderCases \cup LeStatesCases \cup RouterCases
             \cup SerialCases

(* Malformed event packets only. *)
MalformedCases == {c \in RouterCases : c.arg.malformed}

(* Three advertising reports, the first listener throwing. *)
ThrowingListenerCases ==
    C("OnData", {Packet(PktEvent, EventFrame(EvLeMeta, <<LeAdvertisingReportEv, 3>> \o Bytes(9, 0)),
                        <<"throws", "ok">>,
                        FlattenSeq([k \in 1..3 |-> ToAll(<<"throws", "ok">>, "LeAdvertisingReport", <<k>>)]))})

(* leSetScanEnable with each combination of its two flags. *)
ScanEnableCases == C("LeSetScanEnable", [enable: BOOLEAN, filterDuplicates: BOOLEAN])

=============================================================================
