------------------------------ MODULE HciCodec ------------------------------
(***************************************************************************)
(* The byte codec of the HCI commands: the parameter encoders and the      *)
(* return-parameter decoders of the first Hci class of src/unnamed/part_000 *)
(* (the one that sends through its own send()), the command framers        *)
(* Hci.buildBuffer and HciCmd.buildCommand, and the ACL framer            *)
(* Hci.sendAclData of the second class.                                   *)
(*                                                                         *)
(* A buffer is a sequence of bytes.  Buffer.allocUnsafe(n) returns memory  *)
(* that may hold any bytes: a byte never written is Junk, which stands for *)
(* every value the allocator may leave there.  Node's Buffer writers throw *)
(* RangeError when the value does not fit the width or the write runs past *)
(* the end, and its readers throw RangeError when the read runs past the   *)
(* end; an encoder or decoder returns a Result: the bytes it produced, or  *)
(* the error it throws.  The decoders are in HciDecode.                   *)
(*                                                                         *)
(* Numbers are the integers a caller passes; a time in milliseconds or     *)
(* seconds is a natural number.  Math.round(x / d) of such a number is the *)
(* integer expression noted beside each conversion (exact for the inputs   *)
(* of the runs: the quotient is never within a rounding error of a half).  *)
(***************************************************************************)
EXTENDS Naturals, Integers, Sequences, SequencesExt, Bitwise, HciDecode

Junk == -1

Result == [err: {"none", "RangeError", "InvalidPayloadSize",
                 "InvalidCommandParameter"},
           bytes: Seq(Int)]


Bool(b) == IF b THEN 1 ELSE 0

(* Buffer.allocUnsafe(n) and Buffer.alloc(n, fill). *)
AllocUnsafe(n) == [i \in 1..n |-> Junk]
Alloc(n, fill) == [i \in 1..n |-> fill]

RECURSIVE LEBytes(_, _)

(* The w bytes of v, least significant first. *)
LEBytes(v, w) == IF w = 0 THEN <<>> ELSE <<v % 256>> \o LEBytes(v \div 256, w - 1)

(* The values writeUIntLE / writeIntLE accept for width w (TLC integers    *)
(* are below 2^31, so any natural number fits four bytes or more).         *)
FitsU(v, w) == v >= 0 /\ (w >= 4 \/ v < 2^(8 * w))
FitsI(v, w) == -(2^(8 * w - 1)) <= v /\ v < 2^(8 * w - 1)

(* buf.writeUIntLE(v, o, w) / buf.writeIntLE(v, o, w) on a Result. *)
WriteLE(r, v, o, w, signed) ==
    IF r.err # "none" THEN r
    ELSE IF ~(IF signed THEN FitsI(v, w) ELSE FitsU(v, w)) \/ o + w > Len(r.bytes)
    THEN Throw("RangeError")
    ELSE LET b == LEBytes(IF v < 0 THEN v + 2^(8 * w) ELSE v, w) IN
         Ok([i \in 1..Len(r.bytes) |-> IF o < i /\ i <= o + w THEN b[i - o]
                                                              ELSE r.bytes[i]])

(* src.copy(buf, o): copies what fits. *)
CopyInto(r, src, o) ==
    IF r.err # "none" THEN r
    ELSE Ok([i \in 1..Len(r.bytes) |->
               IF o < i /\ i <= o + Len(src) THEN src[i - o] ELSE r.bytes[i]])

(* A field of a chain o = payload.writeUIntLE(v, o, w) / writeIntLE(...). *)
U(v, w) == [v |-> v, w |-> w, signed |-> FALSE]
I(v, w) == [v |-> v, w |-> w, signed |-> TRUE]

(* Buffer.allocUnsafe(n), then the fields written one after another from 0. *)
WriteFields(n, fields) ==
    LET Put(st, f) == [r |-> WriteLE(st.r, f.v, st.o, f.w, f.signed), o |-> st.o + f.w]
    IN  FoldLeft(Put, [r |-> Ok(AllocUnsafe(n)), o |-> 0], fields).r

-----------------------------------------------------------------------------
(* Unit conversions and bitfields. *)

(* Math.round(ms / 0.625) = (16 * ms + 5) \div 10 *)
MsToHciValue(ms) == (16 * ms + 5) \div 10

(* bits.forEach(bit => bitfield |= 1 << bit) *)
BuildBitfield(bits) == FoldLeft(LAMBDA acc, b : acc | (2^b), 0, bits)

-----------------------------------------------------------------------------
(* Command parameter encoders of the first Hci class. *)

LeSetRandomAddress(addr) == WriteFields(6, <<U(addr, 6)>>)

LeSetAdvertisingParameters(p) ==
    WriteFields(15, <<U(MsToHciValue(p.intervalMinMs), 2), U(MsToHciValue(p.intervalMaxMs), 2),
                      U(p.advertisingType, 1), U(p.ownAddressType, 1),
                      U(p.peerAddressType, 1), U(p.peerAddress, 6),
                      U(BuildBitfield(p.channelMap), 1), U(p.filterPolicy, 1)>>)

(* leSetAdvertisingData / leSetScanResponseData: at most 31 bytes, zero padded. *)
LeSetAdvertisingData(data) ==
    IF Len(data) > 31 THEN Throw("InvalidCommandParameter")
    ELSE CopyInto(WriteLE(Ok(Alloc(32, 0)), Len(data), 0, 1, FALSE), data, 1)

LeSetScanResponseData(data) == LeSetAdvertisingData(data)

LeSetAdvertisingEnable(enable) == WriteLE(Ok(AllocUnsafe(1)), Bool(enable), 0, 1, FALSE)

(* payload.writeUInt8(x) twice, both at the default offset 0 of allocUnsafe(2). *)
LeSetScanEnable(enable, filterDuplicates) ==
    WriteLE(WriteLE(Ok(AllocUnsafe(2)), Bool(enable), 0, 1, FALSE),
            Bool(filterDuplicates), 0, 1, FALSE)

LeWriteSuggestedDefaultDataLength(p) ==
    WriteFields(4, <<U(p.maxTxOctets, 2), U(p.maxTxTime, 2)>>)

(* An absent preference (txAny, rxAny) sets its ALL_PHYS bit; a PHY p sets bit p. *)
LeSetDefaultPhy(p) ==
    WriteFields(3, <<U((IF p.txAny THEN 2^0 ELSE 0) | (IF p.rxAny THEN 2^1 ELSE 0), 1),
                     U(IF p.txAny THEN 0 ELSE 2^p.tx, 1),
                     U(IF p.rxAny THEN 0 ELSE 2^p.rx, 1)>>)

LeSetAdvertisingSetRandomAddress(p) ==
    WriteFields(7, <<U(p.handle, 1), U(p.address, 6)>>)

(* advertisingTxPower ?? 0x7F (txNone: undefined); written as a signed byte. *)
LeSetExtendedAdvertisingParameters(p) ==
    WriteFields(25, <<U(p.handle, 1), U(BuildBitfield(p.eventProperties), 2),
                      U(MsToHciValue(p.intervalMinMs), 3), U(MsToHciValue(p.intervalMaxMs), 3),
                      U(BuildBitfield(p.channelMap), 1), U(p.ownAddressType, 1),
                      U(p.peerAddressType, 1), U(p.peerAddress, 6), U(p.filterPolicy, 1),
                      I(IF p.txNone THEN 127 ELSE p.txPower, 1),
                      U(p.primaryPhy, 1), U(p.secondaryMaxSkip, 1), U(p.secondaryPhy, 1),
                      U(p.sid, 1), U(Bool(p.scanRequestNotification), 1)>>)

(* leSetExtendedAdvertisingData / leSetExtendedScanResponseData. *)
LeSetExtendedAdvertisingData(p) ==
    CopyInto(WriteFields(4 + Len(p.data),
                         <<U(p.handle, 1), U(p.operation, 1), U(IF p.fragment THEN 0 ELSE 1, 1),
                           U(Len(p.data), 1)>>),
             p.data, 4)

(* Mutant: each PHY's type, interval and window written together. *)
LeSetExtendedScanParametersPerPhy(p) ==
    LET Block(on, x) == IF on THEN <<U(x.type, 1), U(MsToHciValue(x.intervalMs), 2),
                                     U(MsToHciValue(x.windowMs), 2)>> ELSE <<>>
        bitmask == (IF p.has1M THEN 2^0 ELSE 0) | (IF p.hasCoded THEN 2^2 ELSE 0)
        count   == Bool(p.has1M) + Bool(p.hasCoded)
    IN  IF count = 0 THEN Throw("InvalidCommandParameter")
        ELSE WriteFields(3 + count * 5,
                 <<U(p.ownAddressType, 1), U(p.filterPolicy, 1), U(bitmask, 1)>>
                 \o Block(p.has1M, p.phy1M) \o Block(p.hasCoded, p.phyCoded))

LeSetExtendedScanResponseData(p) == LeSetExtendedAdvertisingData(p)

(***************************************************************************)
(* leSetExtendedScanParameters: no PHY throws InvalidCommandParameter;     *)
(* otherwise the header, then the type of each selected PHY (1M, then      *)
(* Coded), then their intervals, then their windows.                       *)
(***************************************************************************)
LeSetExtendedScanParameters(p) ==
    LET has1M    == p.has1M
        hasCoded == p.hasCoded
        count    == Bool(has1M) + Bool(hasCoded)
        bitmask  == (IF has1M THEN 2^0 ELSE 0) | (IF hasCoded THEN 2^2 ELSE 0)
        If(c, f) == IF c THEN <<f>> ELSE <<>>
    IN  IF count = 0 THEN Throw("InvalidCommandParameter")
        ELSE WriteFields(3 + count * 5,
                 <<U(p.ownAddressType, 1), U(p.filterPolicy, 1), U(bitmask, 1)>>
                 \o If(has1M, U(p.phy1M.type, 1)) \o If(hasCoded, U(p.phyCoded.type, 1))
                 \o If(has1M, U(MsToHciValue(p.phy1M.intervalMs), 2))
                 \o If(hasCoded, U(MsToHciValue(p.phyCoded.intervalMs), 2))
                 \o If(has1M, U(MsToHciValue(p.phy1M.windowMs), 2))
                 \o If(hasCoded, U(MsToHciValue(p.phyCoded.windowMs), 2)))

(* duration: Math.round(ms / 10) = (ms + 5) \div 10;                        *)
(* period:   Math.round(sec / 1.28) = (25 * sec + 16) \div 32.               *)
LeSetExtendedScanEnable(p) ==
    WriteFields(6, <<U(Bool(p.enable), 1), U(p.filterDuplicates, 1),
                     U((p.durationMs + 5) \div 10, 2), U((25 * p.periodSec + 16) \div 32, 2)>>)

-----------------------------------------------------------------------------
(* Packet framers. *)

(* Hci.buildBuffer (first class) and HciCmd.buildCommand: opcode, length, payload. *)
BuildBuffer(opcode, payload) ==
    CopyInto(WriteLE(WriteLE(Ok(AllocUnsafe(3 + Len(payload))), opcode, 0, 2, FALSE),
                     Len(payload), 2, 1, FALSE),
             payload, 3)

BuildCommand(opcode, payload) ==
    CopyInto(WriteFields(3 + Len(payload), <<U(opcode, 2), U(Len(payload), 1)>>), payload, 3)

(* HciOgf: the groups of the four command methods (spec.md 2). *)
HciOgf == [ControlAndBasebandCommands |-> 3, InformationParameters |-> 4,
           StatusParameters |-> 5, LeControllerCommands |-> 8]

(* HciOpcode.build: ogf << 10 | ocf, the OCF not masked to 10 bits. *)
HciOpcodeBuild(ogf, ocf) == (ogf * 2^10) | ocf

(* controlAndBaseband, informationParameters, statusParameters and         *)
(* lowEnergy: the Command each hands to sendWaitResult, for its group.     *)
GroupCommand(group, p) ==
    [opcode |-> HciOpcodeBuild(HciOgf[group], p.ocf), payload |-> p.payload,
     connHandle |-> p.connHandle]

(* Hci.sendAclData: hdr = handle << 0 | boundary << 12 | broadcast << 14. *)
SendAclData(p) ==
    CopyInto(WriteFields(4 + Len(p.data),
                         <<U((p.handle | (2^12 * p.boundary)) | (2^14 * p.broadcast), 2),
                           U(Len(p.data), 2)>>),
             p.data, 4)

=============================================================================
