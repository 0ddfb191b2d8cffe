----------------------------- MODULE DecodeCalls -----------------------------
(***************************************************************************)
(* The calls of the return-parameter decoders of HciDecode, one after      *)
(* another, over the state of CodecCalls, and what the Bluetooth Core      *)
(* specification says a decoder must return.  MC_HciCodec runs these calls *)
(* among the codec's; DecodeCalls_proofs proves the property for every     *)
(* returnParameters buffer.                                                *)
(***************************************************************************)
EXTENDS HciDecode, CodecCalls

(***************************************************************************)
(* The return parameters of each command after its Status byte, as the    *)
(* Core specification (Vol 4, Part E, 7.4 and 7.8) lays them out: each     *)
(* field in order, at its byte offset (the running sum of the sizes        *)
(* before it) with its size in bytes.                                      *)
(***************************************************************************)
CoreLayout ==
    [ReadLocalSupportedFeatures |-> <<<<0, 8>>>>,
     ReadBdAddr |-> <<<<0, 6>>>>,
     LeReadBufferSize |-> <<<<0, 2>>, <<2, 1>>>>,
     LeReadBufferSizeV2 |-> <<<<0, 2>>, <<2, 1>>, <<3, 2>>, <<5, 1>>>>,
     LeReadSupportedFeatures |-> <<<<0, 8>>>>,
     LeReadAdvertisingPhysicalChannelTxPower |-> <<<<0, 1>>>>,
     LeReadWhiteListSize |-> <<<<0, 1>>>>,
     LeReadSupportedStates |-> <<<<0, 8>>>>,
     LeReadSuggestedDefaultDataLength |-> <<<<0, 2>>, <<2, 2>>>>,
     LeReadResolvingListSize |-> <<<<0, 1>>>>,
     LeReadMaximumDataLength |-> <<<<0, 2>>, <<2, 2>>, <<4, 2>>, <<6, 2>>>>,
     LeReadPhy |-> <<<<0, 2>>, <<2, 1>>, <<3, 1>>>>,
     LeSetExtendedAdvertisingParametersResult |-> <<<<0, 1>>>>,
     LeReadNumberOfSupportedAdvertisingSets |-> <<<<0, 1>>>>]

DecoderOps == DOMAIN CoreLayout

IsDecoder(c) == c.op \in DecoderOps

(* The bytes the return parameters of op occupy: the end of the last field. *)
Needs(op) == LET l == CoreLayout[op] IN l[Len(l)][1] + l[Len(l)][2]

(* A decoder is given the bytes a CommandComplete carried after its status. *)
ASSUME DecodeCasesAssumption == \A c \in Cases : IsDecoder(c) => c.arg.rp \in Seq(0..255)

(* The decoder call c, as the code makes it. *)
DecodeRun(c) ==
    LET rp == c.arg.rp IN
    IF c.op = "ReadLocalSupportedFeatures" THEN ReadLocalSupportedFeatures(rp)
    ELSE IF c.op = "ReadBdAddr" THEN ReadBdAddr(rp)
    ELSE IF c.op = "LeReadBufferSize" THEN LeReadBufferSize(rp)
    ELSE IF c.op = "LeReadBufferSizeV2" THEN LeReadBufferSizeV2(rp)
    ELSE IF c.op = "LeReadSupportedFeatures" THEN LeReadSupportedFeatures(rp)
    ELSE IF c.op = "LeReadAdvertisingPhysicalChannelTxPower"
         THEN LeReadAdvertisingPhysicalChannelTxPower(rp)
    ELSE IF c.op = "LeReadWhiteListSize" THEN LeReadWhiteListSize(rp)
    ELSE IF c.op = "LeReadSupportedStates" THEN LeReadSupportedStates(rp)
    ELSE IF c.op = "LeReadSuggestedDefaultDataLength" THEN LeReadSuggestedDefaultDataLength(rp)
    ELSE IF c.op = "LeReadResolvingListSize" THEN LeReadResolvingListSize(rp)
    ELSE IF c.op = "LeReadMaximumDataLength" THEN LeReadMaximumDataLength(rp)
    ELSE IF c.op = "LeReadPhy" THEN LeReadPhy(rp)
    ELSE IF c.op = "LeSetExtendedAdvertisingParametersResult"
         THEN LeSetExtendedAdvertisingParametersResult(rp)
    ELSE LeReadNumberOfSupportedAdvertisingSets(rp)

DecodeInit == \E c \in Cases : IsDecoder(c) /\ case = c /\ result = DecodeRun(c)

(* A caller decodes the answer of another command. *)
DecodeCall == \E c \in Cases : IsDecoder(c) /\ case' = c /\ result' = DecodeRun(c)

DecodeSpec == DecodeInit /\ [][DecodeCall]_vars

(***************************************************************************)
(* Length validation on decode (spec.md 4.1): a decoder given fewer bytes  *)
(* than its return parameters occupy reports InvalidPayloadSize (never a   *)
(* RangeError of a read past the end), and given enough returns each field *)
(* of the Core layout, read from the bytes the layout gives it.            *)
(***************************************************************************)
DecodesOf(c, r) ==
    IsDecoder(c) =>
        LET rp == c.arg.rp
            l  == CoreLayout[c.op]
        IN  IF Len(rp) < Needs(c.op) THEN r = Throw("InvalidPayloadSize")
            ELSE r = Decoded([i \in 1..Len(l) |-> Field(rp, l[i][1], l[i][2])])

(* The last decoder call returned what its Core layout says. *)
DecodersReportShortfall == DecodesOf(case, result)

=============================================================================
