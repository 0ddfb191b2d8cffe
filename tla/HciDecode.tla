------------------------------ MODULE HciDecode ------------------------------
(***************************************************************************)
(* The return-parameter decoders of the first Hci class of                 *)
(* src/unnamed/part_000, and the Result that the codec's encoders and      *)
(* decoders return.  Each decoder checks a minimum length of               *)
(* returnParameters, throwing InvalidPayloadSize below it, then reads its  *)
(* fields with Buffer.readUIntLE (offset, width), which throws RangeError  *)
(* on a read past the end.  The object it returns is modelled as the       *)
(* sequence of its fields in the order the code lists them, a field as the *)
(* bytes it is read from.                                                  *)
(***************************************************************************)
EXTENDS Naturals, Sequences

(* The bytes an encoder produced, or the error it threw. *)
Ok(b)     == [err |-> "none", bytes |-> b]
Throw(e)  == [err |-> e, bytes |-> <<>>]

(* The fields a decoder returned. *)
Decoded(fields) == [err |-> "none", fields |-> fields]

(* The bytes returnParameters.readUIntLE(o, w) reads (0-based offset o). *)
Field(rp, o, w) == SubSeq(rp, o + 1, o + w)

Decode(rp, min, reads) ==
    IF Len(rp) < min THEN Throw("InvalidPayloadSize")
    ELSE IF \E i \in 1..Len(reads) : reads[i][1] + reads[i][2] > Len(rp)
    THEN Throw("RangeError")
    ELSE Decoded([i \in 1..Len(reads) |-> Field(rp, reads[i][1], reads[i][2])])

ReadLocalSupportedFeatures(rp)     == Decode(rp, 8, <<<<0, 8>>>>)
ReadBdAddr(rp)                     == Decode(rp, 6, <<<<0, 6>>>>)
LeReadBufferSize(rp)               == Decode(rp, 3, <<<<0, 2>>, <<2, 1>>>>)
(* Mutant: the minimum length of leReadBufferSizeV2 one byte short. *)
LeReadBufferSizeV2Short(rp) == Decode(rp, 5, <<<<0, 2>>, <<2, 1>>, <<3, 2>>, <<5, 1>>>>)

LeReadBufferSizeV2(rp)             == Decode(rp, 6, <<<<0, 2>>, <<2, 1>>, <<3, 2>>, <<5, 1>>>>)
LeReadSupportedFeatures(rp)        == Decode(rp, 8, <<<<0, 8>>>>)
LeReadAdvertisingPhysicalChannelTxPower(rp) == Decode(rp, 1, <<<<0, 1>>>>)
LeReadWhiteListSize(rp)            == Decode(rp, 1, <<<<0, 1>>>>)
LeReadSupportedStates(rp)          == Decode(rp, 8, <<<<0, 8>>>>)
LeReadSuggestedDefaultDataLength(rp) == Decode(rp, 4, <<<<0, 2>>, <<2, 2>>>>)
LeReadResolvingListSize(rp)        == Decode(rp, 1, <<<<0, 1>>>>)
LeReadMaximumDataLength(rp)        == Decode(rp, 8, <<<<0, 2>>, <<2, 2>>, <<4, 2>>, <<6, 2>>>>)
LeReadPhy(rp)                      == Decode(rp, 4, <<<<0, 2>>, <<2, 1>>, <<3, 1>>>>)
LeSetExtendedAdvertisingParametersResult(rp) == Decode(rp, 1, <<<<0, 1>>>>)
LeReadNumberOfSupportedAdvertisingSets(rp) == Decode(rp, 1, <<<<0, 1>>>>)

=============================================================================
