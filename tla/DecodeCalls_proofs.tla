-------------------------- MODULE DecodeCalls_proofs --------------------------
(***************************************************************************)
(* Proofs about the return-parameter decoders, for every returnParameters  *)
(* buffer that DecodeCasesAssumption allows.  The argument: a decoder      *)
(* checks one minimum length and reads fields that all end within it, so  *)
(* a buffer either fails the check (InvalidPayloadSize) or holds every     *)
(* field (no RangeError); and each decoder's minimum and reads are those   *)
(* of its Core layout.  Each call sets case and result afresh, so the      *)
(* property of one call is the inductive step.                             *)
(***************************************************************************)
EXTENDS DecodeCalls, TLAPS

USE DecodeCasesAssumption

(***************************************************************************)
(* A decoder whose reads all end within its minimum length never throws    *)
(* RangeError: below the minimum it throws InvalidPayloadSize, and from    *)
(* the minimum on it returns every field.                                  *)
(***************************************************************************)
LEMMA DecodeWithinMin ==
    ASSUME NEW rp \in Seq(0..255), NEW min \in Nat, NEW reads \in Seq(Nat \X Nat),
           \A i \in 1..Len(reads) : reads[i][1] + reads[i][2] <= min
    PROVE  Decode(rp, min, reads) =
              IF Len(rp) < min THEN Throw("InvalidPayloadSize")
              ELSE Decoded([i \in 1..Len(reads) |-> Field(rp, reads[i][1], reads[i][2])])
<1>1. CASE Len(rp) < min
  BY <1>1 DEF Decode
<1>2. CASE ~(Len(rp) < min)
  <2>1. ~\E i \in 1..Len(reads) : reads[i][1] + reads[i][2] > Len(rp)
    <3> SUFFICES ASSUME NEW i \in 1..Len(reads)
                 PROVE  reads[i][1] + reads[i][2] <= Len(rp)
      OBVIOUS
    <3>1. reads[i][1] + reads[i][2] <= min
      OBVIOUS
    <3>2. reads[i][1] \in Nat /\ reads[i][2] \in Nat /\ Len(rp) \in Nat
      OBVIOUS
    <3>. QED
      BY <1>2, <3>1, <3>2
  <2>. QED
    BY <1>2, <2>1 DEF Decode
<1>. QED
  BY <1>1, <1>2

(***************************************************************************)
(* Each decoder of the code checks the length its Core layout occupies and *)
(* reads the fields of that layout.                                        *)
(***************************************************************************)
LEMMA RunIsLayout ==
    ASSUME NEW c, IsDecoder(c)
    PROVE  DecodeRun(c) = Decode(c.arg.rp, Needs(c.op), CoreLayout[c.op])
<1>. c.op \in DecoderOps
  BY DEF IsDecoder
<1>1. CASE c.op = "ReadLocalSupportedFeatures"
  BY <1>1 DEF DecodeRun, ReadLocalSupportedFeatures, Needs, CoreLayout
<1>2. CASE c.op = "ReadBdAddr"
  BY <1>2 DEF DecodeRun, ReadBdAddr, Needs, CoreLayout
<1>3. CASE c.op = "LeReadBufferSize"
  BY <1>3 DEF DecodeRun, LeReadBufferSize, Needs, CoreLayout
<1>4. CASE c.op = "LeReadBufferSizeV2"
  BY <1>4 DEF DecodeRun, LeReadBufferSizeV2, Needs, CoreLayout
<1>5. CASE c.op = "LeReadSupportedFeatures"
  BY <1>5 DEF DecodeRun, LeReadSupportedFeatures, Needs, CoreLayout
<1>6. CASE c.op = "LeReadAdvertisingPhysicalChannelTxPower"
  BY <1>6 DEF DecodeRun, LeReadAdvertisingPhysicalChannelTxPower, Needs, CoreLayout
<1>7. CASE c.op = "LeReadWhiteListSize"
  BY <1>7 DEF DecodeRun, LeReadWhiteListSize, Needs, CoreLayout
<1>8. CASE c.op = "LeReadSupportedStates"
  BY <1>8 DEF DecodeRun, LeReadSupportedStates, Needs, CoreLayout
<1>9. CASE c.op = "LeReadSuggestedDefaultDataLength"
  BY <1>9 DEF DecodeRun, LeReadSuggestedDefaultDataLength, Needs, CoreLayout
<1>10. CASE c.op = "LeReadResolvingListSize"
  BY <1>10 DEF DecodeRun, LeReadResolvingListSize, Needs, CoreLayout
<1>11. CASE c.op = "LeReadMaximumDataLength"
  BY <1>11 DEF DecodeRun, LeReadMaximumDataLength, Needs, CoreLayout
<1>12. CASE c.op = "LeReadPhy"
  BY <1>12 DEF DecodeRun, LeReadPhy, Needs, CoreLayout
<1>13. CASE c.op = "LeSetExtendedAdvertisingParametersResult"
  BY <1>13 DEF DecodeRun, LeSetExtendedAdvertisingParametersResult, Needs, CoreLayout
<1>14. CASE c.op = "LeReadNumberOfSupportedAdvertisingSets"
  BY <1>14 DEF DecodeRun, LeReadNumberOfSupportedAdvertisingSets, Needs, CoreLayout
<1>. QED
  BY <1>1, <1>2, <1>3, <1>4, <1>5, <1>6, <1>7, <1>8, <1>9, <1>10, <1>11, <1>12,
     <1>13, <1>14 DEF DecoderOps, CoreLayout

(* Every Core layout is a sequence of (offset, size) pairs ending at Needs. *)
LEMMA LayoutWithinNeeds ==
    ASSUME NEW op \in DecoderOps
    PROVE  /\ CoreLayout[op] \in Seq(Nat \X Nat)
           /\ Needs(op) \in Nat
           /\ \A i \in 1..Len(CoreLayout[op]) :
                 CoreLayout[op][i][1] + CoreLayout[op][i][2] <= Needs(op)
<1>1. CASE op = "ReadLocalSupportedFeatures"
  BY <1>1 DEF CoreLayout, Needs
<1>2. CASE op = "ReadBdAddr"
  BY <1>2 DEF CoreLayout, Needs
<1>3. CASE op = "LeReadBufferSize"
  BY <1>3 DEF CoreLayout, Needs
<1>4. CASE op = "LeReadBufferSizeV2"
  BY <1>4 DEF CoreLayout, Needs
<1>5. CASE op = "LeReadSupportedFeatures"
  BY <1>5 DEF CoreLayout, Needs
<1>6. CASE op = "LeReadAdvertisingPhysicalChannelTxPower"
  BY <1>6 DEF CoreLayout, Needs
<1>7. CASE op = "LeReadWhiteListSize"
  BY <1>7 DEF CoreLayout, Needs
<1>8. CASE op = "LeReadSupportedStates"
  BY <1>8 DEF CoreLayout, Needs
<1>9. CASE op = "LeReadSuggestedDefaultDataLength"
  BY <1>9 DEF CoreLayout, Needs
<1>10. CASE op = "LeReadResolvingListSize"
  BY <1>10 DEF CoreLayout, Needs
<1>11. CASE op = "LeReadMaximumDataLength"
  BY <1>11 DEF CoreLayout, Needs
<1>12. CASE op = "LeReadPhy"
  BY <1>12 DEF CoreLayout, Needs
<1>13. CASE op = "LeSetExtendedAdvertisingParametersResult"
  BY <1>13 DEF CoreLayout, Needs
<1>14. CASE op = "LeReadNumberOfSupportedAdvertisingSets"
  BY <1>14 DEF CoreLayout, Needs
<1>. QED
  BY <1>1, <1>2, <1>3, <1>4, <1>5, <1>6, <1>7, <1>8, <1>9, <1>10, <1>11, <1>12,
     <1>13, <1>14 DEF DecoderOps, CoreLayout

(* One decoder call returns what its Core layout says. *)
LEMMA CallDecodes ==
    ASSUME NEW c \in Cases
    PROVE  DecodesOf(c, DecodeRun(c))
<1> SUFFICES ASSUME IsDecoder(c) PROVE DecodesOf(c, DecodeRun(c))
  BY DEF DecodesOf
<1>1. c.op \in DecoderOps /\ c.arg.rp \in Seq(0..255)
  BY DEF IsDecoder
<1>2. /\ CoreLayout[c.op] \in Seq(Nat \X Nat)
      /\ Needs(c.op) \in Nat
      /\ \A i \in 1..Len(CoreLayout[c.op]) :
            CoreLayout[c.op][i][1] + CoreLayout[c.op][i][2] <= Needs(c.op)
  BY <1>1, LayoutWithinNeeds
<1>3. DecodeRun(c) = Decode(c.arg.rp, Needs(c.op), CoreLayout[c.op])
  BY RunIsLayout
<1>4. Decode(c.arg.rp, Needs(c.op), CoreLayout[c.op]) =
         IF Len(c.arg.rp) < Needs(c.op) THEN Throw("InvalidPayloadSize")
         ELSE Decoded([i \in 1..Len(CoreLayout[c.op]) |->
                         Field(c.arg.rp, CoreLayout[c.op][i][1], CoreLayout[c.op][i][2])])
  BY <1>1, <1>2, DecodeWithinMin
<1>. QED
  BY <1>3, <1>4 DEF DecodesOf

(***************************************************************************)
(* Length validation on decode, for every returnParameters buffer: each    *)
(* decoder reports InvalidPayloadSize when the buffer is shorter than its  *)
(* Core layout, never a RangeError of a read past the end, and otherwise   *)
(* returns every field of the layout from the bytes the layout gives it.   *)
(***************************************************************************)
THEOREM DecodersShortfall == DecodeSpec => []DecodersReportShortfall
<1>1. DecodeInit => DecodersReportShortfall
  BY CallDecodes DEF DecodeInit, DecodersReportShortfall
<1>2. DecodersReportShortfall /\ [DecodeCall]_vars => DecodersReportShortfall'
  BY CallDecodes DEF DecodeCall, DecodersReportShortfall, vars
<1>. QED
  BY <1>1, <1>2, PTL DEF DecodeSpec

=============================================================================
