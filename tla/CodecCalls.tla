------------------------------ MODULE CodecCalls ------------------------------
(***************************************************************************)
(* The state of a run of the codec's calls, one after another: the call    *)
(* made (case) and what it returned (result).  Cases is the set of calls a *)
(* caller may make.  SerialCalls and DecodeCalls state what the calls of   *)
(* the serial transport and of the decoders must return; MC_HciCodec runs  *)
(* them among the other calls of the codec.                                *)
(***************************************************************************)
CONSTANT Cases          \* the calls a caller may make

VARIABLES case, result

vars == <<case, result>>

=============================================================================
