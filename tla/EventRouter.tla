----------------------------- MODULE EventRouter -----------------------------
(***************************************************************************)
(* The inbound path of the second Hci class of src/unnamed/part_000:       *)
(* onData, onHciEvent and the event handlers.  One call of onData(pt,      *)
(* data) is one task of the event loop and runs to completion, so it is a  *)
(* function of the packet and of the listeners registered: the result is  *)
(* the list of what the router did, in order (a result handed to           *)
(* HciCmd.onCmdResult, or a listener called with an event), and whether a  *)
(* handler threw; onData catches every throw and only logs it.             *)
(*                                                                         *)
(* A listener either returns or throws.  EventEmitter.emit calls the       *)
(* listeners of a label in registration order and lets a throw propagate   *)
(* at once, so the listeners after a throwing one are not called.          *)
(*                                                                         *)
(* The event codes and packet types are imported by the code from modules  *)
(* that are not part of src/; their values are those of the Core           *)
(* specification (spec.md 6).                                              *)
(***************************************************************************)
EXTENDS Naturals, Sequences, SequencesExt

PktCommand == 1
PktAclData == 2
PktEvent   == 4

EvDisconnectionComplete    == 5
EvEncryptionChange         == 8
EvCommandComplete          == 14
EvCommandStatus            == 15
EvNumberOfCompletedPackets == 19
EvLeMeta                   == 62

LeConnectionCompleteEv         == 1
LeAdvertisingReportEv          == 2
LeConnectionUpdateCompleteEv   == 3
LeReadRemoteFeaturesCompleteEv == 4
LeEnhancedConnectionCompleteEv == 10
LeExtendedAdvertisingReportEv  == 13
LeChannelSelectionAlgorithmEv  == 20

(* An effect: onCmdResult(result), or listener i called with an event.     *)
(* vals are the numbers the event or result carries, bytes its buffer.     *)
CmdResult(hasParams, vals, bytes) ==
    [kind |-> "cmdResult", label |-> IF hasParams THEN "params" ELSE "noParams",
     listener |-> 0, vals |-> vals, bytes |-> bytes]
Deliver(i, label, vals) ==
    [kind |-> "deliver", label |-> label, listener |-> i, vals |-> vals, bytes |-> <<>>]

Done(out)  == [out |-> out, threw |-> FALSE]
Thrown(out) == [out |-> out, threw |-> TRUE]
Nothing    == Done(<<>>)

(* buf.readUIntLE(o, w), when o + w <= buf.length (0-based offset o). *)
ReadLE(b, o, w) == IF w = 1 THEN b[o + 1] ELSE b[o + 1] + 256 * b[o + 2]

Fits(b, o, w) == o + w <= Len(b)

(***************************************************************************)
(* this.emit(label, ...vals) with the listeners L: each is called in turn  *)
(* until one throws.                                                       *)
(***************************************************************************)
Emit(L, label, vals) ==
    LET throws == {i \in 1..Len(L) : L[i] = "throws"}
        last   == IF throws = {} THEN Len(L)
                  ELSE CHOOSE i \in throws : \A j \in throws : i <= j
    IN  [out |-> [i \in 1..last |-> Deliver(i, label, vals)], threw |-> throws # {}]

(* The next handler runs only if the one before did not throw. *)
Then(r, s) == IF r.threw THEN r ELSE [out |-> r.out \o s.out, threw |-> s.threw]

(* emitEvent(label, status, event): the error argument is made from status. *)
EmitEvent(L, label, status, vals) == Emit(L, label, <<status>> \o vals)

(* onDisconnectionComplete / onEncryptionChange: a size other than 4 is     *)
(* only logged; the reads of status, handle and the last byte throw on a   *)
(* shorter payload.                                                        *)
OnFourByteEvent(p, L, label) ==
    IF ~Fits(p, 3, 1) THEN Thrown(<<>>)
    ELSE EmitEvent(L, label, ReadLE(p, 0, 1), <<ReadLE(p, 1, 2), ReadLE(p, 3, 1)>>)

OnDisconnectionComplete(p, L) == OnFourByteEvent(p, L, "DisconnectionComplete")
OnEncryptionChange(p, L)      == OnFourByteEvent(p, L, "EncryptionChange")

(* Mutant: the opcode read with readInt16LE instead of readUInt16LE. *)
OnCommandCompleteSignedOpcode(p) ==
    IF Len(p) < 4 THEN Nothing
    ELSE LET o == ReadLE(p, 1, 2) IN
         Done(<<CmdResult(TRUE, <<p[4], p[1], IF o >= 32768 THEN o - 65536 ELSE o>>,
                          SubSeq(p, 5, Len(p)))>>)

(* onCommandComplete: status p[3], numHciPackets p[0], opcode at 1, returnParameters p[4..]. *)
OnCommandComplete(p) ==
    IF Len(p) < 4 THEN Nothing
    ELSE Done(<<CmdResult(TRUE, <<p[4], p[1], ReadLE(p, 1, 2)>>, SubSeq(p, 5, Len(p)))>>)

(* Mutant: onCommandStatus reads its fields where CommandComplete has them. *)
OnCommandStatusAsComplete(p) ==
    IF Len(p) < 4 THEN Nothing
    ELSE Done(<<CmdResult(FALSE, <<p[4], p[1], ReadLE(p, 1, 2)>>, <<>>)>>)

(* onCommandStatus: status p[0], numHciPackets p[1], opcode at 2, no returnParameters. *)
OnCommandStatus(p) ==
    IF Len(p) < 4 THEN Nothing
    ELSE Done(<<CmdResult(FALSE, <<p[1], p[2], ReadLE(p, 2, 2)>>, <<>>)>>)

(* onNumberOfCompletedPackets parses the handles and counts and only logs  *)
(* them; a short payload throws a RangeError that onData swallows.         *)
OnNumberOfCompletedPackets(p) ==
    IF Len(p) >= 1 /\ Fits(p, 1, 4 * p[1]) THEN Nothing ELSE Thrown(<<>>)

(* LeAdvReport.parse and LeExtAdvReport.parse (outside src/): the reports  *)
(* of the event, Num_Reports = data[0] of the Core specification.          *)
(* Report k is named by its position.                                        *)
LeReports(d) == IF Len(d) >= 1 THEN [k \in 1..d[1] |-> k] ELSE <<>>

(* for (const report of reports) this.emit(label, report) *)
EmitReports(L, label, d) ==
    FoldLeft(LAMBDA r, k : Then(r, Emit(L, label, <<k>>)), Nothing, LeReports(d))

(* onLeChannelSelectionAlgorithm: connectionHandle at 0, algorithm at 2. *)
OnLeChannelSelectionAlgorithm(d, L) ==
    IF ~Fits(d, 2, 1) THEN Thrown(<<>>)
    ELSE Emit(L, "LeChannelSelectionAlgorithm", <<ReadLE(d, 0, 2), ReadLE(d, 2, 1)>>)

(* onLeEvent: subevent code data[0], the handler gets data[1..]. *)
OnLeEvent(p, L) ==
    LET d == IF Len(p) = 0 THEN <<>> ELSE Tail(p)
        sub == IF Len(p) = 0 THEN 0 ELSE p[1]
    IN  CASE sub = LeAdvertisingReportEv         -> EmitReports(L, "LeAdvertisingReport", d)
          [] sub = LeExtendedAdvertisingReportEv -> EmitReports(L, "LeExtendedAdvertisingReport", d)
          [] sub = LeChannelSelectionAlgorithmEv -> OnLeChannelSelectionAlgorithm(d, L)
          [] sub = LeConnectionCompleteEv        -> Emit(L, "LeConnectionComplete", <<>>)
          [] sub = LeConnectionUpdateCompleteEv  -> Emit(L, "LeConnectionUpdateComplete", <<>>)
          [] sub = LeReadRemoteFeaturesCompleteEv -> Emit(L, "LeReadRemoteFeaturesComplete", <<>>)
          [] sub = LeEnhancedConnectionCompleteEv -> Emit(L, "LeEnhancedConnectionComplete", <<>>)
          [] OTHER -> Nothing

(* onHciEvent: a frame shorter than its header, or whose length byte       *)
(* disagrees with the payload, is only logged; then switch on the code.    *)
OnHciEvent(data, L) ==
    IF Len(data) < 2 THEN Nothing
    ELSE LET code == data[1]
             p    == SubSeq(data, 3, Len(data))
         IN  IF data[2] # Len(p) THEN Nothing
             ELSE CASE code = EvDisconnectionComplete    -> OnDisconnectionComplete(p, L)
                    [] code = EvEncryptionChange         -> OnEncryptionChange(p, L)
                    [] code = EvCommandComplete          -> OnCommandComplete(p)
                    [] code = EvCommandStatus            -> OnCommandStatus(p)
                    [] code = EvNumberOfCompletedPackets -> OnNumberOfCompletedPackets(p)
                    [] code = EvLeMeta                   -> OnLeEvent(p, L)
                    [] OTHER                             -> Nothing

(* onData(packetType, data): only event packets are handled; a throw is caught. *)
OnData(pt, data, L) == IF pt = PktEvent THEN OnHciEvent(data, L) ELSE Nothing

=============================================================================
