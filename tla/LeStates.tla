------------------------------ MODULE LeStates ------------------------------
(***************************************************************************)
(* The supported-states decoding of src/src/HciLe.ts: the LeState enum,    *)
(* the LeStateNames and LeAllowedStates tables, LeSupportedStates'         *)
(* fromBitmask and toString, and leReadSupportedStates of the first Hci    *)
(* class, which reads the 64-bit bitmask and hands it to fromBitmask.      *)
(* A bigint bitmask is the set of the positions of its 1 bits, so that     *)
(* bitmask & (1n << b) !== 0n is b \in bitmask.                            *)
(***************************************************************************)
EXTENDS HciCodec

(* enum LeState: the ten Link-Layer states, numbered in declaration order. *)
ScanUndirectAdv           == 0
ConnScanUndirectAdv       == 1
NonConnNonScanUndirectAdv == 2
HighDutyConnDirectAdv     == 3
LowDutyConnDirectAdv      == 4
ActiveScanning            == 5
PassiveScanning           == 6
Initiating                == 7
ConnectionMasterRole      == 8
ConnectionSlaveRole       == 9

(* LeStateNames, indexed by LeState (entry e + 1 names state e). *)
LeStateNames ==
    <<"Scannable Undirected Advertising State",
      "Connectable and Scannable Undirected Advertising State",
      "Non-connectable and Non-Scannable Undirected Advertising State",
      "High Duty Cycle Connectable Directed Advertising State",
      "Low Duty Cycle Connectable Directed Advertising State",
      "Active Scanning State",
      "Passive Scanning State",
      "Initiating State",
      "Connection State (Master Role)",
      "Connection State (Slave Role)">>

(* LeAllowedStates, indexed by bit (row b + 1 is bit b). *)
LeAllowedStates ==
    LET NC == NonConnNonScanUndirectAdv  SU == ScanUndirectAdv  CS == ConnScanUndirectAdv
        HD == HighDutyConnDirectAdv      LD == LowDutyConnDirectAdv
        PS == PassiveScanning  AS == ActiveScanning  IT == Initiating
        MR == ConnectionMasterRole  SR == ConnectionSlaveRole
    IN  << <<NC>>, <<SU>>, <<CS>>, <<HD>>, <<PS>>, <<AS>>, <<IT>>, <<SR>>,           \* 0-7
           <<NC, PS>>, <<SU, PS>>, <<CS, PS>>, <<HD, PS>>,                           \* 8-11
           <<NC, AS>>, <<SU, AS>>, <<CS, AS>>, <<HD, AS>>,                           \* 12-15
           <<NC, IT>>, <<SU, IT>>, <<NC, MR>>, <<SU, MR>>, <<NC, SR>>, <<SU, SR>>,   \* 16-21
           <<PS, IT>>, <<AS, IT>>, <<PS, MR>>, <<AS, MR>>, <<PS, SR>>, <<AS, SR>>,   \* 22-27
           <<IT, MR>>, <<LD>>, <<LD, PS>>, <<LD, AS>>,                               \* 28-31
           <<CS, IT>>, <<HD, IT>>, <<LD, IT>>, <<CS, MR>>, <<HD, MR>>, <<LD, MR>>,   \* 32-37
           <<CS, SR>>, <<HD, SR>>, <<LD, SR>>, <<IT, SR>> >>                         \* 38-41

(* params.readBigUInt64LE(0): bit j of byte i is bit 8 * i + j. *)
BitmaskOf(bytes) ==
    {b \in 0..63 : (bytes[b \div 8 + 1] \div 2^(b % 8)) % 2 = 1}

(* Mutant: the loop of fromBitmask stopping before bit 41 (b < 41n). *)
FromBitmaskTo40(bitmask) ==
    LET bits == SelectSeq([k \in 1..41 |-> k - 1], LAMBDA b : b \in bitmask)
    IN  [i \in 1..Len(bits) |-> LeAllowedStates[bits[i] + 1]]

(* LeSupportedStates.fromBitmask: the rows of the set bits 0..41, by bit. *)
FromBitmask(bitmask) ==
    LET bits == SelectSeq([k \in 1..42 |-> k - 1], LAMBDA b : b \in bitmask)
    IN  [i \in 1..Len(bits) |-> LeAllowedStates[bits[i] + 1]]

(* LeSupportedStates.toString: every state of every row by its name. *)
StatesToString(states) ==
    [i \in DOMAIN states |-> [k \in DOMAIN states[i] |-> LeStateNames[states[i][k] + 1]]]

(* leReadSupportedStates, its result given by name: the length check,     *)
(* the bigint read and fromBitmask, then toString.                          *)
SupportedStateNames(rp) ==
    LET r == LeReadSupportedStates(rp) IN
    IF r.err # "none" THEN r
    ELSE [err |-> "none", bytes |-> <<>>, names |-> StatesToString(FromBitmask(BitmaskOf(r.fields[1])))]

=============================================================================
