---------------------------- MODULE MC_LegacyHci ----------------------------
(***************************************************************************)
(* Instances of LegacyHci for TLC.  opReset and opScanEnable stand for two *)
(* commands whose params fit, opAdvData for a command issued with params   *)
(* over 255 bytes.                                                         *)
(***************************************************************************)
EXTENDS LegacyHci

CONSTANTS opReset, opScanEnable, opAdvData

(* Two commands that fit, and one that overflows the length byte. *)
LegacyCommands ==
    { [opcode |-> opReset, fits |-> TRUE],
      [opcode |-> opScanEnable, fits |-> TRUE],
      [opcode |-> opAdvData, fits |-> FALSE] }

(* Only the commands that fit. *)
FittingCommands == { c \in LegacyCommands : c.fits }

(* Reset only, issued again after a timeout. *)
LegacyResetOnly == { [opcode |-> opReset, fits |-> TRUE] }

=============================================================================
