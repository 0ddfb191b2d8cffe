----------------------------- MODULE MC_HciCmd -----------------------------
(***************************************************************************)
(* Instances of HciCmd for TLC.  opReset stands for Reset (answered by a   *)
(* CommandComplete, no handle), opCreateConn for LE Create Connection      *)
(* (CommandStatus, no handle), opChanMap for LE Read Channel Map on a      *)
(* connection (CommandComplete starting with the handle), opEncrypt for    *)
(* LE Enable Encryption on a connection (CommandStatus) and opExtAdvData   *)
(* for LE Set Extended Advertising Data, whose payload may exceed 255.     *)
(***************************************************************************)
EXTENDS HciCmd

CONSTANTS opReset, opCreateConn, opChanMap, opEncrypt, opExtAdvData, h1, h2

Cmd(op, h, r, f) == [opcode |-> op, connHandle |-> h, reply |-> r, fits |-> f]

(* Two connections, each addressed by a per-connection command. *)
DispatchCommands ==
    { Cmd(opReset, NoHandle, "Complete", TRUE),
      Cmd(opCreateConn, NoHandle, "Status", TRUE),
      Cmd(opChanMap, h1, "Complete", TRUE),
      Cmd(opChanMap, h2, "Complete", TRUE) }

(* A command whose payload is too long, and one that fits. *)
OverflowCommands ==
    { Cmd(opExtAdvData, NoHandle, "Complete", FALSE),
      Cmd(opReset, NoHandle, "Complete", TRUE) }

(* Reset, issued again after a timeout. *)
ResetOnly == { Cmd(opReset, NoHandle, "Complete", TRUE) }

(* LE Enable Encryption on connection h1. *)
EncryptOnly == { Cmd(opEncrypt, h1, "Status", TRUE) }

(* LE Read Channel Map on connection h1. *)
ChanMapOnly == { Cmd(opChanMap, h1, "Complete", TRUE) }

(* Only the payload that is too long. *)
OverflowOnly == { Cmd(opExtAdvData, NoHandle, "Complete", FALSE) }

=============================================================================
