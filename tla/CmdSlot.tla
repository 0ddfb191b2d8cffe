------------------------------ MODULE CmdSlot ------------------------------
(***************************************************************************)
(* What a single-slot HCI command dispatcher promises its callers, after   *)
(* the command-dispatcher contract of spec.md (sections 4.3 and 5): the    *)
(* dispatcher is Idle or Pending with one call; a call made while it is    *)
(* Pending is rejected with Busy and nothing is sent; a call made while it *)
(* is Idle is sent and makes it Pending; the pending call ends, and the    *)
(* dispatcher becomes Idle again, when its deadline expires or when an     *)
(* answer is accepted for it.  An accepted answer is the answer to a call  *)
(* whose command the pending one Matches (the completion-matching rule of  *)
(* the implementation: same opcode, and for a registered connection handle *)
(* the same handle).                                                       *)
(*                                                                         *)
(* calls records every call in the order it was made, with the command,   *)
(* how it ended ("waiting" while open) and, for an answered call, the call *)
(* whose answer resolved it.                                               *)
(***************************************************************************)
EXTENDS Naturals, Sequences

CONSTANTS
    Commands,       \* the commands a caller may issue
    Matches(_, _),  \* Matches(d, c): an answer to command d may resolve c
    MaxCalls        \* bound on the number of calls

VARIABLES slot, calls

Idle == 0

Call == [cmd: Commands,
         state: {"waiting", "Busy", "Timeout", "HciError", "Success"},
         by: 0..MaxCalls]

SlotTypeOK ==
    /\ calls \in Seq(Call)
    /\ Len(calls) <= MaxCalls
    /\ slot \in 0..Len(calls)

Init ==
    /\ slot = Idle
    /\ calls = <<>>

(* A call while a command is pending is rejected with Busy. *)
Busy(cmd) ==
    /\ Len(calls) < MaxCalls
    /\ slot # Idle
    /\ calls' = Append(calls, [cmd |-> cmd, state |-> "Busy", by |-> 0])
    /\ UNCHANGED slot

(* A call on an idle dispatcher is sent and becomes the pending call. *)
Issue(cmd) ==
    /\ Len(calls) < MaxCalls
    /\ slot = Idle
    /\ calls' = Append(calls, [cmd |-> cmd, state |-> "waiting", by |-> 0])
    /\ slot' = Len(calls) + 1

(* The pending call ends with outcome; the dispatcher is idle again. *)
Settle(outcome, by) ==
    /\ slot # Idle
    /\ calls' = [calls EXCEPT ![slot] = [cmd |-> @.cmd, state |-> outcome, by |-> by]]
    /\ slot' = Idle

(* The deadline of the pending call expires. *)
Expire == Settle("Timeout", 0)

(* An answer to call d, whose command the pending one Matches, resolves it. *)
Resolve ==
    \E d \in 1..Len(calls), outcome \in {"Success", "HciError"} :
        /\ slot # Idle
        /\ Matches(calls[d].cmd, calls[slot].cmd)
        /\ Settle(outcome, d)

Next ==
    \/ \E cmd \in Commands : Busy(cmd) \/ Issue(cmd)
    \/ Expire
    \/ Resolve

Spec == Init /\ [][Next]_<<slot, calls>>

=============================================================================
