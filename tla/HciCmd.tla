------------------------------- MODULE HciCmd -------------------------------
(***************************************************************************)
(* The HCI command dispatcher of src/src/HciCmd.ts (class HciCmd): one     *)
(* pending-command slot (this.onResult), a timeout per call, matching of   *)
(* CommandComplete / CommandStatus events by opcode and, for per-connection *)
(* commands, by the connection handle at the start of the return          *)
(* parameters.  The events reach the dispatcher through Hci.onCommandComplete *)
(* and Hci.onCommandStatus (src/unnamed/part_000), which are part of the    *)
(* delivery actions here.  The controller on the far side of the transport *)
(* is an environment: it answers the command at the head of the transport  *)
(* with a CommandComplete or CommandStatus, or never answers it.           *)
(*                                                                         *)
(* A call of sendWaitResult runs its Promise executor synchronously, so    *)
(* the busy check, setTimeout, the installation of onResult and the write  *)
(* are one atomic step.  A timer callback and the delivery of one event    *)
(* packet are each one task of the event loop, hence one step each.        *)
(***************************************************************************)
EXTENDS Naturals, Sequences

CONSTANTS
    Opcodes,    \* opcodes of the commands callers issue
    Handles,    \* connection handles
    NoHandle,   \* cmd.connHandle === undefined
    Commands,   \* the commands a caller may issue, each a CommandType
    MaxCalls    \* bound on the number of calls of sendWaitResult

(***************************************************************************)
(* A command as the dispatcher and the controller see it: its opcode, the  *)
(* connection handle the caller registers (the handle its payload names,   *)
(* as every per-connection caller in Hci does), whether the controller     *)
(* answers it with CommandComplete or CommandStatus, and whether its       *)
(* payload fits the one-byte length field of the command packet.           *)
(***************************************************************************)
CommandType ==
    [opcode: Opcodes, connHandle: Handles \cup {NoHandle},
     reply: {"Complete", "Status"}, fits: BOOLEAN]

(***************************************************************************)
(* The returnParameters the router hands to onCmdResult, abstracted to     *)
(* what the dispatcher tells apart: undefined (CommandStatus), fewer than  *)
(* two bytes, at least two bytes starting with a connection handle, or     *)
(* bytes of a command that has no connection handle.                       *)
(***************************************************************************)
NoParams    == "none"
ShortParams == "short"
OtherParams == "data"
Params      == Handles \cup {NoParams, ShortParams, OtherParams}

Statuses == {"Success", "Error"}

ASSUME ConstantsAssumption ==
    /\ NoHandle \notin Handles
    /\ Handles \cap {NoParams, ShortParams, OtherParams} = {}
    /\ Commands \subseteq CommandType
    /\ MaxCalls \in Nat

(* How a call of sendWaitResult ends, "waiting" while its promise is open. *)
Outcomes == {"waiting", "Busy", "RangeError", "Timeout", "HciError", "Success"}

CallIds == 1..MaxCalls

(* this.onResult === null *)
None == 0

VARIABLES
    onResult,       \* None, or the call whose closure this.onResult holds
    timers,         \* calls whose setTimeout is armed and not cleared
    calls,          \* the calls of sendWaitResult so far, in call order
    toController,   \* command packets written to the transport, by call
    fromController  \* CommandComplete/CommandStatus events on their way in

vars == <<onResult, timers, calls, toController, fromController>>

(***************************************************************************)
(* A call: its command, its outcome and, when a controller event settled   *)
(* it, the call that event answered (0 otherwise).  An event carries the   *)
(* call it answers in "for"; the code never reads it, the properties do.   *)
(***************************************************************************)
Call  == [cmd: Commands, state: Outcomes, by: 0..MaxCalls]
Event == [opcode: Opcodes, status: Statuses, params: Params, for: CallIds]

(* Each variable has the type its code counterpart can hold. *)
TypeOK ==
    /\ onResult \in 0..MaxCalls
    /\ timers \subseteq CallIds
    /\ calls \in Seq(Call)
    /\ Len(calls) <= MaxCalls
    /\ toController \in Seq(CallIds)
    /\ fromController \in Seq(Event)

Init ==
    /\ onResult = None
    /\ timers = {}
    /\ calls = <<>>
    /\ toController = <<>>
    /\ fromController = <<>>

(***************************************************************************)
(* The returnParameters an answer to cmd can carry.  onCommandStatus       *)
(* passes none; a CommandComplete of a per-connection command starts with  *)
(* the handle, except an error answer that carries the status byte only.   *)
(***************************************************************************)
ReplyParams(cmd, status) ==
    IF cmd.reply = "Status" THEN {NoParams}
    ELSE IF cmd.connHandle = NoHandle THEN {OtherParams}
    ELSE IF status = "Success" THEN {cmd.connHandle}
    ELSE {cmd.connHandle, ShortParams}

StatusOutcome(e) == IF e.status = "Success" THEN "Success" ELSE "HciError"

(* Mutant: the connection-handle checks of onResult dropped. *)
AcceptsAnyHandle(cmd, e) == e.opcode = cmd.opcode

(***************************************************************************)
(* The closure onResult of a call of cmd does not return early on event e: *)
(* same opcode and, when a handle is registered, return parameters that    *)
(* are present, at least two bytes long and start with that handle.        *)
(***************************************************************************)
Accepts(cmd, e) ==
    /\ e.opcode = cmd.opcode
    /\ cmd.connHandle # NoHandle => e.params = cmd.connHandle

(* Mutant: complete() forgets clearTimeout(timeoutId). *)
CompleteNoClear(c, outcome, by) ==
    /\ onResult' = None
    /\ calls' = IF calls[c].state = "waiting"
                   THEN [calls EXCEPT ![c] = [cmd |-> @.cmd, state |-> outcome, by |-> by]]
                   ELSE calls
    /\ UNCHANGED timers

(***************************************************************************)
(* complete(err, evt) of call c: clearTimeout, this.onResult = null, then  *)
(* resolve or reject, which does nothing on a promise already settled.     *)
(***************************************************************************)
Complete(c, outcome, by) ==
    /\ timers' = timers \ {c}
    /\ onResult' = None
    /\ calls' = IF calls[c].state = "waiting"
                   THEN [calls EXCEPT ![c] = [cmd |-> @.cmd, state |-> outcome, by |-> by]]
                   ELSE calls

(* sendWaitResult while a command is pending: reject(Busy), nothing sent. *)
SendBusy(cmd) ==
    /\ Len(calls) < MaxCalls
    /\ onResult # None
    /\ calls' = Append(calls, [cmd |-> cmd, state |-> "Busy", by |-> 0])
    /\ UNCHANGED <<onResult, timers, toController, fromController>>

(* Mutant: the call id is off by one. *)
SendWriteOffByOne(cmd) ==
    /\ Len(calls) < MaxCalls
    /\ onResult = None
    /\ cmd.fits
    /\ LET c == Len(calls) IN
         /\ calls' = Append(calls, [cmd |-> cmd, state |-> "waiting", by |-> 0])
         /\ timers' = timers \cup {c}
         /\ onResult' = c
         /\ toController' = Append(toController, c)
    /\ UNCHANGED fromController

(* Mutant: the busy check of sendWaitResult dropped. *)
SendWriteNoBusyCheck(cmd) ==
    /\ Len(calls) < MaxCalls
    /\ cmd.fits
    /\ LET c == Len(calls) + 1 IN
         /\ calls' = Append(calls, [cmd |-> cmd, state |-> "waiting", by |-> 0])
         /\ timers' = timers \cup {c}
         /\ onResult' = c
         /\ toController' = Append(toController, c)
    /\ UNCHANGED fromController

(***************************************************************************)
(* sendWaitResult on an idle dispatcher: setTimeout, install onResult,     *)
(* build the packet and write it to the transport.                         *)
(***************************************************************************)
SendWrite(cmd) ==
    /\ Len(calls) < MaxCalls
    /\ onResult = None
    /\ cmd.fits
    /\ LET c == Len(calls) + 1 IN
         /\ calls' = Append(calls, [cmd |-> cmd, state |-> "waiting", by |-> 0])
         /\ timers' = timers \cup {c}
         /\ onResult' = c
         /\ toController' = Append(toController, c)
    /\ UNCHANGED fromController

(* Mutant: setTimeout moved after buildCommand, so a throw skips it. *)
SendOverflowNoTimer(cmd) ==
    /\ Len(calls) < MaxCalls
    /\ onResult = None
    /\ ~cmd.fits
    /\ LET c == Len(calls) + 1 IN
         /\ calls' = Append(calls, [cmd |-> cmd, state |-> "RangeError", by |-> 0])
         /\ onResult' = c
    /\ UNCHANGED <<timers, toController, fromController>>

(***************************************************************************)
(* sendWaitResult of a command whose payload exceeds 255 bytes: the timer  *)
(* is armed and onResult installed, then buildCommand throws RangeError    *)
(* from writeUIntLE(payloadLength, o, 1); the executor's throw rejects the *)
(* promise and nothing is written.  onResult and the timer stay.           *)
(***************************************************************************)
SendOverflow(cmd) ==
    /\ Len(calls) < MaxCalls
    /\ onResult = None
    /\ ~cmd.fits
    /\ LET c == Len(calls) + 1 IN
         /\ calls' = Append(calls, [cmd |-> cmd, state |-> "RangeError", by |-> 0])
         /\ timers' = timers \cup {c}
         /\ onResult' = c
    /\ UNCHANGED <<toController, fromController>>

(* Mutant: the timeout callback clears the slot but never rejects. *)
TimeoutNoReject(c) ==
    /\ c \in timers
    /\ timers' = timers \ {c}
    /\ onResult' = None
    /\ UNCHANGED <<calls, toController, fromController>>

(* The timer of call c fires: complete(Timeout). *)
Timeout(c) ==
    /\ c \in timers
    /\ Complete(c, "Timeout", 0)
    /\ UNCHANGED <<toController, fromController>>

(* The router hands the next event to onCmdResult; no closure installed. *)
DeliverNoPending ==
    /\ fromController # <<>>
    /\ onResult = None
    /\ fromController' = Tail(fromController)
    /\ UNCHANGED <<onResult, timers, calls, toController>>

(***************************************************************************)
(* The installed closure returns early on the next event: another opcode, *)
(* or a per-connection command whose return parameters are missing, too   *)
(* short, or start with another handle.                                    *)
(***************************************************************************)
DeliverIgnored ==
    /\ fromController # <<>>
    /\ onResult # None
    /\ ~Accepts(calls[onResult].cmd, Head(fromController))
    /\ fromController' = Tail(fromController)
    /\ UNCHANGED <<onResult, timers, calls, toController>>

(* The installed closure accepts the next event and completes its call. *)
DeliverAccepted ==
    /\ fromController # <<>>
    /\ onResult # None
    /\ Accepts(calls[onResult].cmd, Head(fromController))
    /\ Complete(onResult, StatusOutcome(Head(fromController)),
                Head(fromController).for)
    /\ fromController' = Tail(fromController)
    /\ UNCHANGED toController

(***************************************************************************)
(* The controller answers the command at the head of the transport.        *)
(***************************************************************************)
ControllerReply ==
    /\ toController # <<>>
    /\ LET c   == Head(toController)
           cmd == calls[c].cmd
       IN  \E st \in Statuses : \E p \in ReplyParams(cmd, st) :
              fromController' = Append(fromController,
                  [opcode |-> cmd.opcode, status |-> st, params |-> p, for |-> c])
    /\ toController' = Tail(toController)
    /\ UNCHANGED <<onResult, timers, calls>>

(***************************************************************************)
(* The controller discards the command at the head of the transport and    *)
(* never answers it (the host ignores Num_HCI_Command_Packets, so it may   *)
(* send while the controller has no room).                                 *)
(***************************************************************************)
ControllerDrop ==
    /\ toController # <<>>
    /\ toController' = Tail(toController)
    /\ UNCHANGED <<onResult, timers, calls, fromController>>

Next ==
    \/ \E cmd \in Commands : SendBusy(cmd) \/ SendWrite(cmd) \/ SendOverflow(cmd)
    \/ \E c \in CallIds : Timeout(c)
    \/ DeliverNoPending
    \/ DeliverIgnored
    \/ DeliverAccepted
    \/ ControllerReply
    \/ ControllerDrop

(***************************************************************************)
(* Node fires an armed timer eventually, and the transport delivers the    *)
(* bytes it has received; the controller and the callers owe nothing.     *)
(***************************************************************************)
Fairness ==
    /\ WF_vars(\E c \in CallIds : Timeout(c))
    /\ WF_vars(DeliverNoPending \/ DeliverIgnored \/ DeliverAccepted)

Spec == Init /\ [][Next]_vars

FairSpec == Spec /\ Fairness

-----------------------------------------------------------------------------
(***************************************************************************)
(* Properties.                                                             *)
(***************************************************************************)

Answered(c) == calls[c].state \in {"Success", "HciError"}

(***************************************************************************)
(* The pending slot belongs exactly to the call that is still waiting:     *)
(* a call is waiting iff its closure is in this.onResult.  Breaks if       *)
(* sendWaitResult lets a second call in, or if a call settles without the  *)
(* slot being released (buildCommand throwing after onResult was set).    *)
(***************************************************************************)
PendingSlotConsistent ==
    \A c \in 1..Len(calls) : calls[c].state = "waiting" <=> onResult = c

(***************************************************************************)
(* What the slot guarantees when buildCommand may throw: a waiting call    *)
(* always holds this.onResult, so no second command is in flight beside   *)
(* it, and the only settled call that can still hold the slot is one      *)
(* rejected with RangeError after its closure was installed; a timeout or *)
(* an accepted answer never leaves its call behind in the slot.           *)
(***************************************************************************)
PendingSlotHolder ==
    \A c \in 1..Len(calls) :
        /\ calls[c].state = "waiting" => onResult = c
        /\ onResult = c => calls[c].state \in {"waiting", "RangeError"}

(***************************************************************************)
(* The only armed timer is the one of the call holding the slot, so a      *)
(* stale timeout can never clear the slot of a later command (complete()   *)
(* must clear the timer on every path that releases the slot).            *)
(***************************************************************************)
TimerArmedIffPending == timers = {onResult} \ {None}

(***************************************************************************)
(* A call answered by the controller was answered by an event for a call  *)
(* of the same opcode and, for a per-connection command, of the same       *)
(* connection: a late answer to a timed-out command on connection A never  *)
(* resolves a later command on connection B (spec 4.3).                    *)
(***************************************************************************)
RepliesMatchConnection ==
    \A c \in 1..Len(calls) :
        Answered(c) =>
            LET d == calls[c].by IN
            /\ d \in 1..Len(calls)
            /\ calls[d].cmd.opcode = calls[c].cmd.opcode
            /\ calls[c].cmd.connHandle # NoHandle =>
                   calls[d].cmd.connHandle = calls[c].cmd.connHandle

(***************************************************************************)
(* Spec 5: once a command is cancelled (timed out), a later matching      *)
(* completion must be discarded; so a call answered by the controller was *)
(* answered by the event for that very call.                               *)
(***************************************************************************)
ResolvedByOwnReply ==
    \A c \in 1..Len(calls) : Answered(c) => calls[c].by = c

(***************************************************************************)
(* Spec 4.3: a CommandComplete or CommandStatus that answers the pending   *)
(* command resolves it, with success or with the controller error: a step *)
(* that delivers the answer to the pending call releases the slot.        *)
(***************************************************************************)
DeliversOwnReply ==
    /\ fromController # <<>>
    /\ fromController' = Tail(fromController)
    /\ onResult # None
    /\ Head(fromController).for = onResult

ReplyToPendingSettlesIt == [][DeliversOwnReply => onResult' = None]_vars

Waiting(c) == c <= Len(calls) /\ calls[c].state = "waiting"

(* Every caller's promise settles: no call waits forever. *)
EveryCallSettles == \A c \in CallIds : Waiting(c) ~> ~Waiting(c)

(* An occupied slot is released eventually, whatever the controller does. *)
SlotEventuallyFreed == (onResult # None) ~> (onResult = None)

-----------------------------------------------------------------------------
(***************************************************************************)
(* Refinement of the single-slot contract CmdSlot.  The slot is onResult,  *)
(* the calls are the calls; the timers and both directions of the link are *)
(* hidden.  The closure of a call of command c accepts the answer to a     *)
(* call of command d when d has c's opcode and, if c registers a handle,   *)
(* c's handle (the controller echoes the handle of the command it answers).*)
(***************************************************************************)
AnswerMatches(d, c) ==
    /\ d.opcode = c.opcode
    /\ c.connHandle # NoHandle => d.connHandle = c.connHandle

Slot == INSTANCE CmdSlot WITH slot <- onResult, Matches <- AnswerMatches

(***************************************************************************)
(* HciCmd behaves as the single-slot dispatcher of spec 4.3: sendWaitResult *)
(* sends only from Idle, rejects with Busy only while a call is pending,   *)
(* and every release of this.onResult by complete() (a timeout, or an      *)
(* accepted CommandComplete/CommandStatus) settles exactly the pending     *)
(* call.  Holds when every payload fits; see overflow_slot otherwise.      *)
(***************************************************************************)
ImplementsCmdSlot == Slot!Spec

=============================================================================
