------------------------------ MODULE LegacyHci ------------------------------
(***************************************************************************)
(* The command dispatcher of the first Hci class of src/unnamed/part_000   *)
(* (send, onData): one pending slot (this.onCmdComplete), the opcode of    *)
(* the last command sent in the field this.cmdOpcode, a timeout per call,  *)
(* and an onData that validates each event frame itself and hands a       *)
(* CommandComplete to the installed closure.  The closure compares the     *)
(* event's opcode with this.cmdOpcode when it runs, not with the opcode of *)
(* its own call.                                                           *)
(*                                                                         *)
(* As in HciCmd, a call of send runs its Promise executor synchronously    *)
(* (one step), and a timer callback and the delivery of one frame are one  *)
(* step each.  The controller answers the command at the head of the link  *)
(* with a CommandComplete, or never answers it; the link hands the answer  *)
(* to onData whole or mangled (cut short, or with a length byte that does  *)
(* not match), since init.setEventHandler passes whatever the transport    *)
(* read.                                                                   *)
(***************************************************************************)
EXTENDS Naturals, Sequences

CONSTANTS
    Opcodes,    \* opcodes of the commands callers issue
    Commands,   \* the commands a caller may issue, each a CommandType
    MaxCalls    \* bound on the number of calls of send

(* A command: its opcode, and whether its params fit the length byte. *)
CommandType == [opcode: Opcodes, fits: BOOLEAN]

ASSUME LegacyConstantsAssumption ==
    /\ Commands \subseteq CommandType
    /\ 0 \notin Opcodes
    /\ MaxCalls \in Nat

Outcomes == {"waiting", "Busy", "RangeError", "Timeout", "HciError", "Success"}

CallIds == 1..MaxCalls

(* this.onCmdComplete === null *)
None == 0

(***************************************************************************)
(* A frame as onData receives it: a whole CommandComplete ("cc"), one cut  *)
(* below its two-byte header ("tooShort"), one whose length byte disagrees *)
(* with its payload ("badLength"), or a CommandComplete whose payload is   *)
(* shorter than four bytes ("ccShort").  "for" is the call it answers;     *)
(* the code never reads it.                                                *)
(***************************************************************************)
FrameKinds == {"cc", "tooShort", "badLength", "ccShort"}
Statuses == {"Success", "Error"}
Frame == [kind: FrameKinds, opcode: Opcodes, status: Statuses, for: CallIds]

VARIABLES
    onCmdComplete,  \* None, or the call whose closure is installed
    cmdOpcode,      \* this.cmdOpcode (0 until the first send)
    timers,         \* calls whose setTimeout is armed and not cleared
    calls,          \* the calls of send so far, in call order
    toController,   \* command packets written by sendRaw, by call
    fromController, \* frames on their way to onData
    parserErrors    \* how many 'parser-error' events were emitted

vars == <<onCmdComplete, cmdOpcode, timers, calls, toController, fromController, parserErrors>>

Call == [cmd: Commands, state: Outcomes, by: 0..MaxCalls]

(* Each variable has the type its code counterpart can hold, and the slot  *)
(* names a call already made.                                              *)
LegacyTypeOK ==
    /\ calls \in Seq(Call)
    /\ Len(calls) <= MaxCalls
    /\ onCmdComplete \in 0..Len(calls)
    /\ cmdOpcode \in Opcodes \cup {0}
    /\ timers \subseteq CallIds
    /\ toController \in Seq(CallIds)
    /\ fromController \in Seq(Frame)
    /\ parserErrors \in Nat

Init ==
    /\ onCmdComplete = None
    /\ cmdOpcode = 0
    /\ timers = {}
    /\ calls = <<>>
    /\ toController = <<>>
    /\ fromController = <<>>
    /\ parserErrors = 0

(* Mutant: complete() forgets clearTimeout(timeoutId). *)
CompleteNoClear(c, outcome, by) ==
    /\ onCmdComplete' = None
    /\ calls' = IF calls[c].state = "waiting"
                   THEN [calls EXCEPT ![c] = [cmd |-> @.cmd, state |-> outcome, by |-> by]]
                   ELSE calls
    /\ UNCHANGED timers

(* complete(err, evt) of call c: clearTimeout, this.onCmdComplete = null,  *)
(* then resolve or reject (nothing on a promise already settled).          *)
Complete(c, outcome, by) ==
    /\ timers' = timers \ {c}
    /\ onCmdComplete' = None
    /\ calls' = IF calls[c].state = "waiting"
                   THEN [calls EXCEPT ![c] = [cmd |-> @.cmd, state |-> outcome, by |-> by]]
                   ELSE calls

(* send while a command is pending: reject(Busy). *)
SendBusy(cmd) ==
    /\ Len(calls) < MaxCalls
    /\ onCmdComplete # None
    /\ calls' = Append(calls, [cmd |-> cmd, state |-> "Busy", by |-> 0])
    /\ UNCHANGED <<onCmdComplete, cmdOpcode, timers, toController, fromController, parserErrors>>

(* Mutant: the call id is off by one. *)
SendWriteOffByOne(cmd) ==
    /\ Len(calls) < MaxCalls
    /\ onCmdComplete = None
    /\ cmd.fits
    /\ LET c == Len(calls) + 2 IN
         /\ calls' = Append(calls, [cmd |-> cmd, state |-> "waiting", by |-> 0])
         /\ timers' = timers \cup {c}
         /\ onCmdComplete' = c
         /\ cmdOpcode' = cmd.opcode
         /\ toController' = Append(toController, c)
    /\ UNCHANGED <<fromController, parserErrors>>

(* Mutant: the this.onCmdComplete !== null check of send dropped. *)
SendWriteNoBusyCheck(cmd) ==
    /\ Len(calls) < MaxCalls
    /\ cmd.fits
    /\ LET c == Len(calls) + 1 IN
         /\ calls' = Append(calls, [cmd |-> cmd, state |-> "waiting", by |-> 0])
         /\ timers' = timers \cup {c}
         /\ onCmdComplete' = c
         /\ cmdOpcode' = cmd.opcode
         /\ toController' = Append(toController, c)
    /\ UNCHANGED <<fromController, parserErrors>>

(***************************************************************************)
(* send on an idle dispatcher: setTimeout, install onCmdComplete, set      *)
(* this.cmdOpcode, then sendRaw(buildBuffer(cmd)).                         *)
(***************************************************************************)
SendWrite(cmd) ==
    /\ Len(calls) < MaxCalls
    /\ onCmdComplete = None
    /\ cmd.fits
    /\ LET c == Len(calls) + 1 IN
         /\ calls' = Append(calls, [cmd |-> cmd, state |-> "waiting", by |-> 0])
         /\ timers' = timers \cup {c}
         /\ onCmdComplete' = c
         /\ cmdOpcode' = cmd.opcode
         /\ toController' = Append(toController, c)
    /\ UNCHANGED <<fromController, parserErrors>>

(***************************************************************************)
(* The same with params over 255 bytes: buildBuffer's writeUInt8 of the    *)
(* length throws RangeError, which rejects the promise; the timer, the     *)
(* closure and this.cmdOpcode stay, and nothing is sent.                   *)
(***************************************************************************)
SendOverflow(cmd) ==
    /\ Len(calls) < MaxCalls
    /\ onCmdComplete = None
    /\ ~cmd.fits
    /\ LET c == Len(calls) + 1 IN
         /\ calls' = Append(calls, [cmd |-> cmd, state |-> "RangeError", by |-> 0])
         /\ timers' = timers \cup {c}
         /\ onCmdComplete' = c
         /\ cmdOpcode' = cmd.opcode
    /\ UNCHANGED <<toController, fromController, parserErrors>>

(* Mutant: the timeout callback clears the slot but never rejects. *)
TimeoutNoReject(c) ==
    /\ c \in timers
    /\ timers' = timers \ {c}
    /\ onCmdComplete' = None
    /\ UNCHANGED <<calls, cmdOpcode, toController, fromController, parserErrors>>

(* The timer of call c fires: complete(Timeout). *)
Timeout(c) ==
    /\ c \in timers
    /\ Complete(c, "Timeout", 0)
    /\ UNCHANGED <<cmdOpcode, toController, fromController, parserErrors>>

(* onData on a frame below two bytes: debug() only. *)
DeliverTooShort ==
    /\ fromController # <<>>
    /\ Head(fromController).kind = "tooShort"
    /\ fromController' = Tail(fromController)
    /\ UNCHANGED <<onCmdComplete, cmdOpcode, timers, calls, toController, parserErrors>>

(* onData on a length mismatch or a short CommandComplete: emit parser-error. *)
DeliverMalformed ==
    /\ fromController # <<>>
    /\ Head(fromController).kind \in {"badLength", "ccShort"}
    /\ parserErrors' = parserErrors + 1
    /\ fromController' = Tail(fromController)
    /\ UNCHANGED <<onCmdComplete, cmdOpcode, timers, calls, toController>>

(* A CommandComplete with no closure installed. *)
DeliverNoPending ==
    /\ fromController # <<>>
    /\ Head(fromController).kind = "cc"
    /\ onCmdComplete = None
    /\ fromController' = Tail(fromController)
    /\ UNCHANGED <<onCmdComplete, cmdOpcode, timers, calls, toController, parserErrors>>

(* The closure returns early: this.cmdOpcode !== evt.opcode. *)
DeliverIgnored ==
    /\ fromController # <<>>
    /\ Head(fromController).kind = "cc"
    /\ onCmdComplete # None
    /\ Head(fromController).opcode # cmdOpcode
    /\ fromController' = Tail(fromController)
    /\ UNCHANGED <<onCmdComplete, cmdOpcode, timers, calls, toController, parserErrors>>

(* Mutant: the closure drops its this.cmdOpcode !== evt.opcode check. *)
DeliverAcceptedAnyOpcode ==
    /\ fromController # <<>>
    /\ Head(fromController).kind = "cc"
    /\ onCmdComplete # None
    /\ Complete(onCmdComplete,
                IF Head(fromController).status = "Success" THEN "Success" ELSE "HciError",
                Head(fromController).for)
    /\ fromController' = Tail(fromController)
    /\ UNCHANGED <<cmdOpcode, toController, parserErrors>>

(* The closure completes its call with success or with the HCI error. *)
DeliverAccepted ==
    /\ fromController # <<>>
    /\ Head(fromController).kind = "cc"
    /\ onCmdComplete # None
    /\ Head(fromController).opcode = cmdOpcode
    /\ Complete(onCmdComplete,
                IF Head(fromController).status = "Success" THEN "Success" ELSE "HciError",
                Head(fromController).for)
    /\ fromController' = Tail(fromController)
    /\ UNCHANGED <<cmdOpcode, toController, parserErrors>>

(* The controller answers the command at the head of the link; the link  *)
(* delivers the answer whole or mangled.                                   *)
ControllerReply ==
    /\ toController # <<>>
    /\ \E k \in FrameKinds, st \in Statuses :
          fromController' = Append(fromController,
              [kind |-> k, opcode |-> calls[Head(toController)].cmd.opcode,
               status |-> st, for |-> Head(toController)])
    /\ toController' = Tail(toController)
    /\ UNCHANGED <<onCmdComplete, cmdOpcode, timers, calls, parserErrors>>

(* The controller never answers the command at the head of the link. *)
ControllerDrop ==
    /\ toController # <<>>
    /\ toController' = Tail(toController)
    /\ UNCHANGED <<onCmdComplete, cmdOpcode, timers, calls, fromController, parserErrors>>

Deliver ==
    \/ DeliverTooShort
    \/ DeliverMalformed
    \/ DeliverNoPending
    \/ DeliverIgnored
    \/ DeliverAccepted

Next ==
    \/ \E cmd \in Commands : SendBusy(cmd) \/ SendWrite(cmd) \/ SendOverflow(cmd)
    \/ \E c \in CallIds : Timeout(c)
    \/ Deliver
    \/ ControllerReply
    \/ ControllerDrop

(* Node fires an armed timer and onData runs on what the transport read. *)
Fairness ==
    /\ WF_vars(\E c \in CallIds : Timeout(c))
    /\ WF_vars(Deliver)

Spec == Init /\ [][Next]_vars

FairSpec == Spec /\ Fairness

-----------------------------------------------------------------------------
Answered(c) == calls[c].state \in {"Success", "HciError"}

(***************************************************************************)
(* The only armed timer is the one of the call holding this.onCmdComplete, *)
(* so no stale timeout can complete a later call.                           *)
(***************************************************************************)
TimerArmedIffPending == timers = {onCmdComplete} \ {None}

(***************************************************************************)
(* A call answered by the controller was answered by a CommandComplete for *)
(* a call of the same opcode, although the closure compares the event with *)
(* the shared field this.cmdOpcode rather than with its own command: the  *)
(* field always holds the opcode of the call that holds the slot.          *)
(***************************************************************************)
RepliesMatchOpcode ==
    \A c \in 1..Len(calls) :
        Answered(c) =>
            /\ calls[c].by \in 1..Len(calls)
            /\ calls[calls[c].by].cmd.opcode = calls[c].cmd.opcode

Waiting(c) == c <= Len(calls) /\ calls[c].state = "waiting"

(***************************************************************************)
(* A waiting call always holds this.onCmdComplete, so no second command is *)
(* in flight beside it, and the only settled call that can still hold the *)
(* slot is one whose buildBuffer threw RangeError after send installed its *)
(* closure; a timeout or an accepted CommandComplete never leaves its call *)
(* behind in the slot.                                                     *)
(***************************************************************************)
PendingSlotHolder ==
    \A c \in 1..Len(calls) :
        /\ calls[c].state = "waiting" => onCmdComplete = c
        /\ onCmdComplete = c => calls[c].state \in {"waiting", "RangeError"}

(***************************************************************************)
(* Spec 5: a completion arriving after its command timed out must be      *)
(* discarded, so a call answered by the controller was answered by the    *)
(* CommandComplete for that very call.                                     *)
(***************************************************************************)
ResolvedByOwnReply ==
    \A c \in 1..Len(calls) : Answered(c) => calls[c].by = c

(* Every caller's promise settles, whether its answer is lost or mangled. *)
EveryCallSettles == \A c \in CallIds : Waiting(c) ~> ~Waiting(c)

-----------------------------------------------------------------------------
(* Refinement of the single-slot contract CmdSlot, matching on opcode. *)
SameOpcode(d, c) == d.opcode = c.opcode

Slot == INSTANCE CmdSlot WITH slot <- onCmdComplete, Matches <- SameOpcode

(***************************************************************************)
(* The first Hci class behaves as the single-slot dispatcher of spec 4.3   *)
(* when every command's params fit the length byte: send sends only from  *)
(* Idle and rejects with Busy only while a call is pending, and every      *)
(* release of this.onCmdComplete settles exactly the pending call.         *)
(***************************************************************************)
ImplementsCmdSlot == Slot!Spec

=============================================================================
