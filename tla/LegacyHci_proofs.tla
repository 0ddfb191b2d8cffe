--------------------------- MODULE LegacyHci_proofs ---------------------------
(***************************************************************************)
(* Proofs about the dispatcher of the first Hci class (LegacyHci), for     *)
(* every value of the constants that satisfies LegacyConstantsAssumption.  *)
(*                                                                         *)
(* The closure of send compares an event with the field this.cmdOpcode,    *)
(* not with its own command.  What makes that safe is the fact SlotOpcode: *)
(* while a closure is installed, the field holds the opcode of the call    *)
(* that installed it, since send writes the field right after installing  *)
(* the closure and no other code writes it.  With that fact, and the fact  *)
(* that every frame on its way in answers the call it names, a call is     *)
(* resolved only by an answer to a call of its own opcode.                 *)
(***************************************************************************)
EXTENDS LegacyHci, TLAPS

USE LegacyConstantsAssumption

(* Every command packet on the transport is the packet of an issued call. *)
PacketsOfCalls ==
    \A i \in 1..Len(toController) : toController[i] \in 1..Len(calls)

(* Every frame on its way in carries the opcode of the call it answers. *)
FramesAnswerCalls ==
    \A i \in 1..Len(fromController) :
        /\ fromController[i].for \in 1..Len(calls)
        /\ fromController[i].opcode = calls[fromController[i].for].cmd.opcode

(* this.cmdOpcode is the opcode of the call whose closure is installed. *)
SlotOpcode ==
    onCmdComplete # None => cmdOpcode = calls[onCmdComplete].cmd.opcode

(* The inductive invariant. *)
IInv ==
    /\ LegacyTypeOK
    /\ TimerArmedIffPending
    /\ PacketsOfCalls
    /\ FramesAnswerCalls
    /\ SlotOpcode
    /\ RepliesMatchOpcode

-----------------------------------------------------------------------------

(* What complete() of an issued call c does to the calls: each keeps its   *)
(* command, only c may change, and c changes only while it is waiting.     *)
LEMMA CompleteFacts ==
    ASSUME LegacyTypeOK, NEW c \in 1..Len(calls), NEW outcome \in Outcomes,
           NEW by \in 0..MaxCalls, Complete(c, outcome, by)
    PROVE  /\ calls' \in Seq(Call)
           /\ Len(calls') = Len(calls)
           /\ \A x \in 1..Len(calls) : calls'[x].cmd = calls[x].cmd
           /\ \A x \in 1..Len(calls) : x # c => calls'[x] = calls[x]
           /\ calls[c].state = "waiting" =>
                 calls'[c].state = outcome /\ calls'[c].by = by
           /\ calls[c].state # "waiting" => calls'[c] = calls[c]
           /\ timers' = timers \ {c}
           /\ onCmdComplete' = None
<1>1. CASE calls[c].state = "waiting"
  <2>1. calls' = [calls EXCEPT ![c] = [cmd |-> calls[c].cmd, state |-> outcome, by |-> by]]
    BY <1>1 DEF Complete
  <2>2. calls[c].cmd \in Commands
    <3>1. calls[c] \in Call
      BY DEF LegacyTypeOK
    <3>. QED
      BY <3>1 DEF Call
  <2>3. [cmd |-> calls[c].cmd, state |-> outcome, by |-> by] \in Call
    BY <2>2 DEF Call
  <2>. QED
    BY <1>1, <2>1, <2>3 DEF LegacyTypeOK, Complete
<1>2. CASE calls[c].state # "waiting"
  BY <1>2 DEF LegacyTypeOK, Complete
<1>. QED
  BY <1>1, <1>2

(* Taking the head off a queue keeps the rest in order. *)
LEMMA TailFacts ==
    ASSUME NEW S, NEW q \in Seq(S), q # <<>>
    PROVE  /\ Tail(q) \in Seq(S)
           /\ Len(Tail(q)) = Len(q) - 1
           /\ \A i \in 1..Len(Tail(q)) : Tail(q)[i] = q[i + 1]
           /\ Head(q) = q[1]
           /\ Head(q) \in S
OBVIOUS

(* The frames left after the head was delivered still answer their calls, *)
(* as long as the calls keep their commands and their number.              *)
LEMMA FramesAfterDelivery ==
    ASSUME IInv, fromController # <<>>,
           fromController' = Tail(fromController),
           calls' \in Seq(Call), Len(calls') = Len(calls),
           \A x \in 1..Len(calls) : calls'[x].cmd = calls[x].cmd
    PROVE  /\ fromController' \in Seq(Frame)
           /\ FramesAnswerCalls'
<1>1. fromController \in Seq(Frame)
  BY DEF IInv, LegacyTypeOK
<1>2. /\ fromController' \in Seq(Frame)
      /\ Len(fromController') = Len(fromController) - 1
      /\ \A i \in 1..Len(fromController') : fromController'[i] = fromController[i + 1]
  BY <1>1, TailFacts
<1>3. ASSUME NEW i \in 1..Len(fromController')
      PROVE  /\ fromController'[i].for \in 1..Len(calls')
             /\ fromController'[i].opcode = calls'[fromController'[i].for].cmd.opcode
  <2> DEFINE f == fromController[i + 1]
  <2>1. fromController'[i] = f
    BY <1>2
  <2>2. f.for \in 1..Len(calls) /\ f.opcode = calls[f.for].cmd.opcode
    BY <1>2 DEF IInv, FramesAnswerCalls
  <2>. QED
    BY <2>1, <2>2
<1>. QED
  BY <1>2, <1>3 DEF FramesAnswerCalls

-----------------------------------------------------------------------------

LEMMA InitIInv == Init => IInv
BY DEF Init, IInv, LegacyTypeOK, TimerArmedIffPending, None, PacketsOfCalls,
       FramesAnswerCalls, SlotOpcode, RepliesMatchOpcode

(* A call of send appends a call that is not answered; old calls stay. *)
LEMMA SendIInv ==
    ASSUME IInv, NEW cmd \in Commands,
           SendBusy(cmd) \/ SendWrite(cmd) \/ SendOverflow(cmd)
    PROVE  IInv'
<1> DEFINE n == Len(calls) + 1
<1>1. PICK st \in {"Busy", "waiting", "RangeError"} :
         calls' = Append(calls, [cmd |-> cmd, state |-> st, by |-> 0])
  BY DEF SendBusy, SendWrite, SendOverflow
<1>2. /\ n <= MaxCalls
      /\ fromController' = fromController
      /\ parserErrors' = parserErrors
      /\ cmd.opcode \in Opcodes
  BY DEF SendBusy, SendWrite, SendOverflow, CommandType
<1>3. /\ calls' \in Seq(Call)
      /\ Len(calls') = n
      /\ \A x \in 1..Len(calls) : calls'[x] = calls[x]
      /\ calls'[n] = [cmd |-> cmd, state |-> st, by |-> 0]
  <2>1. [cmd |-> cmd, state |-> st, by |-> 0] \in Call
    BY DEF Call, Outcomes
  <2>. QED
    BY <1>1, <2>1 DEF IInv, LegacyTypeOK
<1>4. n \in CallIds
  BY <1>2 DEF CallIds, IInv, LegacyTypeOK
<1>5. RepliesMatchOpcode'
  <2> SUFFICES ASSUME NEW x \in 1..Len(calls'), Answered(x)'
               PROVE  /\ calls'[x].by \in 1..Len(calls')
                      /\ calls'[calls'[x].by].cmd.opcode = calls'[x].cmd.opcode
    BY DEF RepliesMatchOpcode
  <2>1. x # n
    BY <1>1, <1>3 DEF Answered
  <2>2. x \in 1..Len(calls) /\ calls'[x] = calls[x] /\ Answered(x)
    BY <1>3, <2>1 DEF Answered
  <2>3. /\ calls[x].by \in 1..Len(calls)
        /\ calls[calls[x].by].cmd.opcode = calls[x].cmd.opcode
    BY <2>2 DEF IInv, RepliesMatchOpcode
  <2>. QED
    BY <1>3, <2>2, <2>3
<1>6. FramesAnswerCalls'
  BY <1>2, <1>3 DEF IInv, FramesAnswerCalls
<1>7. CASE SendBusy(cmd)
  <2>1. UNCHANGED <<onCmdComplete, cmdOpcode, timers, toController>>
    BY <1>7 DEF SendBusy
  <2>2. LegacyTypeOK'
    BY <1>2, <1>3, <2>1 DEF IInv, LegacyTypeOK
  <2>3. TimerArmedIffPending' /\ PacketsOfCalls'
    BY <1>3, <2>1 DEF IInv, LegacyTypeOK, TimerArmedIffPending, PacketsOfCalls
  <2>4. SlotOpcode'
    BY <1>3, <2>1 DEF IInv, LegacyTypeOK, SlotOpcode, None
  <2>. QED
    BY <1>5, <1>6, <2>2, <2>3, <2>4 DEF IInv
<1>8. CASE SendWrite(cmd) \/ SendOverflow(cmd)
  <2>1. /\ onCmdComplete' = n /\ cmdOpcode' = cmd.opcode
        /\ timers' = timers \cup {n} /\ onCmdComplete = None
        /\ toController' \in {toController, Append(toController, n)}
    BY <1>8 DEF SendWrite, SendOverflow
  <2>2. timers = {}
    BY <2>1 DEF IInv, TimerArmedIffPending, None
  <2>3. /\ toController' \in Seq(CallIds)
        /\ PacketsOfCalls'
    <3>1. toController \in Seq(CallIds) /\ PacketsOfCalls
      BY DEF IInv, LegacyTypeOK
    <3>2. CASE toController' = toController
      BY <1>3, <3>1, <3>2 DEF PacketsOfCalls
    <3>3. CASE toController' = Append(toController, n)
      BY <1>3, <1>4, <3>1, <3>3 DEF PacketsOfCalls
    <3>. QED
      BY <2>1, <3>2, <3>3
  <2>4. LegacyTypeOK'
    BY <1>2, <1>3, <1>4, <2>1, <2>2, <2>3 DEF IInv, LegacyTypeOK
  <2>5. TimerArmedIffPending'
    BY <1>4, <2>1, <2>2 DEF TimerArmedIffPending, None, CallIds
  <2>6. SlotOpcode'
    BY <1>3, <2>1 DEF SlotOpcode
  <2>. QED
    BY <1>5, <1>6, <2>3, <2>4, <2>5, <2>6 DEF IInv
<1>. QED
  BY <1>7, <1>8

(* The timer of the pending call fires. *)
LEMMA TimeoutIInv ==
    ASSUME IInv, NEW c \in CallIds, Timeout(c)
    PROVE  IInv'
<1>1. c = onCmdComplete /\ c \in 1..Len(calls)
  BY DEF IInv, LegacyTypeOK, Timeout, TimerArmedIffPending, None
<1>2. /\ calls' \in Seq(Call)
      /\ Len(calls') = Len(calls)
      /\ \A x \in 1..Len(calls) : calls'[x].cmd = calls[x].cmd
      /\ \A x \in 1..Len(calls) : Answered(x)' => calls'[x] = calls[x]
      /\ timers' = timers \ {c}
      /\ onCmdComplete' = None
  BY <1>1, CompleteFacts DEF IInv, Timeout, Outcomes, Answered
<1>3. UNCHANGED <<cmdOpcode, toController, fromController, parserErrors>>
  BY DEF Timeout
<1>4. LegacyTypeOK' /\ TimerArmedIffPending' /\ SlotOpcode'
  BY <1>1, <1>2, <1>3 DEF IInv, LegacyTypeOK, TimerArmedIffPending, SlotOpcode, None
<1>5. PacketsOfCalls' /\ FramesAnswerCalls'
  BY <1>2, <1>3 DEF IInv, PacketsOfCalls, FramesAnswerCalls
<1>6. RepliesMatchOpcode'
  <2> SUFFICES ASSUME NEW x \in 1..Len(calls'), Answered(x)'
               PROVE  /\ calls'[x].by \in 1..Len(calls')
                      /\ calls'[calls'[x].by].cmd.opcode = calls'[x].cmd.opcode
    BY DEF RepliesMatchOpcode
  <2>1. x \in 1..Len(calls) /\ calls'[x] = calls[x] /\ Answered(x)
    BY <1>2 DEF Answered
  <2>2. /\ calls[x].by \in 1..Len(calls)
        /\ calls[calls[x].by].cmd.opcode = calls[x].cmd.opcode
    BY <2>1 DEF IInv, RepliesMatchOpcode
  <2>. QED
    BY <1>2, <2>1, <2>2
<1>. QED
  BY <1>4, <1>5, <1>6 DEF IInv

(* A frame is dropped by onData: too short, malformed, or ignored. *)
LEMMA DropFrameIInv ==
    ASSUME IInv, DeliverTooShort \/ DeliverMalformed \/ DeliverNoPending \/ DeliverIgnored
    PROVE  IInv'
<1>1. /\ fromController # <<>>
      /\ fromController' = Tail(fromController)
      /\ UNCHANGED <<onCmdComplete, cmdOpcode, timers, calls, toController>>
      /\ parserErrors' \in Nat
  BY DEF DeliverTooShort, DeliverMalformed, DeliverNoPending, DeliverIgnored,
     IInv, LegacyTypeOK
<1>2. /\ fromController' \in Seq(Frame)
      /\ FramesAnswerCalls'
  BY <1>1, FramesAfterDelivery DEF IInv, LegacyTypeOK
<1>. QED
  BY <1>1, <1>2 DEF IInv, LegacyTypeOK, TimerArmedIffPending, PacketsOfCalls,
     SlotOpcode, RepliesMatchOpcode, Answered

(***************************************************************************)
(* The closure accepts the head frame e for the pending call c: e carries  *)
(* the opcode of e.for and passed the check against this.cmdOpcode, which *)
(* is c's opcode, so c is resolved by a call of its own opcode.            *)
(***************************************************************************)
LEMMA DeliverAcceptedIInv ==
    ASSUME IInv, DeliverAccepted
    PROVE  IInv'
<1> DEFINE c == onCmdComplete
           e == Head(fromController)
<1>1. c \in 1..Len(calls)
  BY DEF DeliverAccepted, IInv, LegacyTypeOK, None
<1>2. /\ e \in Frame
      /\ e.for \in 1..Len(calls)
      /\ e.opcode = calls[e.for].cmd.opcode
  BY TailFacts DEF DeliverAccepted, IInv, LegacyTypeOK, FramesAnswerCalls
<1>3. /\ (IF e.status = "Success" THEN "Success" ELSE "HciError") \in Outcomes
      /\ e.for \in 0..MaxCalls
  BY <1>2 DEF Outcomes, Frame, CallIds
<1>4. /\ calls' \in Seq(Call)
      /\ Len(calls') = Len(calls)
      /\ \A x \in 1..Len(calls) : calls'[x].cmd = calls[x].cmd
      /\ \A x \in 1..Len(calls) : x # c => calls'[x] = calls[x]
      /\ calls[c].state = "waiting" => calls'[c].by = e.for
      /\ calls[c].state # "waiting" => calls'[c] = calls[c]
      /\ timers' = timers \ {c}
      /\ onCmdComplete' = None
  BY <1>1, <1>3, CompleteFacts DEF DeliverAccepted, IInv
<1>5. /\ fromController' \in Seq(Frame)
      /\ FramesAnswerCalls'
  BY <1>4, FramesAfterDelivery DEF DeliverAccepted
<1>6. calls[e.for].cmd.opcode = calls[c].cmd.opcode
  BY <1>2 DEF DeliverAccepted, IInv, SlotOpcode, None
<1>7. RepliesMatchOpcode'
  <2> SUFFICES ASSUME NEW x \in 1..Len(calls'), Answered(x)'
               PROVE  /\ calls'[x].by \in 1..Len(calls')
                      /\ calls'[calls'[x].by].cmd.opcode = calls'[x].cmd.opcode
    BY DEF RepliesMatchOpcode
  <2>1. CASE x = c /\ calls[c].state = "waiting"
    BY <1>1, <1>2, <1>4, <1>6, <2>1
  <2>2. CASE ~(x = c /\ calls[c].state = "waiting")
    <3>1. calls'[x] = calls[x] /\ Answered(x)
      BY <1>4, <2>2 DEF Answered
    <3>. QED
      BY <1>4, <3>1 DEF IInv, RepliesMatchOpcode
  <2>. QED
    BY <2>1, <2>2
<1>. QED
  BY <1>1, <1>4, <1>5, <1>7 DEF DeliverAccepted, IInv, LegacyTypeOK,
     TimerArmedIffPending, PacketsOfCalls, SlotOpcode, None

(* The controller answers the packet at the head of the link. *)
LEMMA ControllerReplyIInv ==
    ASSUME IInv, ControllerReply
    PROVE  IInv'
<1> DEFINE c == Head(toController)
<1>1. /\ c \in 1..Len(calls)
      /\ toController' \in Seq(CallIds)
      /\ \A i \in 1..Len(toController') : toController'[i] \in 1..Len(calls)
  BY TailFacts DEF ControllerReply, IInv, LegacyTypeOK, PacketsOfCalls
<1>2. calls[c].cmd.opcode \in Opcodes
  <2>1. calls[c] \in Call
    BY <1>1 DEF IInv, LegacyTypeOK
  <2>. QED
    BY <2>1 DEF Call, CommandType
<1>3. PICK k \in FrameKinds, st \in Statuses :
         fromController' = Append(fromController,
             [kind |-> k, opcode |-> calls[c].cmd.opcode, status |-> st, for |-> c])
  BY DEF ControllerReply
<1>4. [kind |-> k, opcode |-> calls[c].cmd.opcode, status |-> st, for |-> c] \in Frame
  BY <1>1, <1>2 DEF Frame, CallIds, IInv, LegacyTypeOK
<1>5. /\ fromController' \in Seq(Frame)
      /\ FramesAnswerCalls'
  BY <1>1, <1>3, <1>4 DEF ControllerReply, IInv, LegacyTypeOK, FramesAnswerCalls
<1>. QED
  BY <1>1, <1>5 DEF ControllerReply, IInv, LegacyTypeOK, TimerArmedIffPending,
     PacketsOfCalls, SlotOpcode, RepliesMatchOpcode, Answered

(* The controller drops the packet at the head of the link. *)
LEMMA ControllerDropIInv ==
    ASSUME IInv, ControllerDrop
    PROVE  IInv'
<1>1. /\ toController' \in Seq(CallIds)
      /\ \A i \in 1..Len(toController') : toController'[i] \in 1..Len(calls)
  BY TailFacts DEF ControllerDrop, IInv, LegacyTypeOK, PacketsOfCalls
<1>. QED
  BY <1>1 DEF ControllerDrop, IInv, LegacyTypeOK, TimerArmedIffPending,
     PacketsOfCalls, FramesAnswerCalls, SlotOpcode, RepliesMatchOpcode, Answered

(* Stuttering leaves the invariant alone. *)
LEMMA StutterIInv ==
    ASSUME IInv, UNCHANGED vars
    PROVE  IInv'
BY DEF vars, IInv, LegacyTypeOK, TimerArmedIffPending, PacketsOfCalls,
       FramesAnswerCalls, SlotOpcode, RepliesMatchOpcode, Answered

LEMMA NextIInv == IInv /\ [Next]_vars => IInv'
<1> SUFFICES ASSUME IInv, [Next]_vars PROVE IInv'
  OBVIOUS
<1>1. CASE \E cmd \in Commands : SendBusy(cmd) \/ SendWrite(cmd) \/ SendOverflow(cmd)
  BY <1>1, SendIInv
<1>2. CASE \E c \in CallIds : Timeout(c)
  BY <1>2, TimeoutIInv
<1>3. CASE DeliverTooShort \/ DeliverMalformed \/ DeliverNoPending \/ DeliverIgnored
  BY <1>3, DropFrameIInv
<1>4. CASE DeliverAccepted
  BY <1>4, DeliverAcceptedIInv
<1>5. CASE ControllerReply
  BY <1>5, ControllerReplyIInv
<1>6. CASE ControllerDrop
  BY <1>6, ControllerDropIInv
<1>7. CASE UNCHANGED vars
  BY <1>7, StutterIInv
<1>. QED
  BY <1>1, <1>2, <1>3, <1>4, <1>5, <1>6, <1>7 DEF Next, Deliver

-----------------------------------------------------------------------------

(* Every reachable state of the first Hci class satisfies the inductive invariant. *)
THEOREM LegacyIInvariant == Spec => []IInv
BY InitIInv, NextIInv, PTL DEF Spec

(***************************************************************************)
(* Type correctness of the first Hci class: the closure slot, the shared   *)
(* cmdOpcode field, the timers, the calls and both directions of the link  *)
(* keep their types for every opcode set, command set and MaxCalls.        *)
(***************************************************************************)
THEOREM LegacyTypeCorrect == Spec => []LegacyTypeOK
<1>1. IInv => LegacyTypeOK
  BY DEF IInv
<1>. QED
  BY <1>1, LegacyIInvariant, PTL

(***************************************************************************)
(* The timer of send is armed exactly for the call whose closure holds     *)
(* this.onCmdComplete, also after a RangeError left the closure installed, *)
(* so the timeout always frees the slot and never completes another call. *)
(***************************************************************************)
THEOREM LegacyTimerArmed == Spec => []TimerArmedIffPending
<1>1. IInv => TimerArmedIffPending
  BY DEF IInv
<1>. QED
  BY <1>1, LegacyIInvariant, PTL

(***************************************************************************)
(* A call resolved by a CommandComplete is resolved by the answer to a     *)
(* call of the same opcode, although the closure compares the event with   *)
(* the shared field this.cmdOpcode and not with its own command.           *)
(***************************************************************************)
THEOREM LegacyRepliesMatch == Spec => []RepliesMatchOpcode
<1>1. IInv => RepliesMatchOpcode
  BY DEF IInv
<1>. QED
  BY <1>1, LegacyIInvariant, PTL

-----------------------------------------------------------------------------

(***************************************************************************)
(* PendingSlotHolder needs no assumption on the params: it is inductive    *)
(* together with IInv, whose TimerArmedIffPending puts a firing timer's    *)
(* call in the slot.                                                       *)
(***************************************************************************)
LEMMA NextSlotHolder ==
    ASSUME IInv, PendingSlotHolder, [Next]_vars
    PROVE  PendingSlotHolder'
<1>1. /\ calls \in Seq(Call)
      /\ onCmdComplete \in 0..Len(calls)
      /\ \A c \in 1..Len(calls) :
            /\ calls[c].state = "waiting" => onCmdComplete = c
            /\ onCmdComplete = c => calls[c].state \in {"waiting", "RangeError"}
  BY DEF IInv, LegacyTypeOK, PendingSlotHolder
<1>2. CASE \E cmd \in Commands : SendBusy(cmd) \/ SendWrite(cmd) \/ SendOverflow(cmd)
  <2>1. PICK cmd \in Commands : SendBusy(cmd) \/ SendWrite(cmd) \/ SendOverflow(cmd)
    BY <1>2
  <2>2. CASE SendBusy(cmd)
    <3>1. /\ Len(calls') = Len(calls) + 1
          /\ \A x \in 1..Len(calls) : calls'[x] = calls[x]
          /\ calls'[Len(calls) + 1].state = "Busy"
          /\ onCmdComplete' = onCmdComplete
      BY <1>1, <2>2 DEF SendBusy
    <3>. QED
      BY <1>1, <3>1 DEF PendingSlotHolder
  <2>3. CASE SendWrite(cmd) \/ SendOverflow(cmd)
    <3>1. /\ Len(calls') = Len(calls) + 1
          /\ \A x \in 1..Len(calls) : calls'[x] = calls[x]
          /\ calls'[Len(calls) + 1].state \in {"waiting", "RangeError"}
          /\ onCmdComplete' = Len(calls) + 1 /\ onCmdComplete = None
      BY <1>1, <2>3 DEF SendWrite, SendOverflow
    <3>2. \A x \in 1..Len(calls) : calls[x].state # "waiting"
      BY <1>1, <3>1 DEF None
    <3>. QED
      BY <1>1, <3>1, <3>2 DEF PendingSlotHolder
  <2>. QED
    BY <2>1, <2>2, <2>3
<1>3. CASE (\E c \in CallIds : Timeout(c)) \/ DeliverAccepted
  (* Both release the slot through complete() of the call holding it. *)
  <2>1. PICK c \in 1..Len(calls), outcome \in Outcomes \ {"waiting"}, by \in 0..MaxCalls :
           /\ c = onCmdComplete
           /\ Complete(c, outcome, by)
    <3>1. CASE \E c \in CallIds : Timeout(c)
      <4>1. PICK c \in CallIds : Timeout(c)
        BY <3>1
      <4>. QED
        BY <4>1 DEF Timeout, IInv, LegacyTypeOK, TimerArmedIffPending, None, Outcomes
    <3>2. CASE DeliverAccepted
      <4>1. /\ onCmdComplete \in 1..Len(calls)
            /\ Head(fromController) \in Frame
        BY <3>2, TailFacts DEF DeliverAccepted, IInv, LegacyTypeOK, None
      <4>2. /\ (IF Head(fromController).status = "Success" THEN "Success" ELSE "HciError")
                 \in Outcomes \ {"waiting"}
            /\ Head(fromController).for \in 0..MaxCalls
        BY <4>1 DEF Outcomes, Frame, CallIds
      <4>. QED
        BY <3>2, <4>1, <4>2 DEF DeliverAccepted
    <3>. QED
      BY <1>3, <3>1, <3>2
  <2>2. /\ Len(calls') = Len(calls)
        /\ \A x \in 1..Len(calls) : x # c => calls'[x] = calls[x]
        /\ calls'[c].state # "waiting"
        /\ onCmdComplete' = None
    BY <2>1, CompleteFacts DEF IInv
  <2>3. \A x \in 1..Len(calls) : x # c => calls[x].state # "waiting"
    BY <1>1, <2>1
  <2>. QED
    BY <2>1, <2>2, <2>3 DEF PendingSlotHolder, None
<1>4. CASE DeliverTooShort \/ DeliverMalformed \/ DeliverNoPending \/ DeliverIgnored
           \/ ControllerReply \/ ControllerDrop \/ UNCHANGED vars
  BY <1>1, <1>4 DEF DeliverTooShort, DeliverMalformed, DeliverNoPending,
     DeliverIgnored, ControllerReply, ControllerDrop, vars, PendingSlotHolder
<1>. QED
  BY <1>2, <1>3, <1>4 DEF Next, Deliver

(***************************************************************************)
(* For every set of commands, params over 255 bytes included, a waiting    *)
(* call of the first Hci class always holds this.onCmdComplete, and a      *)
(* settled call holds it only when buildBuffer threw RangeError after     *)
(* send installed the closure: a timeout or an accepted CommandComplete    *)
(* always releases the slot of the call it settles.                        *)
(***************************************************************************)
THEOREM LegacySlotHeld == Spec => []PendingSlotHolder
<1>1. Init => PendingSlotHolder
  BY DEF Init, PendingSlotHolder
<1>2. IInv /\ PendingSlotHolder /\ [Next]_vars => PendingSlotHolder'
  BY NextSlotHolder
<1>. QED
  BY <1>1, <1>2, InitIInv, NextIInv, PTL DEF Spec

-----------------------------------------------------------------------------
(***************************************************************************)
(* Refinement of CmdSlot.  It needs this.onCmdComplete to belong to       *)
(* exactly the waiting call, which holds when every command's params fit  *)
(* the length byte: a RangeError leaves the closure of a rejected call     *)
(* installed until its timer fires.                                        *)
(***************************************************************************)
AllFit == \A cmd \in Commands : cmd.fits

PendingSlotConsistent ==
    \A c \in 1..Len(calls) : calls[c].state = "waiting" <=> onCmdComplete = c

IInvFit == IInv /\ PendingSlotConsistent

LEMMA InitIInvFit == Init => IInvFit
BY InitIInv DEF Init, IInvFit, PendingSlotConsistent

(* The pending call is the one whose closure is installed. *)
LEMMA PendingWaits ==
    ASSUME IInvFit, onCmdComplete # None
    PROVE  onCmdComplete \in 1..Len(calls) /\ calls[onCmdComplete].state = "waiting"
BY DEF IInvFit, IInv, LegacyTypeOK, PendingSlotConsistent, None

(* A step that completes the pending call leaves no call waiting. *)
LEMMA CompletePending ==
    ASSUME IInvFit, NEW outcome \in Outcomes \ {"waiting"}, NEW by \in 0..MaxCalls,
           onCmdComplete # None, Complete(onCmdComplete, outcome, by)
    PROVE  PendingSlotConsistent'
<1> DEFINE c == onCmdComplete
<1>1. c \in 1..Len(calls) /\ calls[c].state = "waiting"
  BY PendingWaits
<1>2. /\ Len(calls') = Len(calls)
      /\ \A x \in 1..Len(calls) : x # c => calls'[x] = calls[x]
      /\ calls'[c].state = outcome
      /\ onCmdComplete' = None
  BY <1>1, CompleteFacts DEF IInvFit, IInv
<1>3. \A x \in 1..Len(calls) : x # c => calls[x].state # "waiting"
  BY <1>1 DEF IInvFit, PendingSlotConsistent
<1>. QED
  BY <1>1, <1>2, <1>3 DEF PendingSlotConsistent, None

(* The slot stays with the waiting call on every step when all commands fit. *)
LEMMA NextPendingSlot ==
    ASSUME AllFit, IInvFit, [Next]_vars
    PROVE  PendingSlotConsistent'
<1>1. /\ calls \in Seq(Call)
      /\ onCmdComplete \in 0..Len(calls)
      /\ \A c \in 1..Len(calls) : calls[c].state = "waiting" <=> onCmdComplete = c
  BY DEF IInvFit, IInv, LegacyTypeOK, PendingSlotConsistent
<1>2. CASE \E cmd \in Commands : SendBusy(cmd) \/ SendWrite(cmd) \/ SendOverflow(cmd)
  <2>1. PICK cmd \in Commands : SendBusy(cmd) \/ SendWrite(cmd) \/ SendOverflow(cmd)
    BY <1>2
  <2>2. CASE SendBusy(cmd)
    <3>1. /\ Len(calls') = Len(calls) + 1
          /\ \A x \in 1..Len(calls) : calls'[x] = calls[x]
          /\ calls'[Len(calls) + 1].state = "Busy"
          /\ onCmdComplete' = onCmdComplete /\ onCmdComplete # None
      BY <1>1, <2>2 DEF SendBusy
    <3>. QED
      BY <1>1, <3>1 DEF PendingSlotConsistent, None
  <2>3. CASE SendWrite(cmd)
    <3>1. /\ Len(calls') = Len(calls) + 1
          /\ \A x \in 1..Len(calls) : calls'[x] = calls[x]
          /\ calls'[Len(calls) + 1].state = "waiting"
          /\ onCmdComplete' = Len(calls) + 1 /\ onCmdComplete = None
      BY <1>1, <2>3 DEF SendWrite
    <3>. QED
      BY <1>1, <3>1 DEF PendingSlotConsistent, None
  <2>4. CASE SendOverflow(cmd)
    BY <2>4 DEF AllFit, SendOverflow
  <2>. QED
    BY <2>1, <2>2, <2>3, <2>4
<1>3. CASE \E c \in CallIds : Timeout(c)
  <2>1. PICK c \in CallIds : Timeout(c)
    BY <1>3
  <2>2. c = onCmdComplete /\ onCmdComplete # None
    BY <2>1 DEF Timeout, IInvFit, IInv, TimerArmedIffPending, None
  <2>. QED
    BY <2>1, <2>2, CompletePending DEF Timeout, Outcomes
<1>4. CASE DeliverAccepted
  <2>1. Head(fromController) \in Frame
    BY <1>4, TailFacts DEF DeliverAccepted, IInvFit, IInv, LegacyTypeOK
  <2>2. /\ (IF Head(fromController).status = "Success" THEN "Success" ELSE "HciError")
             \in Outcomes \ {"waiting"}
        /\ Head(fromController).for \in 0..MaxCalls
    BY <2>1 DEF Outcomes, Frame, CallIds
  <2>. QED
    BY <1>4, <2>2, CompletePending DEF DeliverAccepted
<1>5. CASE DeliverTooShort \/ DeliverMalformed \/ DeliverNoPending \/ DeliverIgnored
           \/ ControllerReply \/ ControllerDrop \/ UNCHANGED vars
  BY <1>1, <1>5 DEF DeliverTooShort, DeliverMalformed, DeliverNoPending,
     DeliverIgnored, ControllerReply, ControllerDrop, vars, PendingSlotConsistent
<1>. QED
  BY <1>2, <1>3, <1>4, <1>5 DEF Next, Deliver

LEMMA NextIInvFit ==
    ASSUME AllFit, IInvFit, [Next]_vars
    PROVE  IInvFit'
BY NextIInv, NextPendingSlot DEF IInvFit

(* Every step of the first Hci class is a step of CmdSlot or leaves the *)
(* slot and the calls alone.                                             *)
LEMMA RefineStep ==
    ASSUME AllFit, IInvFit, [Next]_vars
    PROVE  [Slot!Next]_<<onCmdComplete, calls>>
<1>2. CASE \E cmd \in Commands : SendBusy(cmd) \/ SendWrite(cmd) \/ SendOverflow(cmd)
  <2>1. PICK cmd \in Commands : SendBusy(cmd) \/ SendWrite(cmd) \/ SendOverflow(cmd)
    BY <1>2
  <2>2. CASE SendBusy(cmd)
    <3>1. Slot!Busy(cmd)
      BY <2>2 DEF SendBusy, Slot!Busy, Slot!Idle, None
    <3>. QED
      BY <3>1 DEF Slot!Next
  <2>3. CASE SendWrite(cmd)
    <3>1. Slot!Issue(cmd)
      BY <2>3 DEF SendWrite, Slot!Issue, Slot!Idle, None
    <3>. QED
      BY <3>1 DEF Slot!Next
  <2>4. CASE SendOverflow(cmd)
    BY <2>4 DEF AllFit, SendOverflow
  <2>. QED
    BY <2>1, <2>2, <2>3, <2>4
<1>3. CASE \E c \in CallIds : Timeout(c)
  <2>1. PICK c \in CallIds : Timeout(c)
    BY <1>3
  <2>2. c = onCmdComplete /\ onCmdComplete # None
    BY <2>1 DEF Timeout, IInvFit, IInv, TimerArmedIffPending, None
  <2>3. calls[c].state = "waiting"
    BY <2>2, PendingWaits
  <2>4. Slot!Expire
    BY <2>1, <2>2, <2>3 DEF Timeout, Complete, Slot!Expire, Slot!Settle, Slot!Idle, None
  <2>. QED
    BY <2>4 DEF Slot!Next
<1>4. CASE DeliverAccepted
  <2> DEFINE c == onCmdComplete
             e == Head(fromController)
             d == e.for
  <2>1. c \in 1..Len(calls) /\ calls[c].state = "waiting"
    BY <1>4, PendingWaits DEF DeliverAccepted
  <2>2. d \in 1..Len(calls) /\ e.opcode = calls[d].cmd.opcode
    BY <1>4, TailFacts DEF DeliverAccepted, IInvFit, IInv, LegacyTypeOK, FramesAnswerCalls
  <2>3. SameOpcode(calls[d].cmd, calls[c].cmd)
    BY <1>4, <2>2 DEF DeliverAccepted, IInvFit, IInv, SlotOpcode, SameOpcode, None
  <2> DEFINE out == IF e.status = "Success" THEN "Success" ELSE "HciError"
  <2>4. Slot!Settle(out, d)
    BY <1>4, <2>1 DEF DeliverAccepted, Complete, Slot!Settle, Slot!Idle, None
  <2>5. Slot!Resolve
    BY <2>1, <2>2, <2>3, <2>4 DEF Slot!Resolve, Slot!Idle, None
  <2>. QED
    BY <2>5 DEF Slot!Next
<1>5. CASE DeliverTooShort \/ DeliverMalformed \/ DeliverNoPending \/ DeliverIgnored
           \/ ControllerReply \/ ControllerDrop \/ UNCHANGED vars
  BY <1>5 DEF DeliverTooShort, DeliverMalformed, DeliverNoPending,
     DeliverIgnored, ControllerReply, ControllerDrop, vars
<1>. QED
  BY <1>2, <1>3, <1>4, <1>5 DEF Next, Deliver

(***************************************************************************)
(* The first Hci class implements the single-slot contract of spec 4.3,   *)
(* matching answers on opcode alone, when every command's params fit the  *)
(* length byte: each call of send is a Busy rejection or an Issue from    *)
(* Idle, and each timeout or accepted CommandComplete settles exactly the *)
(* pending call, with an answer to a call of the same opcode.             *)
(***************************************************************************)
THEOREM LegacyRefinement ==
    ASSUME AllFit
    PROVE  Spec => ImplementsCmdSlot
<1>1. Init => Slot!Init
  BY DEF Init, Slot!Init, Slot!Idle, None
<1>2. IInvFit /\ [Next]_vars => IInvFit'
  BY NextIInvFit
<1>3. IInvFit /\ [Next]_vars => [Slot!Next]_<<onCmdComplete, calls>>
  BY RefineStep
<1>. QED
  BY <1>1, <1>2, <1>3, InitIInvFit, PTL DEF Spec, ImplementsCmdSlot, Slot!Spec

=============================================================================
