---------------------------- MODULE HciCmd_proofs ----------------------------
(***************************************************************************)
(* Proofs about the command dispatcher of HciCmd, for every value of the  *)
(* constants that satisfies ConstantsAssumption.                           *)
(*                                                                         *)
(* TypeOK is not inductive by itself: a timer firing or an event being     *)
(* accepted reads calls[c] for the call c that owns the timer or the slot, *)
(* so the proof carries the facts that every call id the dispatcher holds  *)
(* (in the slot, the timers, the packets and the events) names a call      *)
(* already issued, and that every event on its way in is the answer the    *)
(* controller built for the call it names.  That last fact is what makes   *)
(* RepliesMatchConnection inductive.                                       *)
(***************************************************************************)
EXTENDS HciCmd, TLAPS

USE ConstantsAssumption

(* The event e is the answer the controller built for the call e.for. *)
AnswersCall(e) ==
    /\ e.for \in 1..Len(calls)
    /\ e.opcode = calls[e.for].cmd.opcode
    /\ e.params \in Handles => e.params = calls[e.for].cmd.connHandle

(* Every command packet on the transport is the packet of an issued call. *)
PacketsOfCalls ==
    \A i \in 1..Len(toController) : toController[i] \in 1..Len(calls)

(* Every event on its way in answers an issued call. *)
EventsAnswerCalls ==
    \A i \in 1..Len(fromController) : AnswersCall(fromController[i])

(* The inductive invariant. *)
IInv ==
    /\ TypeOK
    /\ TimerArmedIffPending
    /\ onResult \in 0..Len(calls)
    /\ PacketsOfCalls
    /\ EventsAnswerCalls
    /\ RepliesMatchConnection

-----------------------------------------------------------------------------

(***************************************************************************)
(* The answer the controller builds for a command has parameters among     *)
(* Params, and carries a handle only when it is the command's own handle.  *)
(***************************************************************************)
LEMMA ReplyParamsFacts ==
    ASSUME NEW cmd \in Commands, NEW st \in Statuses,
           NEW p \in ReplyParams(cmd, st)
    PROVE  /\ p \in Params
           /\ p \in Handles => p = cmd.connHandle
<1>1. cmd.connHandle \in Handles \cup {NoHandle}
  BY DEF CommandType
<1>2. CASE cmd.reply = "Status"
  <2>1. p = NoParams
    BY <1>2 DEF ReplyParams
  <2>. QED
    BY <2>1 DEF Params, NoParams, ShortParams, OtherParams
<1>3. CASE cmd.reply # "Status" /\ cmd.connHandle = NoHandle
  <2>1. p = OtherParams
    BY <1>3 DEF ReplyParams
  <2>. QED
    BY <2>1 DEF Params, NoParams, ShortParams, OtherParams
<1>4. CASE cmd.reply # "Status" /\ cmd.connHandle # NoHandle
  <2>1. p \in {cmd.connHandle, ShortParams}
    BY <1>4 DEF ReplyParams
  <2>. QED
    BY <1>1, <1>4, <2>1 DEF Params, NoParams, ShortParams, OtherParams
<1>. QED
  BY <1>2, <1>3, <1>4

(***************************************************************************)
(* What complete() of an issued call c does to the calls: each keeps its   *)
(* command, only c may change, and c changes only while it is waiting.     *)
(***************************************************************************)
LEMMA CompleteFacts ==
    ASSUME TypeOK, NEW c \in 1..Len(calls), NEW outcome \in Outcomes,
           NEW by \in 0..MaxCalls, Complete(c, outcome, by)
    PROVE  /\ calls' \in Seq(Call)
           /\ Len(calls') = Len(calls)
           /\ \A x \in 1..Len(calls) : calls'[x].cmd = calls[x].cmd
           /\ \A x \in 1..Len(calls) : x # c => calls'[x] = calls[x]
           /\ calls[c].state = "waiting" =>
                 calls'[c].state = outcome /\ calls'[c].by = by
           /\ calls[c].state # "waiting" => calls'[c] = calls[c]
           /\ timers' = timers \ {c}
           /\ onResult' = None
<1>1. CASE calls[c].state = "waiting"
  <2>1. calls' = [calls EXCEPT ![c] = [cmd |-> calls[c].cmd, state |-> outcome, by |-> by]]
    BY <1>1 DEF Complete
  <2>2. calls[c].cmd \in Commands
    <3>1. calls[c] \in Call
      BY DEF TypeOK
    <3>. QED
      BY <3>1 DEF Call
  <2>3. [cmd |-> calls[c].cmd, state |-> outcome, by |-> by] \in Call
    BY <2>2 DEF Call
  <2>. QED
    BY <1>1, <2>1, <2>3 DEF TypeOK, Complete
<1>2. CASE calls[c].state # "waiting"
  BY <1>2 DEF TypeOK, Complete
<1>. QED
  BY <1>1, <1>2

-----------------------------------------------------------------------------

LEMMA InitIInv == Init => IInv
BY DEF Init, IInv, TypeOK, TimerArmedIffPending, None, PacketsOfCalls,
       EventsAnswerCalls, RepliesMatchConnection

(* A caller's call appends a call that is not answered; old calls stay. *)
LEMMA SendIInv ==
    ASSUME IInv, NEW cmd \in Commands,
           SendBusy(cmd) \/ SendWrite(cmd) \/ SendOverflow(cmd)
    PROVE  IInv'
<1> DEFINE n == Len(calls) + 1
<1>1. PICK st \in {"Busy", "waiting", "RangeError"} :
         calls' = Append(calls, [cmd |-> cmd, state |-> st, by |-> 0])
  <2>1. CASE SendBusy(cmd)
    BY <2>1 DEF SendBusy
  <2>2. CASE SendWrite(cmd)
    BY <2>2 DEF SendWrite
  <2>3. CASE SendOverflow(cmd)
    BY <2>3 DEF SendOverflow
  <2>. QED
    BY <2>1, <2>2, <2>3
<1>2. /\ n <= MaxCalls
      /\ fromController' = fromController
  BY DEF SendBusy, SendWrite, SendOverflow
<1>3. /\ calls' \in Seq(Call)
      /\ Len(calls') = n
      /\ \A x \in 1..Len(calls) : calls'[x] = calls[x]
      /\ calls'[n].state \notin {"Success", "HciError"}
  <2>1. [cmd |-> cmd, state |-> st, by |-> 0] \in Call
    BY DEF Call, Outcomes
  <2>2. calls \in Seq(Call)
    BY DEF IInv, TypeOK
  <2>3. /\ calls' \in Seq(Call)
        /\ Len(calls') = n
        /\ \A x \in 1..Len(calls) : calls'[x] = calls[x]
        /\ calls'[n] = [cmd |-> cmd, state |-> st, by |-> 0]
    BY <1>1, <2>1, <2>2
  <2>. QED
    BY <2>3
<1>4. /\ onResult' \in 0..n
      /\ TimerArmedIffPending'
      /\ timers' \subseteq CallIds
      /\ toController' \in Seq(CallIds)
      /\ PacketsOfCalls'
  <2>1. n \in CallIds
    BY <1>2 DEF CallIds, IInv, TypeOK
  <2>2. CASE SendBusy(cmd)
    <3>1. UNCHANGED <<onResult, timers, toController>>
      BY <2>2 DEF SendBusy
    <3>2. onResult' \in 0..n /\ TimerArmedIffPending' /\ timers' \subseteq CallIds
      BY <3>1 DEF IInv, TypeOK, TimerArmedIffPending
    <3>3. toController' \in Seq(CallIds) /\ PacketsOfCalls'
      BY <3>1, <1>3 DEF IInv, TypeOK, PacketsOfCalls
    <3>. QED
      BY <3>2, <3>3
  <2>3. CASE SendWrite(cmd)
    BY <2>1, <2>3, <1>3 DEF SendWrite, IInv, TypeOK, TimerArmedIffPending,
       PacketsOfCalls, None
  <2>4. CASE SendOverflow(cmd)
    BY <2>1, <2>4, <1>3 DEF SendOverflow, IInv, TypeOK, TimerArmedIffPending,
       PacketsOfCalls, None
  <2>. QED
    BY <2>2, <2>3, <2>4
<1>5. TypeOK'
  BY <1>2, <1>3, <1>4 DEF IInv, TypeOK
<1>6. EventsAnswerCalls'
  BY <1>2, <1>3 DEF IInv, TypeOK, EventsAnswerCalls, AnswersCall
<1>7. RepliesMatchConnection'
  <2> SUFFICES ASSUME NEW x \in 1..Len(calls'), Answered(x)'
               PROVE  LET d == calls'[x].by IN
                      /\ d \in 1..Len(calls')
                      /\ calls'[d].cmd.opcode = calls'[x].cmd.opcode
                      /\ calls'[x].cmd.connHandle # NoHandle =>
                             calls'[d].cmd.connHandle = calls'[x].cmd.connHandle
    BY DEF RepliesMatchConnection
  <2>1. x # n
    BY <1>3 DEF Answered
  <2>2. x \in 1..Len(calls) /\ calls'[x] = calls[x] /\ Answered(x)
    BY <1>3, <2>1 DEF Answered
  <2>3. LET d == calls[x].by IN
        /\ d \in 1..Len(calls)
        /\ calls[d].cmd.opcode = calls[x].cmd.opcode
        /\ calls[x].cmd.connHandle # NoHandle =>
               calls[d].cmd.connHandle = calls[x].cmd.connHandle
    BY <2>2 DEF IInv, RepliesMatchConnection
  <2>. QED
    BY <1>3, <2>2, <2>3
<1>. QED
  BY <1>3, <1>4, <1>5, <1>6, <1>7 DEF IInv

(* The timer of the pending call fires. *)
LEMMA TimeoutIInv ==
    ASSUME IInv, NEW c \in CallIds, Timeout(c)
    PROVE  IInv'
<1>1. c = onResult /\ c \in 1..Len(calls)
  BY DEF IInv, Timeout, TimerArmedIffPending, None
<1>2. /\ calls' \in Seq(Call)
      /\ Len(calls') = Len(calls)
      /\ \A x \in 1..Len(calls) : calls'[x].cmd = calls[x].cmd
      /\ \A x \in 1..Len(calls) : x # c => calls'[x] = calls[x]
      /\ calls[c].state = "waiting" => calls'[c].state = "Timeout"
      /\ calls[c].state # "waiting" => calls'[c] = calls[c]
      /\ timers' = timers \ {c}
      /\ onResult' = None
  BY <1>1, CompleteFacts DEF IInv, Timeout, Outcomes
<1>3. UNCHANGED <<toController, fromController>>
  BY DEF Timeout
<1>4. TypeOK'
  BY <1>2, <1>3 DEF IInv, TypeOK, None
<1>5. TimerArmedIffPending'
  BY <1>1, <1>2 DEF IInv, TimerArmedIffPending, None
<1>6. PacketsOfCalls'
  BY <1>2, <1>3 DEF IInv, PacketsOfCalls
<1>7. EventsAnswerCalls'
  BY <1>2, <1>3 DEF IInv, EventsAnswerCalls, AnswersCall
<1>8. \A x \in 1..Len(calls) : Answered(x)' => calls'[x] = calls[x]
  BY <1>2 DEF Answered
<1>9. RepliesMatchConnection'
  BY <1>2, <1>8 DEF IInv, RepliesMatchConnection, Answered
<1>. QED
  BY <1>2, <1>4, <1>5, <1>6, <1>7, <1>9 DEF IInv, None

(***************************************************************************)
(* Taking the head off a queue keeps the rest in order.                    *)
(***************************************************************************)
LEMMA TailFacts ==
    ASSUME NEW S, NEW q \in Seq(S), q # <<>>
    PROVE  /\ Tail(q) \in Seq(S)
           /\ Len(Tail(q)) = Len(q) - 1
           /\ \A i \in 1..Len(Tail(q)) : Tail(q)[i] = q[i + 1]
           /\ Head(q) = q[1]
           /\ Head(q) \in S
OBVIOUS

(* Every event left after the head was delivered still answers its call,  *)
(* as long as the calls keep their commands and their number.              *)
LEMMA EventsAfterDelivery ==
    ASSUME IInv, fromController # <<>>,
           fromController' = Tail(fromController),
           calls' \in Seq(Call), Len(calls') = Len(calls),
           \A x \in 1..Len(calls) : calls'[x].cmd = calls[x].cmd
    PROVE  /\ fromController' \in Seq(Event)
           /\ EventsAnswerCalls'
<1>1. fromController \in Seq(Event)
  BY DEF IInv, TypeOK
<1>2. /\ fromController' \in Seq(Event)
      /\ Len(fromController') = Len(fromController) - 1
      /\ \A i \in 1..Len(fromController') : fromController'[i] = fromController[i + 1]
  BY <1>1, TailFacts
<1>3. ASSUME NEW i \in 1..Len(fromController')
      PROVE  AnswersCall(fromController[i])'
  <2> DEFINE e == fromController[i + 1]
  <2>1. fromController'[i] = e
    BY <1>2
  <2>2. /\ e.for \in 1..Len(calls)
        /\ e.opcode = calls[e.for].cmd.opcode
        /\ e.params \in Handles => e.params = calls[e.for].cmd.connHandle
    BY <1>2 DEF IInv, EventsAnswerCalls, AnswersCall
  <2>3. calls'[e.for].cmd = calls[e.for].cmd
    BY <2>2
  <2>. QED
    BY <2>1, <2>2, <2>3 DEF AnswersCall
<1>. QED
  BY <1>2, <1>3 DEF EventsAnswerCalls

(* An event arrives while no closure is installed and is dropped. *)
LEMMA DeliverNoPendingIInv ==
    ASSUME IInv, DeliverNoPending
    PROVE  IInv'
<1>1. /\ fromController' \in Seq(Event)
      /\ EventsAnswerCalls'
  BY EventsAfterDelivery DEF DeliverNoPending, IInv, TypeOK
<1>. QED
  BY <1>1 DEF DeliverNoPending, IInv, TypeOK, TimerArmedIffPending,
     PacketsOfCalls, RepliesMatchConnection, Answered

(* The installed closure returns early and the event is dropped. *)
LEMMA DeliverIgnoredIInv ==
    ASSUME IInv, DeliverIgnored
    PROVE  IInv'
<1>1. /\ fromController' \in Seq(Event)
      /\ EventsAnswerCalls'
  BY EventsAfterDelivery DEF DeliverIgnored, IInv, TypeOK
<1>. QED
  BY <1>1 DEF DeliverIgnored, IInv, TypeOK, TimerArmedIffPending,
     PacketsOfCalls, RepliesMatchConnection, Answered

(***************************************************************************)
(* The installed closure accepts the next event e for the pending call c.  *)
(* Because e answers the call e.for and passes c's opcode and handle       *)
(* checks, c is resolved by a call with the same opcode and handle.        *)
(***************************************************************************)
LEMMA DeliverAcceptedIInv ==
    ASSUME IInv, DeliverAccepted
    PROVE  IInv'
<1> DEFINE c == onResult
           e == Head(fromController)
<1>1. c \in 1..Len(calls)
  BY DEF DeliverAccepted, IInv, None
<1>2. /\ e \in Event
      /\ AnswersCall(e)
  BY TailFacts DEF DeliverAccepted, IInv, TypeOK, EventsAnswerCalls
<1>3. /\ StatusOutcome(e) \in Outcomes
      /\ e.for \in 0..MaxCalls
  BY <1>2 DEF StatusOutcome, Outcomes, Event, CallIds
<1>4. /\ calls' \in Seq(Call)
      /\ Len(calls') = Len(calls)
      /\ \A x \in 1..Len(calls) : calls'[x].cmd = calls[x].cmd
      /\ \A x \in 1..Len(calls) : x # c => calls'[x] = calls[x]
      /\ calls[c].state = "waiting" => calls'[c].by = e.for
      /\ calls[c].state # "waiting" => calls'[c] = calls[c]
      /\ timers' = timers \ {c}
      /\ onResult' = None
  BY <1>1, <1>3, CompleteFacts DEF DeliverAccepted, IInv
<1>5. /\ fromController' \in Seq(Event)
      /\ EventsAnswerCalls'
  BY <1>4, EventsAfterDelivery DEF DeliverAccepted
<1>6. /\ e.opcode = calls[c].cmd.opcode
      /\ calls[c].cmd.connHandle # NoHandle => e.params = calls[c].cmd.connHandle
  BY DEF DeliverAccepted, Accepts
<1>7. /\ e.for \in 1..Len(calls)
      /\ calls[e.for].cmd.opcode = calls[c].cmd.opcode
      /\ calls[c].cmd.connHandle # NoHandle =>
             calls[e.for].cmd.connHandle = calls[c].cmd.connHandle
  <2>1. calls[c].cmd.connHandle \in Handles \cup {NoHandle}
    <3>1. calls[c] \in Call
      BY <1>1 DEF IInv, TypeOK
    <3>. QED
      BY <3>1 DEF Call, CommandType
  <2>. QED
    BY <1>2, <1>6, <2>1 DEF AnswersCall
<1>8. RepliesMatchConnection'
  <2> SUFFICES ASSUME NEW x \in 1..Len(calls'), Answered(x)'
               PROVE  LET d == calls'[x].by IN
                      /\ d \in 1..Len(calls')
                      /\ calls'[d].cmd.opcode = calls'[x].cmd.opcode
                      /\ calls'[x].cmd.connHandle # NoHandle =>
                             calls'[d].cmd.connHandle = calls'[x].cmd.connHandle
    BY DEF RepliesMatchConnection
  <2>1. CASE x = c /\ calls[c].state = "waiting"
    BY <1>1, <1>4, <1>7, <2>1
  <2>2. CASE ~(x = c /\ calls[c].state = "waiting")
    <3>1. calls'[x] = calls[x] /\ Answered(x)
      BY <1>4, <2>2 DEF Answered
    <3>. QED
      BY <1>4, <3>1 DEF IInv, RepliesMatchConnection
  <2>. QED
    BY <2>1, <2>2
<1>. QED
  BY <1>1, <1>4, <1>5, <1>8 DEF DeliverAccepted, IInv, TypeOK,
     TimerArmedIffPending, PacketsOfCalls, None

(* The controller answers the packet at the head of the transport. *)
LEMMA ControllerReplyIInv ==
    ASSUME IInv, ControllerReply
    PROVE  IInv'
<1> DEFINE c == Head(toController)
<1>1. /\ c \in 1..Len(calls)
      /\ toController' \in Seq(CallIds)
      /\ \A i \in 1..Len(toController') : toController'[i] \in 1..Len(calls)
  BY TailFacts DEF ControllerReply, IInv, TypeOK, PacketsOfCalls
<1>2. calls[c].cmd \in Commands
  <2>1. calls[c] \in Call
    BY <1>1 DEF IInv, TypeOK
  <2>. QED
    BY <2>1 DEF Call
<1>3. PICK st \in Statuses : \E p \in ReplyParams(calls[c].cmd, st) :
         fromController' = Append(fromController,
            [opcode |-> calls[c].cmd.opcode, status |-> st, params |-> p, for |-> c])
  BY DEF ControllerReply
<1>3a. PICK p \in ReplyParams(calls[c].cmd, st) :
         fromController' = Append(fromController,
            [opcode |-> calls[c].cmd.opcode, status |-> st, params |-> p, for |-> c])
  BY <1>3
<1>4. /\ p \in Params
      /\ p \in Handles => p = calls[c].cmd.connHandle
  BY <1>2, ReplyParamsFacts
<1> DEFINE e == [opcode |-> calls[c].cmd.opcode, status |-> st, params |-> p, for |-> c]
<1>5. e \in Event /\ AnswersCall(e)
  BY <1>1, <1>2, <1>4 DEF IInv, TypeOK, Event, AnswersCall, CallIds, CommandType
<1>6. /\ fromController' \in Seq(Event)
      /\ EventsAnswerCalls'
  BY <1>3a, <1>5 DEF ControllerReply, IInv, TypeOK, EventsAnswerCalls, AnswersCall
<1>. QED
  BY <1>1, <1>6 DEF ControllerReply, IInv, TypeOK, TimerArmedIffPending,
     PacketsOfCalls, RepliesMatchConnection, Answered

(* The controller drops the packet at the head of the transport. *)
LEMMA ControllerDropIInv ==
    ASSUME IInv, ControllerDrop
    PROVE  IInv'
<1>1. /\ toController' \in Seq(CallIds)
      /\ \A i \in 1..Len(toController') : toController'[i] \in 1..Len(calls)
  BY TailFacts DEF ControllerDrop, IInv, TypeOK, PacketsOfCalls
<1>. QED
  BY <1>1 DEF ControllerDrop, IInv, TypeOK, TimerArmedIffPending,
     PacketsOfCalls, EventsAnswerCalls, AnswersCall, RepliesMatchConnection, Answered

(* Stuttering leaves the invariant alone. *)
LEMMA StutterIInv ==
    ASSUME IInv, UNCHANGED vars
    PROVE  IInv'
BY DEF vars, IInv, TypeOK, TimerArmedIffPending, PacketsOfCalls,
       EventsAnswerCalls, AnswersCall, RepliesMatchConnection, Answered

LEMMA NextIInv == IInv /\ [Next]_vars => IInv'
<1> SUFFICES ASSUME IInv, [Next]_vars PROVE IInv'
  OBVIOUS
<1>1. CASE \E cmd \in Commands : SendBusy(cmd) \/ SendWrite(cmd) \/ SendOverflow(cmd)
  BY <1>1, SendIInv
<1>2. CASE \E c \in CallIds : Timeout(c)
  BY <1>2, TimeoutIInv
<1>3. CASE DeliverNoPending
  BY <1>3, DeliverNoPendingIInv
<1>4. CASE DeliverIgnored
  BY <1>4, DeliverIgnoredIInv
<1>5. CASE DeliverAccepted
  BY <1>5, DeliverAcceptedIInv
<1>6. CASE ControllerReply
  BY <1>6, ControllerReplyIInv
<1>7. CASE ControllerDrop
  BY <1>7, ControllerDropIInv
<1>8. CASE UNCHANGED vars
  BY <1>8, StutterIInv
<1>. QED
  BY <1>1, <1>2, <1>3, <1>4, <1>5, <1>6, <1>7, <1>8 DEF Next

-----------------------------------------------------------------------------

(* Every reachable state of the dispatcher satisfies the inductive invariant. *)
THEOREM IInvariant == Spec => []IInv
BY InitIInv, NextIInv, PTL DEF Spec

(***************************************************************************)
(* Type correctness: the slot, the timers, the calls and both directions   *)
(* of the transport always hold values of their types, for every set of    *)
(* opcodes, handles and commands and every MaxCalls.                       *)
(***************************************************************************)
THEOREM TypeCorrect == Spec => []TypeOK
<1>1. IInv => TypeOK
  BY DEF IInv
<1>. QED
  BY <1>1, IInvariant, PTL

(***************************************************************************)
(* A timer is armed exactly for the call that holds the onResult slot:     *)
(* complete() always clears the timer it armed, and no path of             *)
(* sendWaitResult arms a timer without taking the slot.                    *)
(***************************************************************************)
THEOREM TimerArmed == Spec => []TimerArmedIffPending
<1>1. IInv => TimerArmedIffPending
  BY DEF IInv
<1>. QED
  BY <1>1, IInvariant, PTL

(***************************************************************************)
(* A call resolved by an HCI event is resolved by the answer to a call of  *)
(* the same opcode and, for a per-connection command, of the same handle:  *)
(* the opcode and handle checks of the onResult closure of sendWaitResult  *)
(* never let through an answer to another command or connection.           *)
(***************************************************************************)
THEOREM RepliesMatch == Spec => []RepliesMatchConnection
<1>1. IInv => RepliesMatchConnection
  BY DEF IInv
<1>. QED
  BY <1>1, IInvariant, PTL

-----------------------------------------------------------------------------
(***************************************************************************)
(* PendingSlotHolder needs no assumption on the payloads: it is inductive  *)
(* together with IInv, whose TimerArmedIffPending puts a firing timer's    *)
(* call in the slot.                                                       *)
(***************************************************************************)
LEMMA NextSlotHolder ==
    ASSUME IInv, PendingSlotHolder, [Next]_vars
    PROVE  PendingSlotHolder'
<1>1. /\ calls \in Seq(Call)
      /\ onResult \in 0..Len(calls)
      /\ \A c \in 1..Len(calls) :
            /\ calls[c].state = "waiting" => onResult = c
            /\ onResult = c => calls[c].state \in {"waiting", "RangeError"}
  BY DEF IInv, TypeOK, PendingSlotHolder
<1>2. CASE \E cmd \in Commands : SendBusy(cmd) \/ SendWrite(cmd) \/ SendOverflow(cmd)
  <2>1. PICK cmd \in Commands : SendBusy(cmd) \/ SendWrite(cmd) \/ SendOverflow(cmd)
    BY <1>2
  <2>2. CASE SendBusy(cmd)
    <3>1. /\ Len(calls') = Len(calls) + 1
          /\ \A x \in 1..Len(calls) : calls'[x] = calls[x]
          /\ calls'[Len(calls) + 1].state = "Busy"
          /\ onResult' = onResult
      BY <1>1, <2>2 DEF SendBusy
    <3>. QED
      BY <1>1, <3>1 DEF PendingSlotHolder
  <2>3. CASE SendWrite(cmd) \/ SendOverflow(cmd)
    <3>1. /\ Len(calls') = Len(calls) + 1
          /\ \A x \in 1..Len(calls) : calls'[x] = calls[x]
          /\ calls'[Len(calls) + 1].state \in {"waiting", "RangeError"}
          /\ onResult' = Len(calls) + 1 /\ onResult = None
      BY <1>1, <2>3 DEF SendWrite, SendOverflow
    <3>2. \A x \in 1..Len(calls) : calls[x].state # "waiting"
      BY <1>1, <3>1 DEF None
    <3>. QED
      BY <1>1, <3>1, <3>2 DEF PendingSlotHolder
  <2>. QED
    BY <2>1, <2>2, <2>3
<1>3. CASE (\E c \in CallIds : Timeout(c)) \/ DeliverAccepted
  (* Both release the slot through complete() of the call holding it. *)
  <2>1. PICK c \in 1..Len(calls), outcome \in Outcomes \ {"waiting"}, by \in 0..MaxCalls :
           /\ c = onResult
           /\ Complete(c, outcome, by)
    <3>1. CASE \E c \in CallIds : Timeout(c)
      <4>1. PICK c \in CallIds : Timeout(c)
        BY <3>1
      <4>. QED
        BY <4>1 DEF Timeout, IInv, TimerArmedIffPending, None, Outcomes
    <3>2. CASE DeliverAccepted
      <4>1. /\ onResult \in 1..Len(calls)
            /\ Head(fromController) \in Event
        BY <3>2, TailFacts DEF DeliverAccepted, IInv, TypeOK, None
      <4>2. /\ StatusOutcome(Head(fromController)) \in Outcomes \ {"waiting"}
            /\ Head(fromController).for \in 0..MaxCalls
        BY <4>1 DEF StatusOutcome, Outcomes, Event, CallIds
      <4>. QED
        BY <3>2, <4>1, <4>2 DEF DeliverAccepted
    <3>. QED
      BY <1>3, <3>1, <3>2
  <2>2. /\ Len(calls') = Len(calls)
        /\ \A x \in 1..Len(calls) : x # c => calls'[x] = calls[x]
        /\ calls'[c].state # "waiting"
        /\ onResult' = None
    BY <2>1, CompleteFacts DEF IInv
  <2>3. \A x \in 1..Len(calls) : x # c => calls[x].state # "waiting"
    BY <1>1, <2>1
  <2>. QED
    BY <2>1, <2>2, <2>3 DEF PendingSlotHolder, None
<1>4. CASE DeliverNoPending \/ DeliverIgnored \/ ControllerReply \/ ControllerDrop
           \/ UNCHANGED vars
  BY <1>1, <1>4 DEF DeliverNoPending, DeliverIgnored, ControllerReply,
     ControllerDrop, vars, PendingSlotHolder
<1>. QED
  BY <1>2, <1>3, <1>4 DEF Next

(***************************************************************************)
(* For every set of commands, payloads that overflow the length byte       *)
(* included, a waiting call always holds onResult, and a call that has     *)
(* settled holds it only when buildCommand threw RangeError after the     *)
(* closure was installed: a timeout or an accepted answer always releases *)
(* the slot of the call it settles.                                        *)
(***************************************************************************)
THEOREM SlotHeld == Spec => []PendingSlotHolder
<1>1. Init => PendingSlotHolder
  BY DEF Init, PendingSlotHolder
<1>2. IInv /\ PendingSlotHolder /\ [Next]_vars => PendingSlotHolder'
  BY NextSlotHolder
<1>. QED
  BY <1>1, <1>2, InitIInv, NextIInv, PTL DEF Spec

-----------------------------------------------------------------------------
(***************************************************************************)
(* Refinement of CmdSlot.  It needs the slot to belong to exactly the      *)
(* waiting call (PendingSlotConsistent), which holds when every command's  *)
(* payload fits the length byte, so that buildCommand never throws.        *)
(***************************************************************************)
AllFit == \A cmd \in Commands : cmd.fits

IInvFit == IInv /\ PendingSlotConsistent

LEMMA InitIInvFit == Init => IInvFit
BY InitIInv DEF Init, IInvFit, PendingSlotConsistent

(* The slot stays with the waiting call on every step of a dispatcher whose *)
(* commands all fit.                                                        *)
LEMMA NextPendingSlot ==
    ASSUME AllFit, IInvFit, [Next]_vars
    PROVE  PendingSlotConsistent'
<1>1. /\ calls \in Seq(Call)
      /\ onResult \in 0..Len(calls)
      /\ \A c \in 1..Len(calls) : calls[c].state = "waiting" <=> onResult = c
  BY DEF IInvFit, IInv, TypeOK, PendingSlotConsistent
<1>2. CASE \E cmd \in Commands : SendBusy(cmd) \/ SendWrite(cmd) \/ SendOverflow(cmd)
  <2>1. PICK cmd \in Commands : SendBusy(cmd) \/ SendWrite(cmd) \/ SendOverflow(cmd)
    BY <1>2
  <2>2. CASE SendBusy(cmd)
    <3>1. /\ Len(calls') = Len(calls) + 1
          /\ \A x \in 1..Len(calls) : calls'[x] = calls[x]
          /\ calls'[Len(calls) + 1].state = "Busy"
          /\ onResult' = onResult /\ onResult # None
      BY <1>1, <2>2 DEF SendBusy
    <3>. QED
      BY <1>1, <3>1 DEF PendingSlotConsistent, None
  <2>3. CASE SendWrite(cmd)
    <3>1. /\ Len(calls') = Len(calls) + 1
          /\ \A x \in 1..Len(calls) : calls'[x] = calls[x]
          /\ calls'[Len(calls) + 1].state = "waiting"
          /\ onResult' = Len(calls) + 1 /\ onResult = None
      BY <1>1, <2>3 DEF SendWrite
    <3>. QED
      BY <1>1, <3>1 DEF PendingSlotConsistent, None
  <2>4. CASE SendOverflow(cmd)
    BY <2>4 DEF AllFit, SendOverflow
  <2>. QED
    BY <2>1, <2>2, <2>3, <2>4
<1>4. CASE (\E c \in CallIds : Timeout(c)) \/ DeliverAccepted
  (* Both release the slot through complete() of the pending call. *)
  <2>1. PICK c \in 1..Len(calls), outcome \in Outcomes, by \in 0..MaxCalls :
           /\ c = onResult
           /\ Complete(c, outcome, by)
    <3>1. CASE \E c \in CallIds : Timeout(c)
      <4>1. PICK c \in CallIds : Timeout(c)
        BY <3>1
      <4>. QED
        BY <4>1 DEF Timeout, IInvFit, IInv, TimerArmedIffPending, None, Outcomes
    <3>2. CASE DeliverAccepted
      <4>1. /\ onResult \in 1..Len(calls)
            /\ Head(fromController) \in Event
        BY <3>2, TailFacts DEF DeliverAccepted, IInvFit, IInv, TypeOK, None
      <4>2. /\ StatusOutcome(Head(fromController)) \in Outcomes
            /\ Head(fromController).for \in 0..MaxCalls
        BY <4>1 DEF StatusOutcome, Outcomes, Event, CallIds
      <4>. QED
        BY <3>2, <4>1, <4>2 DEF DeliverAccepted
    <3>. QED
      BY <1>4, <3>1, <3>2
  <2>2. /\ Len(calls') = Len(calls)
        /\ \A x \in 1..Len(calls) : x # c => calls'[x] = calls[x]
        /\ calls'[c].state # "waiting"
        /\ onResult' = None
    <3>1. outcome # "waiting" \/ calls[c].state # "waiting"
      (* a Complete step never writes "waiting" over a waiting call *)
      <4>1. CASE \E c2 \in CallIds : Timeout(c2)
        BY <4>1, <2>1 DEF Timeout, Complete
      <4>2. CASE DeliverAccepted
        BY <4>2, <2>1 DEF DeliverAccepted, Complete, StatusOutcome
      <4>. QED
        BY <1>4, <4>1, <4>2
    <3>2. calls[c].state = "waiting"
      BY <1>1, <2>1
    <3>. QED
      BY <1>1, <2>1, <3>1, <3>2, CompleteFacts DEF IInvFit, IInv
  <2>. QED
    BY <1>1, <2>1, <2>2 DEF PendingSlotConsistent, None
<1>5. CASE DeliverNoPending \/ DeliverIgnored \/ ControllerReply \/ ControllerDrop
                \/ UNCHANGED vars
  BY <1>1, <1>5 DEF DeliverNoPending, DeliverIgnored, ControllerReply,
     ControllerDrop, vars, PendingSlotConsistent
<1>. QED
  BY <1>2, <1>4, <1>5 DEF Next

LEMMA NextIInvFit ==
    ASSUME AllFit, IInvFit, [Next]_vars
    PROVE  IInvFit'
BY NextIInv, NextPendingSlot DEF IInvFit

(***************************************************************************)
(* Every step of the dispatcher is a step of CmdSlot or leaves the slot   *)
(* and the calls alone.                                                    *)
(***************************************************************************)
LEMMA RefineStep ==
    ASSUME AllFit, IInvFit, [Next]_vars
    PROVE  [Slot!Next]_<<onResult, calls>>
<1>1. /\ calls \in Seq(Call)
      /\ onResult \in 0..Len(calls)
      /\ \A c \in 1..Len(calls) : calls[c].state = "waiting" <=> onResult = c
  BY DEF IInvFit, IInv, TypeOK, PendingSlotConsistent
<1>2. CASE \E cmd \in Commands : SendBusy(cmd) \/ SendWrite(cmd) \/ SendOverflow(cmd)
  <2>1. PICK cmd \in Commands : SendBusy(cmd) \/ SendWrite(cmd) \/ SendOverflow(cmd)
    BY <1>2
  <2>2. CASE SendBusy(cmd)
    <3>1. Slot!Busy(cmd)
      BY <2>2 DEF SendBusy, Slot!Busy, Slot!Idle, None
    <3>. QED
      BY <3>1 DEF Slot!Next
  <2>3. CASE SendWrite(cmd)
    <3>1. Slot!Issue(cmd)
      BY <2>3 DEF SendWrite, Slot!Issue, Slot!Idle, None
    <3>. QED
      BY <3>1 DEF Slot!Next
  <2>4. CASE SendOverflow(cmd)
    BY <2>4 DEF AllFit, SendOverflow
  <2>. QED
    BY <2>1, <2>2, <2>3, <2>4
<1>3. CASE \E c \in CallIds : Timeout(c)
  <2>1. PICK c \in CallIds : Timeout(c)
    BY <1>3
  <2>2. c = onResult /\ c \in 1..Len(calls)
    BY <2>1 DEF Timeout, IInvFit, IInv, TimerArmedIffPending, None
  <2>3. calls[c].state = "waiting"
    BY <1>1, <2>2
  <2>4. Slot!Expire
    BY <2>1, <2>2, <2>3 DEF Timeout, Complete, Slot!Expire, Slot!Settle, Slot!Idle, None
  <2>. QED
    BY <2>4 DEF Slot!Next
<1>4. CASE DeliverAccepted
  <2> DEFINE c == onResult
             e == Head(fromController)
             d == e.for
  <2>1. c \in 1..Len(calls) /\ calls[c].state = "waiting"
    BY <1>1, <1>4 DEF DeliverAccepted, None
  <2>2. AnswersCall(e)
    BY <1>4, TailFacts DEF DeliverAccepted, IInvFit, IInv, TypeOK, EventsAnswerCalls
  <2>3. /\ e.opcode = calls[c].cmd.opcode
        /\ calls[c].cmd.connHandle # NoHandle => e.params = calls[c].cmd.connHandle
    BY <1>4 DEF DeliverAccepted, Accepts
  <2>4. calls[c].cmd.connHandle \in Handles \cup {NoHandle}
    <3>1. calls[c] \in Call
      BY <1>1, <2>1
    <3>. QED
      BY <3>1 DEF Call, CommandType
  <2>5. d \in 1..Len(calls) /\ AnswerMatches(calls[d].cmd, calls[c].cmd)
    BY <2>2, <2>3, <2>4 DEF AnswersCall, AnswerMatches
  <2>6. StatusOutcome(e) \in {"Success", "HciError"}
    BY DEF StatusOutcome
  <2>7. Slot!Settle(StatusOutcome(e), d)
    BY <1>4, <2>1 DEF DeliverAccepted, Complete, Slot!Settle, Slot!Idle, None
  <2>8. Slot!Resolve
    BY <2>1, <2>5, <2>6, <2>7 DEF Slot!Resolve, Slot!Idle, None
  <2>. QED
    BY <2>8 DEF Slot!Next
<1>5. CASE DeliverNoPending \/ DeliverIgnored \/ ControllerReply \/ ControllerDrop
                \/ UNCHANGED vars
  BY <1>5 DEF DeliverNoPending, DeliverIgnored, ControllerReply, ControllerDrop, vars
<1>. QED
  BY <1>2, <1>3, <1>4, <1>5 DEF Next

(***************************************************************************)
(* HciCmd implements the single-slot contract of spec 4.3 when every       *)
(* payload fits its length byte: each call of sendWaitResult is a Busy     *)
(* rejection or an Issue from Idle, and each timeout or accepted answer    *)
(* settles exactly the pending call, with an answer it matches.           *)
(***************************************************************************)
THEOREM Refinement ==
    ASSUME AllFit
    PROVE  Spec => ImplementsCmdSlot
<1>1. Init => Slot!Init
  BY DEF Init, Slot!Init, Slot!Idle, None
<1>2. IInvFit /\ [Next]_vars => IInvFit'
  BY NextIInvFit
<1>3. IInvFit /\ [Next]_vars => [Slot!Next]_<<onResult, calls>>
  BY RefineStep
<1>. QED
  BY <1>1, <1>2, <1>3, InitIInvFit, PTL DEF Spec, ImplementsCmdSlot, Slot!Spec


(***************************************************************************)
(* When every command's payload fits the length byte, the onResult slot    *)
(* belongs exactly to the waiting call in every reachable state: only the  *)
(* RangeError thrown by buildCommand after the slot was taken can leave a  *)
(* settled call holding it (the overflow_slot run).                        *)
(***************************************************************************)
THEOREM PendingSlot ==
    ASSUME AllFit
    PROVE  Spec => []PendingSlotConsistent
<1>1. IInvFit /\ [Next]_vars => IInvFit'
  BY NextIInvFit
<1>2. IInvFit => PendingSlotConsistent
  BY DEF IInvFit
<1>. QED
  BY <1>1, <1>2, InitIInvFit, PTL DEF Spec

=============================================================================
