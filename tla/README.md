# Verification of bluetooth-hci

This directory holds TLA+ models, TLC runs and TLAPS proofs for the host side of the Bluetooth HCI
library in `src/`.

## The system

| Part | Source | What it does |
|---|---|---|
| Command dispatcher | `src/src/HciCmd.ts` (`HciCmd`) | Sends one HCI command at a time (`sendWaitResult`). It holds one pending slot (`onResult`) and arms a timeout per call. A `CommandComplete` or `CommandStatus` event is matched by opcode. For a per-connection command it is also matched by the handle at the start of the return parameters. |
| Event router | `src/unnamed/part_000`, second `Hci` class (`onData`, `onHciEvent`, `onCommandComplete`, `onCommandStatus`, `onNumberOfCompletedPackets`, `onLeEvent`, the report loops) | Validates event frames. It hands command answers to `HciCmd.onCmdResult` and emits GAP and LE events to the listeners registered on the `EventEmitter`. |
| Legacy dispatcher | `src/unnamed/part_000`, first `Hci` class (`send`, `onData`, `buildBuffer`) | An earlier single-slot dispatcher that validates frames itself. Its closure compares an answer with the field `this.cmdOpcode`, not with its own command. |
| Encoders and decoders | `part_000`, first class (`leSet*`, `msToHciValue`, `buildBitfield`, the `read*` return-parameter parsers); `sendAclData` and `HciCmd.buildCommand` | Pure byte layouts. |
| Command groups | `src/src/HciCmd.ts` (`HciOpcode.build`, `controlAndBaseband`, `informationParameters`, `statusParameters`, `lowEnergy`) | Build the opcode `ogf << 10 \| ocf` of their group and hand the command to `sendWaitResult`. |
| LE supported states | `src/src/HciLe.ts` (`LeState`, `LeStateNames`, `LeAllowedStates`, `LeSupportedStates`) and `leReadSupportedStates` in `part_000` | Turn the 64-bit mask the controller returns into the list of state combinations of its set bits 0-41, and name them. |
| Serial transport | `src/src/gap/GapEvent.ts` (`SerialHciDevice`, `createHciSerial`) | Wraps the `serialport` library: picks a port, defaults the UART settings, and turns `open` and `close` into promises. |

How the parts interact, on one Node thread:
1. An API method encodes a payload and calls the dispatcher.
2. The dispatcher's `Promise` executor runs synchronously.
   - It rejects with `Busy` if a command is pending.
   - Otherwise it arms `setTimeout` and installs its closure in the slot.
   - Then it frames the command and writes it.
3. The controller answers on the link. `onData` routes a `CommandComplete` or `CommandStatus` to the closure, and every other event to listeners.
4. The closure returns early or calls `complete`, which clears the timer and the slot and settles the promise. If no answer is accepted, the timer calls `complete(Timeout)`.

The model takes each of these as one atomic step, because none of them contains an `await`:
- a call of `sendWaitResult` or `send`;
- a timer callback;
- a call of `onData` on one packet.

## Modules

| Module | Models | Used by |
|---|---|---|
| `CmdSlot` | The abstract single-slot contract of spec.md 4.3: Idle or Pending; Busy while Pending; Issue from Idle; the pending call is settled by expiry or by a matching answer. `Matches` is a constant operator. | both dispatchers' refinements |
| `HciCmd` | `HciCmd.sendWaitResult`, `complete`, the timeout callback, the `onResult` closure and `onCmdResult`, plus the CommandComplete/CommandStatus path of the router, with the controller as environment | `MC_HciCmd`, `HciCmd_proofs` |
| `LegacyHci` | The first class's `send` (busy check, `complete`, timeout, the closure's `cmdOpcode` check, `buildBuffer` throwing `RangeError`) and `onData` (frame under 2 bytes, length mismatch, short CommandComplete, dispatch to the closure) | `MC_LegacyHci`, `LegacyHci_proofs` |
| `HciCodec` | The encoders, `msToHciValue`, `buildBitfield`, `buildBuffer`, `buildCommand`, `HciOpcode.build` and the four group methods (`GroupCommand`), `sendAclData`, as operators over byte sequences with Node `Buffer` semantics. `allocUnsafe` leaves bytes `Junk`, and `write*` or `read*` out of range, or a value too wide, is a `RangeError`. | `MC_HciCodec` |
| `HciDecode` | The fourteen return-parameter decoders of the first class, and `Ok`/`Throw`. Each checks its minimum length (`InvalidPayloadSize`), then reads its fields with `readUIntLE`, a read past the end being a `RangeError`. The object a decoder returns is the sequence of its fields, each as the bytes it is read from. The module has no recursion, so TLAPS can reason about it. | `HciCodec`, `DecodeCalls` |
| `CodecCalls` | The state of the codec runs: the constant `Cases` and the variables `case` and `result`. | `SerialCalls`, `DecodeCalls` |
| `DecodeCalls` | The decoder calls made one after another (`DecodeRun`), `CoreLayout` (each command's return parameters as the Core specification lays them out: offset and size of each field), `Needs` (where the last field ends), `DecodeCasesAssumption` (a buffer is a sequence of bytes) and `DecodersReportShortfall`. | `MC_HciCodec`, `DecodeCalls_proofs` |
| `LeStates` | The `LeState` enum, `LeStateNames`, `LeAllowedStates`, `fromBitmask` and `toString`. A bigint mask is the set of positions of its 1 bits, and `readBigUInt64LE` is `BitmaskOf` (bit j of byte i is bit 8i+j). | `MC_HciCodec` |
| `SerialHci` | The options the `SerialHciDevice` constructor gives its `SerialPort`, `findSerial`, `createHciSerial`, and how the promises of `open()` and `close()` settle. An options object is a function from the keys the caller set: `??` tests the domain, and a spread is `Merge`. `Undefined` is the falsy path, either `undefined` or the empty string. `findSerial`'s filter and index are the set `HciIndices` and the rank `HciRank`. The module has no recursion and no TLC operators, so TLAPS can reason about it. | `SerialCalls` |
| `SerialCalls` | The serial calls made one after another. A state is the call (`case`) and its result; `SerialRun` makes a call. `SerialArgsOK` (assumed for every case as `SerialCasesAssumption`) types the arguments. It also states the library's contract: `open` gives the `'open'` event then `callback(null)`, or `callback(err)` alone; `close` gives `callback(null)` or `callback(err)`. It defines `UartConfigured` and `TransportSettles`. | `MC_HciCodec`, `SerialCalls_proofs` |
| `EventRouter` | `onData`, `onHciEvent` and every handler of the second class, as a function from a packet and the registered listeners to the list of what was done: a result for `onCmdResult`, or a listener call. `EventEmitter.emit` calls listeners in order and stops at the first that throws; `onData` catches the throw. | `MC_HciCodec` |

### Dispatchers

In `HciCmd` and `LegacyHci` the state is the following:
- the slot (`onResult` or `onCmdComplete`, with `None` standing for `null`);
- `timers`, the calls whose timer is armed;
- `calls`, every call with its command, its outcome (`waiting` while open) and the call whose answer resolved it;
- the FIFO links `toController` and `fromController`.

`LegacyHci` adds two variables:
- `cmdOpcode`, the field;
- `parserErrors`, the number of `'parser-error'` events emitted.

A command is abstracted to:
- its opcode;
- its registered handle (HciCmd only);
- how the controller answers it (HciCmd only);
- whether its payload fits the one-byte length field.

The actions map to the code as follows:

| Action | HciCmd | LegacyHci |
|---|---|---|
| `SendBusy` | `sendWaitResult` while `onResult !== null` | `send` while `onCmdComplete !== null` |
| `SendWrite` | `setTimeout`, install `onResult`, `buildCommand`, `send` | `setTimeout`, install the closure, `this.cmdOpcode = cmd.opcode`, `sendRaw(buildBuffer(cmd))` |
| `SendOverflow` | as `SendWrite`, but `buildCommand` throws `RangeError`; the promise is rejected while the slot and timer stay | as `SendWrite`, but `buildBuffer`'s `writeUInt8` throws |
| `Timeout` | timer callback: `complete(Timeout)` | same |
| `Deliver*` | `onCmdResult` with no closure, closure returns early, or closure completes | `onData`'s early returns (`DeliverTooShort`, `DeliverMalformed` emitting `parser-error`) and the same three closure outcomes |
| `ControllerReply`, `ControllerDrop` | the controller (from the HCI specification): it answers the head command or never does | the same; the link may also cut the answer short or corrupt its length byte |

`Complete` changes a call's outcome only while it is `waiting`, because settling a settled promise does nothing.

### Codec and router

`MC_HciCodec` has two variables, declared in `CodecCalls`:
- `case`, one call (an operation and its arguments from a small set);
- `result`, what the code returns for it.

`Init` and every step pick another case. So the invariants are checked over every input of the run.

The properties compare that result with a reference written from the wire layouts of spec.md 4.1 and 6 and of the Core specification, and not from the code:
- `Layout(c)` gives the list of fields (width and kind) each command puts on the wire.
- `Parses` reads the bytes back along it with a separate little-endian reader.
- A time field is read back as the nearest tick (`NearTick`).
  - This subsumes the spec.md 8 interval round trip: 20 ms and 10240 ms convert back to themselves.
- `CoreLayout` (in `DecodeCalls`) gives the fields of each decoder's return parameters, and `Needs` the length they occupy.
- For `onData`, each case carries the list of effects the Core layout says the packet must cause.
- An opcode field is read back as the OGF in bits 10-15 and the OCF in bits 0-9 (spec.md 2).
- `CoreSupportedStates(b)` is the LE Supported States table of the Core specification, written in its own structure (single states, advertising with scanning, advertising or scanning with initiating or a connection, and so on), not as the code's flat list.
- For the serial transport, the reference is spec.md 3 (UART 8N1, RTS/CTS, 1,000,000 baud) and spec.md 7 (transport errors propagated unchanged).
  - The notifications of `port.open` follow serialport's order. On success it emits `'open'` and then calls the callback with `null`. On failure, or on a port already open, it only calls the callback with the error.
  - `open()` resolves only because the event comes first. The callback rejects even with `null`, so the reverse order would reject a port that opened (see the hazards).

## Runs

| Run | Module | Expect | What it shows |
|---|---|---|---|
| `dispatch` | `MC_HciCmd` | pass | Commands that fit, of three opcodes, two per-connection on handles h1 and h2, with answers lost and late. It checks `TypeOK`, `PendingSlotConsistent`, `TimerArmedIffPending`, `RepliesMatchConnection`, `EveryCallSettles`, and `ImplementsCmdSlot` (HciCmd refines CmdSlot). |
| `overflow` | `MC_HciCmd` | pass | An oversized command mixed with Reset. `TimerArmedIffPending` holds, and `SlotEventuallyFreed`: the slot left by the `RangeError` is freed by its timer. `PendingSlotHolder`: a waiting call always holds the slot, and the only settled call that can hold it is one rejected with `RangeError` (what `PendingSlotConsistent` weakens to when payloads may overflow). |
| `late_reply` | `MC_HciCmd` | violation | `ResolvedByOwnReply`: a Reset times out, a second Reset is sent, and the first answer resolves the second call. |
| `status_reply_conn` | `MC_HciCmd` | violation | `ReplyToPendingSettlesIt`: LE Enable Encryption is answered by CommandStatus, which carries no return parameters. The closure never accepts it, and the call always times out. |
| `short_error_reply_conn` | `MC_HciCmd` | violation | The same property, for an error CommandComplete that carries only the status byte. |
| `overflow_slot` | `MC_HciCmd` | violation | `PendingSlotConsistent`: after the `RangeError` the slot stays taken, and calls get `Busy` until the timer fires. |
| `legacy` | `MC_LegacyHci` | pass | Two fitting commands and one oversized command, with answers whole, cut short or with a wrong length, lost or late. It checks `LegacyTypeOK`, `TimerArmedIffPending`, `RepliesMatchOpcode` (a call is resolved only by an answer to a call of its own opcode), `EveryCallSettles` and `PendingSlotHolder` (a waiting call always holds `this.onCmdComplete`; only a call whose `buildBuffer` threw holds it after settling). |
| `legacy_late_reply` | `MC_LegacyHci` | violation | `ResolvedByOwnReply`: a Reset of the first class times out, a second Reset is sent, and the late answer to the first resolves the second call, because the closure compares with `this.cmdOpcode` alone. |
| `codec` | `MC_HciCodec` | pass | Every modelled encoder, framer, decoder and event handler on inputs at the edges of each field (0, the maximum, one past it, interval limits 20 and 10240 ms, advertising data of 0, 31 and 32 bytes, command payloads of 255 and 256 bytes), and short return parameters; the four command groups with OCFs 0, 1 and 1023; a supported-states mask with each single bit 0-63, all bits, 7 and 9 bytes; `createHciSerial` over three port lists and every combination of path (absent, empty, given), baud rate (absent, 0, 115200), flow control, stop bits, and parity with data bits; `open` and `close` succeeding and failing. It checks `CodecTypeOK`, `EncodeRoundTrip`, `DecodersReportShortfall`, `PacketsRouted`, `SupportedStatesDecoded`, `UartConfigured` and `TransportSettles`. |
| `legacy_scan_enable` | `MC_HciCodec` | violation | `EncodeRoundTrip`: `leSetScanEnable` writes both flags at offset 0, so byte 1 is left uninitialised. |
| `malformed_frames` | `MC_HciCodec` | violation | `MalformedFramesReported`: the second class drops malformed frames with only a debug log, where spec.md 4.2 asks for a parser-error report. |
| `listener_throws` | `MC_HciCodec` | violation | `PacketsRouted`: a throwing listener stops the report loop, so later listeners and later reports of the packet are never called. |

Bounds:
- `MaxCalls` = 3 in the dispatcher runs. That allows a timeout followed by two more calls, a Busy rejection, and late answers crossing a new call.
- The violation runs use the fewest calls that exhibit each behaviour.
- The links are bounded by `MaxCalls`, because one packet per call and one answer per packet.
- The codec cases are chosen at the boundaries where a width, a range check or a length check decides the outcome. Byte values in between are all treated alike by the code.

Each property of a passing run has a mutant. A mutant is a plausible bug, written as an operator just before the definition it replaces, and TLC finds the property violated when the mutant is in place. The mutants are:
- the busy check dropped;
- `clearTimeout` forgotten;
- the handle check dropped;
- the `cmdOpcode` check dropped;
- a timeout that never rejects;
- `setTimeout` moved after the framing;
- an off-by-one call id;
- the opcode of a CommandComplete read as a signed 16-bit value;
- the extended scan parameters written per PHY instead of grouped;
- a decoder minimum one byte short;
- `onCommandStatus` reading the CommandComplete offsets;
- `fromBitmask` stopping before bit 41;
- `createHciSerial` without the fallback for a falsy `baudRate`;
- `open()` without its `once('open')` listener;
- the busy check dropped in the first class as well (for `PendingSlotHolder` in both dispatchers).

## Fairness

`FairSpec` of both dispatchers assumes two kinds of weak fairness:
- of the timer callback, because Node eventually runs an armed `setTimeout`;
- of delivering the next frame, because the serial port hands on what it received.

The controller and the callers get no fairness: the controller may never answer, and callers may stop. The dispatcher runs set `CHECK_DEADLOCK FALSE`, because the system really stops once `MaxCalls` calls are made and the links are empty. `MC_HciCodec` can always make another call.

## Proofs

`HciCmd_proofs` proves the following for every value of the constants allowed by `ConstantsAssumption`:
- `TypeCorrect` (`[]TypeOK`), `TimerArmed` (`[]TimerArmedIffPending`) and `RepliesMatch` (`[]RepliesMatchConnection`).
  - All three come from `IInvariant`: `Spec => []IInv`.
  - `IInv` adds three facts: every call id held (slot, timers, packets) names an issued call; every event in flight is the answer the controller built for the call it names (`EventsAnswerCalls`); and `RepliesMatchConnection`.
  - `EventsAnswerCalls` is what makes the matching property inductive. When the closure accepts `e` for the pending call `c`, its checks together with what `e` answers give the same opcode and handle for `e.for`.
- `Refinement`: under `AllFit` (every payload fits), `Spec => ImplementsCmdSlot`.
  - The inductive invariant is `IInvFit == IInv /\ PendingSlotConsistent`.
  - Every step maps to `Busy`, `Issue`, `Expire` or `Resolve` of `CmdSlot`, or to a stutter of `<<onResult, calls>>`.
  - `AllFit` is needed because `overflow_slot` shows `PendingSlotConsistent` is false otherwise.
- `PendingSlot`: under `AllFit`, `Spec => []PendingSlotConsistent`, from the same `IInvFit`.
- `SlotHeld`: `Spec => []PendingSlotHolder`, with no `AllFit` needed, so oversized payloads included. `IInv /\ PendingSlotHolder` is inductive (`NextSlotHolder`):
  - a send from the idle slot finds no call waiting (a waiting call would hold the slot) and puts the new call, waiting or rejected with `RangeError`, in it;
  - `Timeout` and an accepted reply run `complete` on the slot holder: `TimerArmedIffPending` (part of `IInv`) is what makes a firing timer's call the holder, and `CompleteFacts` shows the holder leaves `waiting` while the slot is cleared.

`LegacyHci_proofs` proves the same for the first class, under `LegacyConstantsAssumption`:
- `LegacyTypeCorrect`, `LegacyTimerArmed` and `LegacyRepliesMatch`.
  - `IInv` there carries `SlotOpcode`: while a closure is installed, `this.cmdOpcode` is its call's opcode.
  - Because of `SlotOpcode`, comparing with the shared field is as good as comparing with the call's own command.
- `LegacySlotHeld`: `Spec => []PendingSlotHolder`, along the same argument as `SlotHeld`. Here a CommandComplete of the opcode of a call whose `buildBuffer` threw can also run `complete()` on it and free the slot.
- `LegacyRefinement`: under `AllFit`, the first class implements `CmdSlot` with opcode-only matching.

`DecodeCalls_proofs` proves `DecodersShortfall`: `DecodeSpec => []DecodersReportShortfall`, for every byte buffer (`DecodeCasesAssumption`).
- `DecodeWithinMin`: a `Decode` whose reads all end within its minimum never throws `RangeError`. Below the minimum it throws `InvalidPayloadSize`; from the minimum on it returns every field.
- `RunIsLayout`: each decoder's minimum is its `Needs` and its reads are its `CoreLayout`. This is shown decoder by decoder, and it is what the `leReadBufferSizeV2` mutant (minimum 5) breaks.
- `LayoutWithinNeeds`: every field of a layout ends within `Needs`.
- As for the serial calls, no strengthening is needed: `DecodeSpec` is the codec run's `Call` restricted to the decoders.

`SerialCalls_proofs` proves the serial properties for every option object, port list, device id and error value allowed by `SerialCasesAssumption`:
- `SerialConfigured`: `SerialSpec => []UartConfigured`.
  - `CreateConfigured` follows `createHciSerial`'s three exits. When the caller gave no path and `findSerial` threw, the result is the error. When the path is still falsy, it is `NoPort`. Otherwise the constructor's options are derived key by key from the spread.
  - `FoundPortListed` shows a found path is the path of a listed port: the `CHOOSE` of `FindSerial` picks from `HciIndices`, which lies in `1..Len(ports)`.
- `SerialSettles`: `SerialSpec => []TransportSettles`, under the library contract that `SerialArgsOK` states. Drop the `'open'`-before-callback order from that contract and `open()` rejects a port that opened (the hazard at `GapEvent.ts:32`).
- No strengthening is needed: every call sets `case` and `result` afresh, so the property of one call (`CallCorrect`) is the inductive step. `SerialSpec` is the codec run's `Call` restricted to the serial operations; the codec run checks the same two properties on its cases.

The proofs are laid out with one lemma per action, plus lemmas for `complete` and for `Tail`.

What stays with TLC:
- the liveness properties (`EveryCallSettles`, `SlotEventuallyFreed`), which need fairness and ENABLED reasoning;
- the encoder, router and supported-states properties (`CodecTypeOK`, `EncodeRoundTrip`, `PacketsRouted`, `SupportedStatesDecoded`). `HciCodec` uses `Bitwise` and recursive operators (`SequencesExt`), and `LeStates` uses `SelectSeq`. A module that reaches them cannot hold a theorem. The properties are also about concrete byte values computed by recursion over the input, which would need induction over data that the provers cannot instantiate.

## Not modelled

- The 64-bit event masks as integers: beyond TLC's integers. The supported-states mask is modelled as the set of its 1 bits.
- `HciOpcode.expand`, which nothing in `src/` calls, and the enums of `HciLe.ts` after `LeAllowedStates`, which only name constants.
- The second class's encoders that delegate to parameter classes imported from outside `src/`, and the LE report parsers (`LeAdvReport` and others). A report is named only by its position.
- `SerialHciDevice.write` and `on`, which hand their arguments to the library unchanged, and the logging listeners of the constructor. In the dispatcher models the transport is the FIFO links. The listener that a failed `open()` leaves registered is recorded as a hazard: `SerialHci` follows one `open()` call.
- An OCF of 1024 or more: `HciOpcode.build` does not mask it, which spec.md 2 says it should. The OCF enums the methods take are all below 0x400, so no call of the code can reach it, and the codec run passes only in-range OCFs.
- ACL handles of 0x1000 or more: `sendAclData` ORs the handle in unmasked, but controllers assign handles of at most 0x0EFF, so the codec run passes handles up to 0x0EFF only.
- The GAP event types, which are type declarations.

## Plan

- Compose `EventRouter` with `HciCmd`, so that the router's parsing of a CommandStatus feeds the dispatcher directly and is not abstracted into `ReplyParams`.
- Prove lemmas about `EventRouter`'s frame checks in a recursion-free module.
