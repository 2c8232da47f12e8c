# The SerialFC driver in TLA+

This directory models the kernel driver of SerialFC for Windows (`src/`, a KMDF
descendant of Microsoft's serial sample, extended for Fastcom cards) in TLA+. TLC
checks the models on small instances, TLAPS proves most of their safety properties
for every instance. File names below are those of `src/`.

## 1. The system

One device object per port. Its state is `SERIAL_DEVICE_EXTENSION`; each request
carries a `REQUEST_CONTEXT`. Who runs:

- **Clients** send reads, writes and ioctls; they cancel them at any time.
- **The device lock.** `WdfSynchronizationScopeDevice` (pnp.c:341) and
  `AutomaticSerialization` of the DPCs and timers (utils.c:945-1202) make queue
  callbacks, cancel callbacks, DPCs and timer callbacks run one at a time.
- **The ISR** preempts the holder of that lock anywhere outside a
  `WdfInterruptSynchronize` routine. It completes nothing itself: it notes what it has
  done and queues a DPC.
- **Outside the lock:** flush (`EvtDeviceWdmIrpPreprocess`), create and close, and the
  framework's callbacks of a cycle through D0, before which it stops the queues.
- **The other ports of a card** have devices and locks of their own, and registers in
  common.

| Component | State | Operations | Hard because |
|---|---|---|---|
| Request references (utils.c) | `RefCount`, `Cancelled`, `CancelRoutine`, queues | `SerialTryToCompleteCurrent`, `SerialRundownIrpRefs`, `SerialGetNextRequest`, `SerialStartOrQueue`, cancel in and out of a queue, purge | ISR, DPC, two timers and a cancellation race to end one request; the last one must, and only the last |
| Receive path (read.c, isr.c, purge.c, error.c) | interrupt buffer and its four pointers, `ReadBufferBase`, the current read, its two timers | `SerialPutChar`, start, copy, hand to ISR, complete, time out, resize, purge, error abort | the ISR's destination changes under it: user buffer, interrupt buffer, new interrupt buffer; copying is not atomic with counting |
| Write path (write.c, immediat.c, flush.c) | three current requests, `WriteLength`, `TransmitImmediate`, `CountSinceXoff`, `TotalCharsQueued` | writes, xoff counters (a write that becomes something else), immediate characters, purge, flush, `GET_COMMSTATUS` | one request moves between slots, each with references of its own; starting a write ends a counter |
| Event waits (waitmask.c) | `IsrWaitMask`, `HistoryMask`, `IrpMaskLocation`, `EmptiedTransmit` | `SET_WAIT_MASK`, `WAIT_ON_MASK`, events, cancel | the ISR writes into a client's buffer that others take from it |
| Transmitter and flow control (isr.c, modmflow.c) | `TXHolding`, `RXHolding`, `HoldingEmpty`, `SendXonChar`, `SendXoffChar`, `CountOfTryingToLowerRTS` | the transmit interrupt, the poke, Xon/Xoff, CTS, RTS handshake and toggling, break, `SET_HANDFLOW` | no interrupt comes unless somebody caused it; a lost wakeup is a port that hangs |
| Life cycle (openclos.c, power.c, pnp.c) | `DeviceIsOpened`, `Reopen`, `InterruptReadBuffer`, `IsInterruptConnected`, saved registers | create, close, D0 entry and exit, reset | a close of ten steps waits for paths of execution that are under way, while the device may go out of D0 before and after |
| Line rate (ioctl.c, utils.c) | `CurrentBaud`, `ClockRate`, `SampleRate`, `FixedBaudRate`, the divisor latch | `SET_BAUD_RATE`, clock, sample rate, fixed rate, reset, D0 entry | the latch is derived from settings that change without it; rounding and overflow of divisors |
| Card features (utils.c, ioctl.c) | FCR, MCR, ACR and similar, by card type; the settings recorded | RS485, isochronous, termination, nine bits, triggers, frame length, clock, at request and again at D0 entry | ports of a card and the ISR share registers that each reads, changes and writes back |
| Line configuration (ioctl.c) | line control, special characters, timeouts | about thirty ioctls | relations between limits |
| Registry, WMI, trace, user libraries | none of their own | | |

The parts meet in few places. The read and write paths, the waits and the transmitter
share the ISR. The receive path reports its fill to flow control, which may stop the
peer or the transmitter. A write's end gives events to the waits. Every path with a
current request uses the reference protocol. The life cycle stops and restarts the
transmitter, resets the line rate and sets up the card features again. PROJECT.json lists each hazard at its
line with the properties that would show it.

What makes each part correct:

- *References:* a request is current exactly as long as somebody will come back for
  it, and it is completed once.
- *Receive:* characters reach the client in the order they arrived, none lost or
  duplicated, whichever buffer they passed through; a read that is cancelled or timed ends.
- *Write:* writes are sent whole and in order, a count is reported truly, each ends.
- *Waits:* no event is missed or told twice; a wait that has its event ends.
- *Transmitter:* what may be sent is sent; the FIFO is not overrun; the peer and
  `RXHolding` agree; RTS is up while sending and comes down after it.
- *Life cycle:* the ISR of a port taken for open has its buffer; nothing of a session
  outlives the close; a port that was open works again after a cycle of power.
- *Line rate:* the line runs at the rate the driver reports, within one percent (if the card can).
- *Card features:* a setting that was accepted is in force until it is set again, across
  the settings of the other port, interrupts, opens and cycles of power.

## 2. The modules

| Module | Models | Notes |
|---|---|---|
| `Requests` | utils.c, the reference protocol | operators only; used by the three below |
| `ReadPath` | the receive path | implements `RxStream`; `ReadPath_proofs` has the theorems on its request protocol, `ReadBuffer_proofs` those on its buffers and that it implements `RxStream` |
| `RxStream` | the promise: one stream of characters cut into results | abstract |
| `WritePath` | writes, xoff counters, immediate characters | implements `TxStream`; `WritePath_proofs` has the theorems on its request protocol, `WriteChars_proofs` those on its counts and that it implements `TxStream` |
| `TxStream` | the promise: a line of writes, each sent from its front | abstract |
| `Subsequences` | the elements of a sequence that are in a set | one operator, a recursive function, so that proofs can look into it; used by `WritePath` and `TxStream` |
| `WaitMask` | event waits | `WaitMask_proofs` has its theorems |
| `Transmitter` | the transmitter, flow control, RTS | `Transmitter_proofs` has its theorems |
| `PortLife` | create, close, the cycle through D0, around the transmitter | EXTENDS `Transmitter`, uses its operators and actions; `PortLife_proofs` has its theorems |
| `Divisor` | the arithmetic of the line rate | operators only |
| `BaudRate` | who sets the divisor latch, and from what | `BaudRate_proofs` has its theorems |
| `Settings` | the card features as programs of register accesses | two ports of a card |
| `MC...` | instances for TLC | |

**State.** Variables have the names of the code. `RefCount`, a mask of bits, is the
set of the bits. A character is the number of its arrival; 0 is the error character and
whatever a buffer held before. A timer is `off`, `set` or `fired` (out of the
timer queue, its callback waiting for the lock); `WdfTimerStop` returns TRUE exactly
when it was set. A request's cancel mark is `none`, `cancelable` or `dispatched`
(cancelled, its callback waiting for the lock); unmarking fails exactly when it was
dispatched. These framework objects are modelled from how the driver relies on them.

**Actions.** In `ReadPath` and `WritePath` the lock holder's place is `pc`. A handler
is one action unless the ISR in between could be seen; there it is split. So
`SerialStartRead` is `StartRead` (the timeouts, and the copy out of the interrupt
buffer), then `FinishReadAtOnce` or `UpdateAndSwitchToUser` (what the synchronized
routine does): a character that arrives between the copy and the count is a step of
`ISR` between the two. Completing a request
always takes the next one from the queue in the same step (`TryToComplete`, with
`GetNextRequest` in it), as `SerialTryToCompleteCurrent` does. A queue that
`WdfIoQueuePurge` clears hands its requests to `SerialEvtCanceledOnQueue` in that step.

In `Transmitter` every `WdfInterruptSynchronize` routine and every pass of the ISR
through its loop is one action, and each C function is an operator from the device
record to the device record, composed in the order of the code. `TransmitStuff` is
the chain of `if`s of the transmit interrupt with its priorities (Xon, Xoff, immediate,
write); `PerhapsLowerRTS`, `HandleModemUpdate`, `ProdXonXoff`, `SetupNewHandFlow`
have the names of the code.

`PortLife` adds a record `port` to the variables of `Transmitter`, whose `ISR`, `Shift`,
`StartWrite`, `SetHandFlow` and the rest it uses under guards of its own: an ISR needs
power, OUT2 and, on entry, `DeviceIsOpened`; a request needs an open file and a queue that is
not stopped. `SerialFileCloseWorker` runs at passive level and lets go of the processor,
so `port.stage` is its program counter, a stage for each thing it waits for. While it
holds `InterruptStateLock`, `PreInterruptsDisabled` waits. A close that finds the
interrupt disconnected goes straight to the freeing of the buffer. `SerialReset` is
composed from the operators of `Transmitter` for a port that is not open. The UART goes
dark between `D0Exit` and `D0Entry`, and its CTS line may change meanwhile. Histories
(`port.history`) mark what the properties except: a close with the interrupt
disconnected, an open without power, characters the FIFO lost, an Xon that was due
already.

In `BaudRate` a handler is one action, as the device lock allows; `Divisor` follows
`SerialGetDivisorFromBaud` with the widths of its integers (`LongRange`, `ShortRange`).
`disturbed` is a history of what has changed since the latch was written.

In `Settings` each `FastcomSet...` and `FastcomGet...` is a sequence of register accesses
(`save`, `raise`, `lower`, `put`, ...), in the order of the code, built by an operator with its
name, by card type. `Step` executes the next access of one of the programs under way:
the handler of each port, and its driver, which is the ISR asking for the room in the
FIFO or the D0 entry. A register of flags is the set of those that are up;
`ICR` is reached through `SPR` as on the chip, and reads garbage unless `ACR` allows it.
`doubtful` is a history: the settings at which two programs met, one writing a register
the other uses; a program that meets no other one settles what it sets. A port on its way to D0
makes its accesses to registers of its own together with the next shared access.

**Assumptions.**

- The device lock is that of the framework; `Continue` runs when its holder is not done.
- The UART interrupts when its FIFO has drained to the trigger level, and again when it
  is empty; reading the cause quiets it; the poke (interrupts disabled and enabled)
  raises it again as long as the level is that low. The level that
  `FastcomGetTxFifoSpace` reads is exact.
- A request that nobody can reach any more (`Lost`, below) stays pending in `WritePath`:
  its parties may still come, and find another counter or none; what they would then do is
  not modelled.
- A due `LowerRTSTimer` callback runs before the timer can run out again.
- In `Transmitter`, the DSR and DCD holds behave as CTS does, and DTR handshake as RTS
  handshake does; `ReadPath` has both lines.
- The hardware drains while a close waits for it: the close gives up after 320 character
  times and marks the hardware broken, which is not modelled.
- The framework stops the queues before it calls `PreInterruptsDisabled`, and starts them
  after `PostInterruptsEnabled`; the ISR does not run between disconnection and connection.
- Registers hold nothing after a loss of power; a card loses it only when all its ports
  are out of D0.
- In `Transmitter` and `PortLife` the write queue is an input: `writesQueued` says that it is
  not idle, as `IsQueueEmpty` takes it. `QueueWrite` fills it behind a current write;
  `QueueEmptied` lets it become idle at any time, which covers a cancellation, a purge and the
  end of a counter that came out of it; after the end of a write it may stay in use, which covers
  a queue that a flush has stopped and a counter that goes on.

## 3. The runs

| Run | Question | Bounds |
|---|---|---|
| `ReadPath_safety` | is the request protocol right on the read path, do the pointers agree, is the stream kept? | two reads, or a read and two resizes (`Loads`); buffer of 2, resized to 3; reads of 1 and 3; three characters; five timeout modes |
| `ReadPath_live` | does a read end that is cancelled, timed, interval-timed, or hit by an error? | one read of 2, three characters, errors abort; no timeout, interval and total, interval alone |
| `WritePath_safety` | protocol, accounting, `GET_COMMSTATUS`, order and outcome of writes | two writes of 2 and an xoff counter, or two counters (`Loads`), with and without a timeout; purge, flush; 2.47 million states |
| `WritePath_live` | do requests end? the immediate path | an immediate character and a counter |
| `PortLife` | does the ISR have its buffer, does an open port work, is a closed one quiet, does the close end? | two settings and the change between them, FIFO, buffer and write of 1, one cycle through D0; opens and closes without bound; 7.3 million states |
| `BaudRate` | does the line run at the rate recorded, if the card supports it? | 11 rates, 6 clocks, 6 sample rates, 2 fixed rates, the four card types; 129 000 states |
| `Settings` | is every setting in force, is every answer true? | two ports, 12 settings asked for, two requests or interrupts and one more exit from D0, two programs at once, the four card types; 2.25 million states |
| `WaitMask` | all of it | three waits, two events, three masks |
| `Transmitter` | wakeups, overrun, Xon/Xoff, RTS | three flow control settings and all changes between them, the write queue in use or not, FIFO of 2 with trigger 1, buffer of 2; 8.1 million states |
| `Transmitter_rts` | does RTS come down? | toggling chosen and left, writes of 1, the write queue in use or not, CTS, line errors; FIFO of 2; 350 000 states |

The bounds are chosen so that what is hard happens. Reads of 3 exceed the buffer of 2,
so a read is filled from the buffer, then by the ISR, and the
buffer wraps, fills and overruns; a buffer that grows to 3 moves a wrapped one. Two
reads give a current one and one in the queue, and the race of an old one's parties
with the new one's; a third would wait behind the second. A read with two resizes
behind it gives the resize that finds the buffer large enough. Three waits: one on its way
out, one given to the ISR, one refused or next. A FIFO of 2 with trigger 1 is the
smallest that interrupts before it is empty and can be overrun. In `PortLife` what
matters is the order of the steps of the close, the ISR, the DPC and the timer, not how much
is queued: one character in the FIFO and one in the shift register already make every
wait of the close longer than an ISR, and a second session meets what the first left.
The rates of `BaudRate` are chosen
for the branches of the arithmetic: negative, wrapping, exact, with a small and a large
remainder, in the tables, truncated; `LongRange` is 2^30 there, for TLC's own integers
have 32 bits and the products must not leave them (the proofs hold for 2^32). In
`Settings` two programs at once are what it takes for a lost update; the
settings not asked for go through the same operators, and a resume sets up all of them. Every pass is over the
complete state space of its instance.

`CHECK_DEADLOCK FALSE` in the write runs, for when every request is completed there is
nothing left to do, and in the runs of `Settings`, whose events are bounded.

**Fairness.** `ReadPath`, `WritePath`: a handler goes on, a set timer runs
out (weak); waiting callbacks get the lock in turn (strong: the lock is taken and given
again while they wait). Nothing is owed by clients, nor by the UART: no character has
to arrive or to be sent. `Transmitter`: the UART drains, the ISR reaches its end though
other interrupts come in between, the DPC and the timer run. Those are promises of the
hardware and of the system's dispatcher. `WaitMask`: the DPC and cancel callbacks run.

**Runs that show a violation.** Each checks one claim of a comment or an assertion that
the code does not keep; PROJECT.json, "findings", quotes both.

| Run | Claim | What happens |
|---|---|---|
| `WritePath_xoff_timeout` | a counter whose timer runs out is completed | the timer's reference is never cleared (`NULL` for the timer), and nobody is left |
| `Settings_resume` | the state of the UART is restored on D0 entry | `FastcomInitTriggers`, which comes after the restoration, leaves `LCR` of an FSCC port at 0xBF: the line control is gone until it is set again or the port is opened anew |

These defects are in the models of the passing runs, too, which therefore state what
holds in their presence: `TimedEnds` speaks of timers other than the counter's,
`RefsMatchOwners` of `WritePath` allows a timed counter the reference,
`WakeupNotLost` excludes a pending Xon or Xoff character, and `SettingsInForce` speaks of
the line control since it was last set. So do three properties about what section 6 lists:
`RateIsAsSet` speaks of rates the card supports, `ReportCoversRest` of writes, not of counters,
and for `RtsPathLowers` (`Quiet`) a write queue that is not idle is something to send, as it is for
the code, whether or not anything will be sent.

**Mutants.** Each property of a passing run has a mutant of the code that breaks it in
that run. They stand in the modules before the definition they change, with a comment
that starts "Mutant".

## 4. What is proved

`WaitMask_proofs` proves, for any set of requests, events and masks:

- `SpecTypeOK`: type correctness;
- `SpecRefsMatchOwners`: a wait stays current as long as the ISR, its DPC or a cancel
  callback may come back for it, and no longer;
- `SpecNoMissedEvent`: no wait sleeps while an event it asked for is in the history;
- `SpecToldOnce`: no step writes into the buffer of a wait the ISR has let go of.

The assumptions are those the module states: `NoReq` is no request and the masks are
sets of events. The invariant is `IInv`: `TypeOK`, `RefsMatchOwners`, `NoMissedEvent`
and `PendingIsCurrent` (a pending wait is the current one). The last is needed because
`RefsMatchOwners` alone would allow a second pending wait that nobody refers to, whose
cancellation would disturb the mark of the first. `ToldOnce` follows from `IInv`: only
a new wait and the ISR write into a buffer, the ISR through `IrpMaskLocation`, which
names the current wait. Each action has a step of its own, each conjunct it
can disturb a step below that.

`Transmitter_proofs` proves, for any settings, buffer size and limits, FIFO depth,
trigger level and lengths of writes:

- `SpecTypeOK`: type correctness; with it, the count of paths that lower RTS never
  drops below zero;
- `SpecNoOverrun`: the ISR never writes more than the FIFO takes;
- `SpecLowerRTSCount`: `CountOfTryingToLowerRTS` is the number of paths under way;
- `SpecWakeupNotLost`: what nothing holds is about to be sent;
- `SpecPeerAgrees`: the peer is not left stopped by an Xoff the driver forgot, nor sending
  while the driver takes it for stopped;
- `SpecHandshakeLine`, `SpecRtsUpWhileSending`: RTS agrees with its reason under the
  handshake, and is up while the hardware holds a character under toggling.

The assumptions are `HandFlowAssumption`, `SizeAssumption` (the trigger level is below
the depth) and that of the UART above. The invariant is `TypeOK`, `NoOverrun`,
`LowerRTSCount` and `ThrAtTrigger`: a pending transmit interrupt means that the FIFO
has drained to its trigger level. Without it a single Xon, Xoff or immediate character,
which the ISR writes without a look at the FIFO, could overrun it. `TypeOK` and
`LowerRTSCount` need each other: the count is decremented by a path that is under way.
As the routines are operators on the device record, each has a lemma that it keeps the
record good (`Keeps`), they compose by `KeepsIsTransitive`, and an action is a
routine applied to `dev`.

The last four theorems have a second invariant, `FlowInv`, inductive together with the first.
`Restarts` is its core: `HoldingEmpty`, by which every routine decides whether to poke, may be
stale in one direction only, for while it is FALSE an interrupt that sets it is due. `Told` says
that at most one of Xon and Xoff is pending and that, with none pending, the peer was told
what `RXHolding` says. `Lines` says where RTS is in the current mode; as a change of mode goes
through `SerialSetupNewHandFlow` and `SerialSetupNewRTS` step by step, it is stated
for a mode apart from the one recorded. `Awake` is `WakeupNotLost`, and holds outside
`SerialISR` only. A routine is shown to keep each part by itself (`KeepsFlow`, `KeepsAll`, relations
between the record before and after), since `PortLife` uses the routines at times when
one of the parts does not hold.

`BaudRate_proofs` proves, for any clocks, rates, sample rates and card types:

- `NeverRoundsUp`: the branch "Round up." of `SerialGetDivisorFromBaud` is dead: it compares
  twice the remainder with the clock where the denominator was meant, so a rate that is
  accepted is never slow;
- `AcceptedWithinOnePercent`: a rate from 9600 baud on that gets a divisor by arithmetic is at
  most one percent fast, in spite of the widths of the integers; the case of a denominator
  that wraps around has a lemma of its own (`WrapIsRefused`);
- `SpecRateIsAsSet`: the latch of an open port is that of the rate the driver has recorded, if
  the card supports it, unless clock or sample rate have changed since it was written;
- `SpecLineWithinOnePercent`: the two together, for the line of an open port;
- `CharTimeIsLongEnough`, `SpecCharTimeCovers`: `SerialGetCharTime`, which rounds the time of a
  bit up, covers a character of every format.

The assumptions are those of the modules: `RangeAssumption`, `InputAssumption` (rates are
not 0), `CardAssumption`, and `WidthAssumption`, the ranges of clocks and sample rates that
keep the code's products and divisors within their integers. The invariant is `TypeOK`, `OpenIsPowered` (an
open port has power) and `LatchAgrees`, which states of every powered port, open or not, what
`RateIsAsSet` states of the open ones: a D0 entry writes the latch before it says that the
port is open. What the latch is, is a function of the settings (`LatchOf`), and each action
either writes it or leaves alone what it depends on.

`PortLife_proofs` proves, for any settings and sizes and any number of cycles through D0:

- `LifeIsrHasBuffer`: the ISR takes a port for open only while its interrupt buffer is there,
  however closes and cycles through D0 interleave;
- `LifeClosedIsQuiet`: after a close no line is up, no interrupt comes, and no path that
  lowers RTS is left to move the line in the next session;
- `LifeCloseWaitsForSomebody`: what the close waits for before it lowers RTS is always a DPC,
  a timer or a callback that is under way;
- `LifeOpenPortWorks`: an open port in D0 has its lines up, and what nothing holds is about to
  be sent, also when CTS rose while the device was off;
- `LifePeerMayGoOn`: a peer that was told to stop has been told to go on when the close ends.

As for the properties, a close with the interrupt disconnected is excepted (section 6, and
`NeverClosedOff`). The assumptions are those of `Transmitter` and `LifeAssumption`. The
invariant `LifeIInv` is that of the transmitter, from whose lemmas it follows that every step
of the life cycle keeps it, and `StageInv`, what each step of the close has put down and
nothing may put up again: `ShutUnlessOpen` (neither `DeviceIsOpened` nor `Reopen`, whatever
the power does), `IsrEnded`, `Out2Down`, `BufferKept` and `PathsEnded`. The last is why
`SerialDrainTimersAndDpcs` may stop the timer and cancel the DPC without a look at the count:
they are not in their queues.

`LifeOpenPortWorks` rests on `OpenInv`: while the port is open, the parts of `FlowInv` that
wakeups depend on hold whenever there is power (`OpenSound`), and a port that is not open has nothing to
send (`IdleUnlessOpen`), without which the next session could start with work nobody was
woken for. With the device off CTS may change unseen; `StaleWoken` says that a hold it no longer
justifies does not outlast the next transmit interrupt. `LifePeerMayGoOn` rests on
`PeerInv`, which follows what the peer was told from stage to stage: as in `FlowInv` during the
session, either told Xon or held with its Xon to come while the close sends it, told Xon
after. Both leave out the sessions their properties leave out, through `port.history`.

`ReadPath_proofs` proves, for any reads, resizes, sizes, limits and timeouts:

- `SpecRefsMatchOwners`: the references of the current read are one for each party that will come
  back for it (ISR or its DPC, cancel routine, each of two timers), and no other request has any;
- `SpecCompletedIsFinal`: no step touches a request that was completed.

The invariant `PInv` adds to `RefsMatchOwners` that a request is in one place (`Owned`: in the queue
once, or current, and pending) and what the lock holder is in the middle of (`Phase`).
`SerialTryToCompleteCurrent` has one lemma, from what its callers have in common (`Calls`);
each caller is shown to meet it.

`ReadBuffer_proofs` proves, above `PInv` and for any sizes and any number of characters:

- `SpecReadPathTypeOK`: type correctness, that is, no index leaves its buffer and no count drops
  below zero, through wraps and resizes;
- `SpecPointersAgree`: the ISR writes right behind the readable characters, and in the buffer of
  a read within what was asked for;
- `SpecHoldFollowsFill`: the modem lines hold the sender when the buffer is filled to its
  limit, and let it go when it is drained;
- `SpecImplementsStream`: the read path implements `RxStream`, for any reads, resizes, sizes and
  number of characters. No character is lost, duplicated or reordered between the ISR and the
  readers, except what a cancelled read or a purge drops and what the error character replaces.

Its invariant `RInv` adds what a copy that was made and not yet accounted for has left true
while the ISR ran (`Copying`), that a read that was not started has no characters (`Fresh`), that lengths
fit (`Lengths`), and which marks `CountOnLastRead` may hold (`Marks`).

The refinement rests on `SInv` besides, which TLC checked first: a current read was given no
more than it asked for, and a resize nothing. The stream is what the
current read has in its own buffer, followed by what is readable in the ring (`Characters`), and both are
taken as sequences of cells, a run of them (`Cells`) or one that may wrap (`RingCells`). The
lemmas on them are those the code lives by. A character written behind the last one appends it
(`CellsAppend`, `RingAppend`); the error character written over the last one replaces it
(`RingReplace`); a copy out of the ring that goes right behind what the read had leaves the whole as it
was (`CopyJoins`, `CopyKeeps`), in one piece or two, and into the new buffer of a resize as well. Each
action then has a lemma that says which step of `RxStream` it is. Most leave the stream alone;
the ISR appends; a completion takes its result from the front (`EndReturns`, `HolderEnds`).
`SerialTryToCompleteCurrent` again has one lemma for all its callers (`TryToCompleteStream`).

`WritePath_proofs` proves, for any writes, counters, immediate characters, lengths and timeouts:

- `SpecRefsMatchOwners`: the same protocol for three slots, between which a counter moves. It holds
  of writes and immediate characters always, of counters until one is lost: `SerialGetNextWrite`
  may overwrite a `CurrentXoffRequest` whose last party has not come back (section 6). With two counters
  the plain statement is false; TLC gave the trace;
- `SpecCompletedIsFinal`: no step touches a completed request, even after a counter was lost.

The invariant `WInv` says who may have references at all (`Holders`), and for each slot apart that
its parties agree (`Slotwise`), so that a step on one slot leaves the others as they are
(`SlotKept`).

`WriteChars_proofs` proves, above `WInv`:

- `SpecWritePathTypeOK`: type correctness; `TotalCharsQueued` never drops below zero;
- `SpecCharsAccounted`: `TotalCharsQueued` is the sum of the requests that are to be sent, for queues
  of any length, on every way out;
- `SpecReportCoversRest`: what `GET_COMMSTATUS` reports is no less than what is still to be sent;
- `SpecImplementsStream`: the write path implements `TxStream`, for any number of writes of any
  lengths. Every step is a step of the line of writes or leaves it as it is.

Here a sum over the queue is needed: what it is after an append, and without one element. The sum is a
recursive function (`Total`), and the lemmas `NatInd`, `SumsExist`, `TotalIs`, `TotalOfAppend` and
`TotalWithout` go by induction over its length. They take the least element of the set
of lengths at which the claim fails, for sets, unlike the predicates of the library's induction
theorems, can be handed to a lemma here. The invariant `CInv` adds that the ISR never has more of
a write than its length (`Remainder`).

The refinement rests on `LInv` besides: a request that has not arrived has no length
(`Unsent`), a write is never the current xoff counter or the current immediate character
(`Kinds`), and a write whose completion DPC the ISR has queued reports its whole length (`Whole`).
TLC checked it on two instances before it was proved. The line is the current write and
the writes in the queue, so a step of the driver maps to a step of `TxStream` by lemmas about `Only`: of an append, of a concatenation, and of a queue from which
elements were taken (`OnlyOfAppend`, `OnlyOfConcat`, `OnlyOfOnly`, `OnlySame`, `OnlyOfRemoved`), by induction over
sequences (`SeqInd`). Most steps leave the line alone. Those that complete a write either end it at the
front of the line with everything sent (`End`) or drop it (`Drop`), together with the writes a purge takes
out of the queue; which of the two, the lemmas below `TryToCompleteLine` decide for every handler that gives up a reference.

**Assumptions.** No theorem assumes more of the constants than the modules state: the
requests are disjoint and `NoReq` is none, sizes are numbers, limits are within the buffer.
TLC evaluates them in every run. The theorems are about the models, hence
about the code under the assumptions of section 2.

**Only model-checked:** liveness (out of the prover's reach with fairness and ENABLED); `SettingsInForce` and
`AnswersAreTrue` of `Settings`, whose steps interleave programs of register accesses, different ones for each card
type: an inductive invariant would say of every program, at every access, what is then in
each register.

## 5. What is not modelled

- *Request protocol:* `EvtIoStop` and `EvtIoResume`; failures of `WdfRequestForwardToIoQueue`,
  which need a queue that takes no requests.
- *Life cycle:* start and removal of the device (sequential calls of the framework and of
  the registry), idle power-down and wake, DTR, breaks, the restoration of IER; of a closed
  port the saved registers; the limit of the waits of a close.
- *Line configuration:* special characters, timeouts, statistics, FCR and MCR are single
  assignments or copies under the device lock; there is no order of steps to check, and
  their validation is a guard that a property would only repeat. `SerialReportMaxBaudRate`
  and the list of supported rates feed a query only.
- *Card features:* GPIO, and the constant writes that enable FIFO and enhanced mode;
  `FsccIsOpenedInSync` (it makes a create fail, `CreateFails` of `PortLife`); the accesses of
  flow control to MCR, which RS485 reads and writes without the interrupt's lock; the failure of an allocation
  in `FastcomSetClockBitsFSCC`, which leaves the clock as it was.
- *Clock generator:* the search for the bits uses floating point, and the bits are written one by
  one: outside what TLC evaluates. Its effect on the shared register and on the rate is modelled.
- *Registry, naming, WMI, trace, user libraries:* I/O without state of their own.
- *Write path:* what the parties of an overwritten xoff counter do when they come back.
- *In the other modelled parts:* EV_RX80FULL, EV_RXFLAG and the insertion of line status and
  modem status escapes (`EscapeChar`), null stripping and DSR sensitivity; statistics.

## 6. Other things met while modelling

Read in the code, not the subject of a run. Requests and the transmitter:

- A resize that is cancelled in the read queue loses the buffer allocated for it: the branch
  of `SerialEvtCanceledOnQueue` that frees it (utils.c:814-816) looks at an `IoctlCode` that
  `SerialStartOrQueue` records for two other ioctls only (utils.c:722).
- `SerialGetNextWrite` may overwrite a `CurrentXoffRequest` that waits for its cancel callback,
  against the assertion at write.c:378-383: two counters are enough, the second sent whole while
  the first, cancelled, waits for its callback. `Lost` names such requests: they are not
  completed, and their cancel routine works on whatever counter is current by then.
- `SerialStartOrQueue` takes a queue for occupied while the driver owns a request that came out
  of it (utils.c:1874): a write that arrives while such a counter counts is queued, and nothing
  starts it before the counter ends.
- `SerialGiveImmediateToIsr` does not poke the transmitter while a write is going on
  (immediat.c:373); if that write is held by an Xoff, the immediate character waits with it, though
  isr.c:671-674 says it is sent.
- An Xon or Xoff character that is pending while CTS or a break holds is not poked
  when the hold ends by `SerialSetupNewHandFlow` turning auto transmit off: no
  interrupt is caused, and a write behind it waits for the next event.
  `WakeupNotLost` therefore excludes a pending flow control character.
- `SerialStartWrite` raises RTS for toggling; a write that is timed out or cancelled
  before anything was sent leaves it up when no character is sent after it
  (write.c:604-623; the comment at write.c:577-580 expects a transmit that ends).
- The condition of `SerialPerhapsLowerRTS` reads `A || B || C && !TXHolding`: the hold
  concerns the write queue only, its comment all three.
- The write queue is not idle while a counter that came out of it counts, or while a flush has
  stopped it with writes in it. A path that lowers RTS then finds something pending, though no
  write is current: it ends with RTS up (modmflow.c:1517-1524), and none is started when the
  queue becomes idle. `SerialProcessEmptyTransmit` starts none either.
- `SerialFlush` stops `WriteQueue` and waits for it; a counter that came out of
  that queue keeps it busy for as long as it counts.
- `GET_COMMSTATUS` counts one character for a counter that is still a write, and none after.
  While the ISR has it, ioctl.c:485 subtracts the `Length` of its `REQUEST_CONTEXT`, which is set for
  writes only: it may be that of an earlier write, and the unsigned difference wraps.
- A new wait resets `EmptiedTransmit` (waitmask.c:381): a write that has been sent and
  is not completed yet reports EV_TXEMPTY only after the next one.
- A wait that the ISR satisfied and that is cancelled before its DPC runs is completed
  as cancelled, and its events are gone.
- A read that was filled completely while its timer's callback waits is completed with
  STATUS_TIMEOUT.
- A cancelled read drops the characters that were copied into it.
- If `WdfRequestForwardToIoQueue` fails, `TotalCharsQueued` is not counted down.
- `FastcomGetTxFifoSpace` gives 4 for a card it does not know.

The life cycle:

- A close with the interrupt disconnected leaves `DeviceIsOpened` or `Reopen` as they are:
  the next D0 entry takes the port for open though its buffer is freed.
- The same close cancels DPC and timer of the path that lowers RTS, but leaves
  `CountOfTryingToLowerRTS`: the next close may wait for ever. The properties of `PortLife`
  except sessions after such a close (`NeverClosedOff`).
- D0 exit turns the FIFO off before it drains it (power.c:262): characters in it are lost, an
  Xon among them. The histories of `PortLife` name it.
- Turning automatic receive flow control off while an Xon is pending, and closing then, leaves
  the peer stopped.
- A create that reaches `SerialMarkOpen` after the device has left D0 gives an open port
  without OUT2, until the next cycle.
- A path that lowers RTS may end without power; the D0 entry then raises RTS as saved.
- A create that fails after the allocation keeps the buffer (the next one overwrites the pointer), and,
  when it was refused for synchronous use, the reference of `WdfDeviceStopIdle`.

The line rate:

- The settings last through a close, but a D0 entry computes the divisor with the clock the
  client programmed and then programs the default one: the rate is off until it is set
  again. `RateIsAsSet` excepts it through `disturbed`.
- A fixed rate takes effect at the next `SET_BAUD_RATE` only.
- On PCIe `SerialGetDivisorFromBaud` returns before it looks at the rate: a rate
  `PCIeSetBaudRate` refuses is recorded all the same and answered by `GET_BAUD_RATE`, the latch
  then holds an uninitialized divisor (`RateIsAsSet` excepts such a rate), and a rate of 0 divides by zero (the instances ask for no rate of 0).
- A divisor above 65535 is truncated to 16 bits (17 baud with the clock of 18432000 Hz).
- `SerialReset` and the D0 entry ignore that a rate is not supported any more, and write
  0xFFFF into the latch; the line does not run at the recorded rate then, which `RateIsAsSet`
  excepts, too.

The card features (`doubtful` marks the settings concerned):

- The ports of a card read, change and write back shared registers under a lock per port:
  FCR on FSCC, MPIOLVL, MPIOLVLH and the sample rate registers on the others. An update may be lost, most
  likely when two ports come back to D0 at once.
- The ISR uses LCR, SPR and ICR for the room in the FIFO while a handler of the port may be
  using them: LCR may be left 0, and ICR read or written at the wrong index.
- On PCI one flag of echo cancellation and one clock serve all ports; the record of the others goes
  stale. While the clock is set, all flags of MPIOLVL are down.
- After a loss of power neither external transmit nor the async flag of FCR is set again.
- A D0 entry sets the default clock whatever the client had set.

Other ioctls: `SET_MODEM_CONTROL` writes the value of a pointer (ioctl.c:349); a failed allocation in
`SET_QUEUE_SIZE` is reported as success (ioctl.c:1325); `RESET_DEVICE` does nothing
(ioctl.c:1191).

## 7. Plan

1. *Done:* `Requests`, `ReadPath`, `WritePath`, `WaitMask`, `Transmitter`, `PortLife`, `Divisor`,
   `BaudRate`, `Settings`, their runs; the proofs of section 4: every safety invariant that a run
   checks, but for those of `Settings`, and both refinements, of `TxStream` and of `RxStream`.
2. Proofs: `Settings`, beginning with one port.
3. `EvtIoStop` and `EvtIoResume` in the request protocol, with the cycle through D0.
