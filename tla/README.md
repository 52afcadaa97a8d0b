# avr-cec in TLA+

A verification development for `avr-cec`, a library that speaks HDMI-CEC on an
AVR with a single line, a few timers and no interrupts. TLC checks the models on
small instances; TLAPS proves the theorems for every instance. Line numbers refer
to the repository's files.

## 1. The system

### How it runs

One thread. The application calls `cec_init()` once, `cec_periodic()` all the time,
and `cec_halt()` when it wants to sleep. `cec_periodic()` (`cec.c:65-70`) runs

    cec_receive_periodic();  cec_transmit_periodic();  cec_addr_periodic();

The library has two engines that know bits and messages (`cec_receive.c`,
`cec_transmit.c`), a driver that knows the line (the USI one, `cec_usi.c`, does both
halves; or `cec_receive_min.c` with `cec_transmit_pwm.c`), and one of four modules
that say which logical address is ours. What runs concurrently is not code: it is the
*line*, which every other device of the bus pulls low as it likes, and the *USI shift
register* or *timer 1*, which drive the line while the code prepares what follows. The USI driver
looks at a sample late and prepares a bit early, so the transmit engine is always two
frames ahead of the line and the receive engine one behind. The application shares two buffers
with the library and hands them over through one state byte each.

### Components

| component | state | operations | what makes it correct |
|---|---|---|---|
| Receive engine, `cec_receive.c` | `cec_receive_buf` (header, data), `receive_byte` with a marker bit, `receive_pos`, `receive_flags` | `cec_receive_start`, `_bit`, `_error`, `_halt` | nothing dropped is acked; nothing is stored past the buffer or over an unread message; the header says what was received |
| Transmit engine, `cec_transmit.c` | `transmit_state`, buffer, its end, position and bit mask, last two bits sent, retries, statistics, idle wait | application: load and set `TRANSMIT_PEND`; driver: `_start`, `_get_bit`, `_receive_ack`, `_on_error`, `_finish_abort`, `_halt` | the bits are those of the message, also in a retransmission; a bounded number of them; it always becomes free, for the stated reason |
| Address assignment, `cec_addr_*.c` | `logical_address(es)`, `dev_idx` | `_init`, `_periodic`, `_match`, `_build`, `_ready` | never claims an address that answered; invisible to the application while it lasts |
| USI driver, `cec_usi.c` | `usi_xmit_state`, `usi_recv_state`, `recv_frame_tick`, `idle_frames`, `recv_driven`, `usi_nacking`, USIDR, USIBR, counter | `cec_receive_periodic`, `cec_process_tick`, `cec_usi_next_bit`, ack, nack, abort, halt | in step with both engines; lets the line go; samples where the standard says |
| Minimal receive driver, `cec_receive_min.c` | `receive_frame_timer`, `_period`, `_ack_done`, `last_state`, `sample` | `cec_receive_periodic`, ack, nack, halt | as above, by comparing one saturating 16-bit timer |
| PWM transmit driver, `cec_transmit_pwm.c` | `xmit_state`, `transmit_high_timer`, the registers of timer 1 | `cec_transmit_periodic`, `xmit_pwm_periodic`, `xmit_start`, abort, halt | the frames on the line are those of the message; in step with engine and timer |
| Watchdog, `cec_watchdog.S` | `OCR1B`, `TIFR`, `cec_watchdog_last_output` | `cec_watchdog_init`, `_periodic` | reports a line that somebody else holds low, and no other |
| Arithmetic macros, `time.h`, `div.h`, `bitops.h` | none | rounding, `LOG2`, fixed-point division | exact for the values used |
| Constants, `cec_msg.h`, `cec_keys.h` | none | none | - |

### Interactions

- driver -> engine: `cec_receive_start/bit/error`, `cec_transmit_start/get_bit`.
- receive engine -> transmit engine: `cec_transmit_on_error`, `cec_check_tx_bit` and
  `cec_transmit_receive_ack`: whatever is received while we transmit is our own frame.
- engine -> driver: `cec_transmit_abort`, `cec_receive_nack_frame`, both changing
  driver state in the middle of the driver's loop.
- address search -> both: pings through the transmit buffer and clears the receive
  header, with neither engine knowing.
- application: `transmit_state`, `transmit_buf`, and the header byte of
  `cec_receive_buf`, shared without any lock.

### What is hard

Two state machines per direction (engine and driver) that have to leave a message
together from any of their states; an abort from the receive side in the middle of
the transmit side; retransmission; a receive buffer that is handed over while the
next message is arriving; the inverted ack of broadcasts; counters of 8 bits; halting
and restarting in the middle of things; a search that takes "failed" for "free".
`PROJECT.json` lists each of these hazards at its line with the properties that
would catch it going wrong, or says why there is none.

## 2. The modules

| module | models | notes |
|---|---|---|
| `CecSpec` | `cec_spec.h`, `cec.h` | addresses, errors, sizes and waits as constants with their assumptions |
| `CecTransmit` | `cec_transmit.c`, and the transmit state of `cec_usi.c` that an abort changes | one operator per function; `StatusOf` and `TriesOf` are what its state means to the application |
| `CecAddr` | `cec_addr_dev_type.c`, `_bitfield.c`, `_fixed.c`, `_none.c` | `ADDR_MODULE` selects the one that is built in |
| `CecReceive` | `cec_receive.c` | one operator per function |
| `CecEngine` | `cec.c`, `cec_usi.c`, the application | the composition: one action per event of the driver, per call of the application |
| `TransmitService` | `README.md`, "Transmit interface" | abstract specification, implemented by `CecEngine` and by `CecPwm` (`ImplementsService`) |
| `CecUsi` | `cec_usi.c`, the USI, the other devices | the driver below `CecEngine`, tick by tick: each of its actions takes an action of `CecEngine` |
| `CecTime` | `cec_spec.h`, `time.h`, `div.h`, `bitops.h` | times in microseconds and what both timers make of them at a clock rate |
| `CecPwm` | `cec.c`, `cec_receive_min.c`, `cec_transmit_pwm.c`, timer 1, the application | the other build, in time: one action per step of a call, and one for a tick |
| `CecWatchdog` | `cec_watchdog.S`, timer 1, the line | stands alone: nothing in the repository calls it |
| `MCTransmit`, `MCReceive`, `MCPwm`, `MCUsi` | - | instances for TLC |
| `CecTransmitProofs` | - | lemmas about `cec_transmit_get_bit()`, for both drivers |
| `CecEngineProofs`, `CecEngineTxProofs`, `CecEngineRxProofs`, `CecEngineSendProofs`, `CecAddrProofs` | - | theorems about `CecEngine`: types, transmit side, receive side, the bits sent, the address search |
| `CecUsiProofs`, `CecPwmProofs` | - | theorems about the two drivers |

### From the code to the actions

A name in the modules is the name in the code wherever there is one. A byte is a
sequence of `2 * ADDR_BITS` Booleans, most significant first, so that "the source and the
target of an address byte" is two halves of a sequence; the real library has
`ADDR_BITS = 4`. `cec_receive_flags` is the set of the flags that are on, and
`cec_receive_hdr` is the header byte as a record, `EmptyHeader` standing for 0. The register that
collects a byte is the sequence of bits behind its marker bit.

`cec_receive_periodic()` loops over the eight samples of a USI byte. A call of
`cec_periodic()` is a sequence of steps, kept in order by `phase`:

1. `PollBetweenBytes` or `ByteReceived(high)`: the arbitration check before the loop
   (`cec_usi.c:389-394`), then the end of a nack and the idle count.
2. any number of events that `cec_process_tick()` finds in the samples: `SampleBit`,
   `NoTransition`, `EarlyFallingEdge`, `StartLow`, `StartFrame`. An event is followed by
   everything the engines do in answer to it (abort, nack, header, ack) in the same
   step, because the code does it in the same call.
3. `cec_usi_next_bit`.
4. `AddrPeriodic`, the last call of `cec_periodic()`.

The application (`AppSend`, `AppClearHeader`, `AppSetAddresses`, `cec_halt`, `cec_init`) acts
between two calls only. It behaves as README.md of the library asks: it loads a message
only when `transmit_state` is `TRANSMIT_IDLE` or `TRANSMIT_FAILED`, clears a header
only after it was set, and does not call `cec_periodic()` between `cec_halt()` and
`cec_init()`.

**Time is abstracted.** The tick counters that decide which event a sample is are
left out of `CecEngine`: any event may follow any other. Every behaviour of the code
is a behaviour of the model, the ones a glitch or a late `cec_periodic()` produces
included, so safety properties carry over: that `CecUsi` implements `CecEngine` is a theorem.
What only `CecUsi` can say is *when* an event is seen.

Four *history variables* record what no variable of the code keeps: `sent`, the bits
handed to the driver in this transmission; `wire` and `count`, what was on the bus
since the last start frame; `acked`, the addresses that answered a ping.
No action's guard reads them, but for `count`, which bounds the length of a message
(`MaxWireBytes`).

`HaltPolicy` says when the application may call `cec_halt()`: "never"; "quiet", only
while neither half of the driver is inside a message; "anytime".

### The USI driver, `CecUsi`

The module extends `CecEngine` and puts the driver's registers under it. A tick is an eighth of a
USI byte, 300 us: the driver knows no shorter time. `USIDR` and `USIBR` are sequences of eight bits, a
set bit being a low line, as in the code, where USIDR is shifted out through the pin's direction.

*Hardware.* `Tick` is a compare match of timer 0. `Shift` takes the line into USIDR and counts;
when the 4-bit counter overflows, the two registers change places (`Overflow`): what was sampled
can be read for eight ticks, and the byte that was written is on its way out. The code then has
to be called before the next byte is needed.

*A call* is, in the order of the code: `PollOnly` or `PollByte`, the top of `cec_receive_periodic()` with the
check for a line that somebody else holds low; for each of the eight samples `Sample` (the sample
window, which the code enters before it looks at the edge of the same sample) and `Edge` (`SameLevel`,
`FallingEdge`, `RisingEdge`); `WriteByte`; `CheckAck` and `cec_receive_do_ack`;
`UsiAddrPeriodic`. Each of them takes the action of `CecEngine` that the code
takes there, with the condition under which the code takes it. `cec_transmit_abort` masks USIDR in whatever
step an error comes up.

*Late calls.* `MaxLatency` is the number of ticks between the beginnings of two calls, `CallTicks` the
number that may fall into one, between the loop and the injection of an ack. `CallTicks` of 0 is a
call that takes no time.

*The other devices* send messages bit by bit (`others`), each bit a pulse taken from `ZeroPulses` or
`OnePulses`, and sample the line in their own ack bits. They send on after an ack that says that they
were heard, may give a message up at the bits in `GiveUp`, wait for `Gap` silent ticks before
they begin, hold the ack bit of our messages as `AckPulses` say, and make `Glitches` at any
time.

*History variables* are `said`, the last message that another device sent to its end, `aired`, the bytes that
our driver has put on the line since `cec_transmit_start()`, and `out`, the ticks for which the last of them has been there. No
guard reads them. `aired` counts up to `AiredMax`, past the frames of the longest message; `out` up to 8.

**Fairness** (`UsiFairness`) is that of `CecPwm`: weak fairness of `usi_periodic`, because the
application's main loop calls it again and again, strong fairness of `Tick`, because time goes on,
though it may miss any particular gap between two steps.

### Times, `CecTime`

Clock rates are in units of 10 kHz and times in microseconds, so that `US_TO_JIFFIES_RND` and its
like are integer arithmetic. The macros of the standard's times, rounding, `LOG2` and the prescalers of both
timers are translated, and from them the length of a tick (`UsiTick`) and of a PWM pulse (`PwmTime`)
that the registers really give: OCR0A is the top of a counter that begins at 0, and it has 8 bits. `CecUsi` takes
`MIN_TICKS`, `MAX_TICKS` and the times from here, `CecPwm` only `FramesInSpec`: its own ticks are coarser and are
constants.

### The watchdog, `CecWatchdog`

Counts of timer 1 one by one, its two compare flags, our output and the others' independently of
each other, and a call of `cec_watchdog_periodic` as one step: it runs with interrupts disabled, in less than a count.
`r13`, by which the code clears the flags and which nothing sets, is any set of flags.

### The timed build, `CecPwm`

The other pair of drivers is short and all about time, so `CecPwm` keeps it: `Tick`
advances the timer 1 hardware, the pulses of the other devices and `elapsed`, the delta that
the next call of `cec_periodic()` gets, up to `MaxLatency` ticks. A call is the
sequence `ReceiveSample`, `ReceiveFloat`, `ReceiveEdge` (`cec_receive_periodic()` of
`cec_receive_min.c`, in that order), `xmit_pwm_periodic`, `cec_transmit_periodic`, `AddrPeriodic`. Ticks
may fall between the two halves of a call too: the line is read in each, and timer 1 may
overflow in between.

Timer 1 is modelled as its datasheet has it: in PWM mode it counts to OCR1C, the pin is set
at 0 and cleared after the match with OCR1B, and a value written to OCR1B takes effect at the
next overflow (`OCR1B_next`). This is the frame the driver is ahead by. `aired` is a history
variable, the number of frames begun since `xmit_start()`.

The other devices are sets of pulses, a number of ticks low followed by a number of ticks
high: `OthersPulses` at any time, `AckPulses` only where our own ack bit begins. The engines are the
modules of the USI build under other names (`needed_idle_time` for `needed_idle_frames`, `xmit_state` for
`usi_xmit_state`); their idle waits are ticks here.

**Fairness**: weak fairness of `cec_periodic`, because the main
loop of the application calls it again and again, and strong fairness of `Tick`,
because time goes on, though it may miss any particular gap between two steps.

## 3. The runs

| run | instance | shows |
|---|---|---|
| `transmit` | a search through two candidate addresses of 2 bits, then a two-byte broadcast, 2 transmissions each, an application that never waits for its address, quiet halts; 2,925,063 states | `TypeOK`, `TxLockstep`, `StatsMatchRetries`, `SendsTheMessage`, `ImplementsService`, `ClaimsUnansweredAddress`, `SearchHidden` |
| `receive` | bitfield addresses `{}` and `{0}` changed at any time, directed and broadcast messages of up to 6 bytes into a buffer of 2, quiet halts; 807,368 states | `TypeOK`, `NoAckOfDroppedData`, `StoresInBounds`, `BufferOwnedByApp`, `DeliversWhatWasSent` |
| `pwm` | one ping, 2 transmissions, others ack for long enough, too briefly or not at all, a call at least every 2 ticks, quiet halts; 201,642 states | `OnlyNacksFail`, `NoFlagLeft`, `AirsTheMessage`, `FramesInSpec`, `ImplementsService` |
| `pwm_late` | one ping, 1 transmission, a call only every 2 ticks where the sample window is 1; 575,136 states | `PwmTypeOK`, `PwmInStep`, `SendEnds` |
| `min` | others send start frames, ones, glitches and pulses shorter than a zero in any order, a call every tick; 670,248 states | `LineReleased` |
| `min_receive` | others send start frames, ones and zeros in any order, an application that reads late, a call every tick; 4,570,364 states | `SamplesInMessage`, `EdgesSpaced`, `StoresInBounds`, `BufferOwnedByApp` |
| `usi` | a two-byte message, 2 transmissions, others ack for long enough, too briefly or not at all, up to 7 ticks between calls and 1 in a call, quiet halts; 185,276 states | `UsiTypeOK`, `OnlyNacksFail`, `StopsWhenAborted`, `AirsTheMessage`, `SendEnds`, `UsiTimingInSpec` |
| `usi_receive` | others send a two-byte message to us or to all, bits of 7 or 9 ticks, low for 2 or 3, 4 or 6, a call every tick; 336,252 states | `AckInItsBit`, `AckHeard`, `ReceivedAsSent`, `LineReleased` |
| `usi_both` | we send a two-byte message to one device while another sends a one-byte message to us, each at any time, up to 2 ticks between calls and 1 in a call; 4,684,603 states | `AcksOutsideOurs`, `AckInItsBit`, `AirsOwnFrames` |
| `pwm_stale` | as `pwm`, a call every tick, others make glitches of one tick | violation of `StartBitFirst` |
| `usi_abort` | as `usi`, a call every tick, others make glitches of one tick | violation of `StopsWhenAborted` |
| `watchdog` | the watchdog at 16 MHz, up to 80 counts between calls | violation of `ReportsOthers` |

**Bounds.** None is a state constraint; they are the values of the constants.
*Addresses* of one bit give one address and the broadcast address, all the receive
engine tells apart; the search has two bits, for two candidates, the unregistered
address and one more. *Buffers* of two bytes (one in the coarser runs of `CecPwm`): first byte, last byte and, on receiving, the byte
past the end. *Two transmissions* per message: the first, and one
retransmission that is the last. *Header lengths* of `LEN_RANGE` = 3 values and messages of up
to 6 bytes: the length, its spill into the overrun bit, then into the nack bit.
*Counters* wrap at `UCHAR`, four times `LEN_RANGE` as in the code. *Idle waits* of one frame in the runs of `CecEngine`:
long enough that a message may have to wait; the three waits are equal, so that which one
applies after what is not checked there; the runs of the drivers, but for `pwm_late`, have three different ones. *`WireBytes`* limits the values of
completed bytes, not what a bit that differs from ours does: a lost
arbitration, a wrong EOM and a missing ack may happen at any bit.

*Ticks of `CecPwm`* are some 250 to 800 us long. The compare values and windows are those of `cec_spec.h` in
ticks, rounded so that their order is kept (`TimingAssumption`): sample window, shortest bit, start
frame, edge time-out. `pwm` uses the finer scale, `pwm_late` and the `min` runs coarser ones. Timers
saturate at 18, 8 and 10 ticks, after the longest wait; the low byte left over by a
saturating addition has 2 values, 1 in `pwm_late`.

*Pulses of the `min` runs.* Those of `min_receive` are a start frame, a one and a zero, each with the shortest high part its
period allows: from them come messages of every length, also beyond the wrap of `cec_receive_pos` at 8, in any sequence with parts of
others. The pulses of `min` are a start frame, a one, a glitch, and a low part that ends before it would be sampled as a zero: a
message of these does not get beyond its first byte, but acks and nacks both occur, and every branch that lets the line go. With zeros as well the instance has
30 million states, too many for liveness.

*Ticks of `CecUsi`* are the code's own, and so are all its limits. `TICK_MAX` is 18 instead of 255: the
largest limit is 16, beyond which the code does not tell counts apart. *Seven ticks* between two calls is
the longest latency for which a byte is surely replaced before its samples are shifted out again, which is what `AirsCorrect`
proves; `usi` has all of them up to 7, in any sequence. With 8, TLC still finds every bit in its place, with 9 the
samples go out and `AirsTheMessage` is violated. In `usi_both`, one tick in the call and two between calls let the counter run on between the
two readings of it (`cec_usi.c:386`, `:434`); the message of the other device has one byte there, because two make
the instance too large for a run. A bit of 7 or 9 ticks beside the eight of a USI byte makes bits
drift through every alignment, with none, one or two falling edges in a byte. A *gap* of 24 ticks between
messages is longer than any wait of the driver, so that each message is
met in a quiet state and those left behind by the last one are met with it. *One message given
up after its sixth bit* is what makes a reception lose sync; a nack is the answer when it was a broadcast.
*Seven clock rates*, 2 to 20 MHz, have all the prescalers
of timer 0 that the driver meets; those of timer 1 are covered from 1 to 20 MHz in steps of 10 kHz.

**Deadlock** is checked in every run. **Fairness** is used by `SendEnds` and `LineReleased` alone, as
given for `CecPwm` and `CecUsi` above; `CecEngine` and `CecWatchdog` have none, all of their properties are safety properties.

### What the properties say

*Of the USI driver.* `AirsTheMessage`: at every tick the line is driven as bit `out + 1` of
frame `aired` of the message wants it (`InOrder`). So the frames are there in order, bit by bit, with nothing of what was sampled between
them, and nothing follows the last one or an abort; and no frame gives way to the next before its eighth tick
(`LastsEightTicks`). `OnlyNacksFail`: a bit that was
sent is compared with its own sample two bytes later, whatever the latency; a shift by
one frame would show as a lost arbitration. `SendEnds`: the engine does not wait for an ack that no sample will
bring. `AckInItsBit`, `AckHeard`, `ReceivedAsSent`: the ack is poked into a register that is being shifted
out, at an offset computed from three counters; it must neither leave its bit, nor reach into another, nor be too short
for the sender's sample. `AirsOwnFrames` is the part of `AirsTheMessage` that must hold while we receive as well, and `AcksOutsideOurs` its
condition: `cec_receive_do_ack()` may write to the register that is loaded. `UsiTimingInSpec`: every byte of a message that is put on the line, and every limit the
driver sets for what it expects, against the standard in microseconds.

*Of the PWM driver.* `AirsTheMessage`: the frames that timer 1 puts on the line, whose duty cycles are
loaded one ahead, are those of the message. `NoFlagLeft`: no message leaves `TOV1` behind for the next. `FramesInSpec`: the low part of a frame is loaded a frame ahead, its period in the middle of it; at the
end of a frame the two must have been those of the same kind of frame, and within the standard.

*Of the minimal receive driver.* `SamplesInMessage`: no bit is handed to the engine outside a message, which would take it for an ack bit.
`EdgesSpaced`: a bit is sampled before the next one begins. `BufferOwnedByApp` and `StoresInBounds` are those of `CecEngine`, for the
receive engine under this driver.

The limits of these results, found by varying the bounds: `AckHeard` needs a call every tick that takes no
time; with one-tick pulses, or bits of six ticks, an ack may be missed even then, which README.md of
the library allows. With messages to us only, and calls that take no time, `AckInItsBit` holds up to a latency of 7. With a
tick in the call it holds up to a latency of 2, as `usi_both` shows; at 3, an overflow between `cec_usi.c:434` and `:288`
makes an ack one tick too long. A call more than 8 ticks after an overflow finds the samples
of the last byte on their way out: the driver echoes the line.

### Findings

- `pwm_stale`: `TOV1`, set when the receive side aborts a message, is still set when the next one
  starts (`cec_transmit_pwm.c:119`). A call of `cec_periodic()` before the first overflow then
  replaces the start frame by the first data bit.
- `usi_abort`: `cec_transmit_abort()` masks USIDR and leaves USIBR (`cec_usi.c:183`). Between two USI
  bytes, where `cec_usi.c:394` looks for a lost arbitration, USIBR holds the next frame, which goes out over the message of the
  device that won.
- `watchdog`: the register with the last line state is overwritten by the timer before it is tested
  (`cec_watchdog.S:81`), so nearly every call finds a rising edge and returns 0. Behind that, the flags
  are cleared by a register that nothing sets, and one is tested with the wrong sense. With the three corrected,
  `ReportsOthers` holds on a scaled instance.

Found by other values of the constants, and without a run:

- `usi_receive` with 3 ticks between calls violates `AckInItsBit`: whether it is too late for an ack is judged by samples that are
  already processed (`cec_usi.c:437`). The nack of a refused broadcast may go into the
  first bit of the next byte, which the others then read as a zero.
- `min_receive` with glitches of one tick among the pulses violates `BufferOwnedByApp`: a falling edge that comes before the sample of a bit ends the reception and leaves `sample` set
  (`cec_receive_min.c:87`). The sample is taken all the same, with `cec_receive_flags` 0: `cec_receive_bit()` takes it for an ack bit and fills
  in a header of length 0, over that of a message the application has not read if the reception was of one refused for it (README.md:28).
- `usi_both` with broadcasts of our own violates `AcksOutsideOurs`: the receive engine is passed our own messages. A broadcast of ours fills our own receive buffer; the next one, sent before the
  application has cleared the header, is refused (`cec_receive.c:160`), nacked by ourselves with nobody else on the bus, retransmitted, and fails with `CEC_ERR_NACK`,
  which README.md:100 explains as a nack by "an entity".

Plain from the code:

- `cec_halt()` of the USI driver resets neither `usi_xmit_state` (`cec_usi.c:454`) nor `usi_recv_state` (`:460`): after a
  restart the driver goes on with a message that was cut off. It leaves timer 0 running, so
  that USIDR is filled with the line again and drives it eight ticks later, where README.md:218 says that it "Stops the CEC framework".
- `cec_receive_pos` wraps (`cec_receive.c:183`): the byte after the 256th is taken for an address byte, and is acked.
- The search takes any failed ping for an unanswered one (`cec_addr_dev_type.c:111`), lost arbitrations included.
- The halt hooks of the second pair of drivers are empty (`cec_transmit_pwm.c:178`, `cec_receive_min.c:105`). Halted inside a
  message, timer 1 may go on driving the line; halted during an ack, or in a broadcast, which `cec_halt()` nacks, the line
  stays low. The runs of `CecPwm` halt only when it is quiet.
- A tick is one count longer than `TCNT0_TOP`, because OCR0A counts from 0 (`cec_usi.c:478`). At 1, 8 and 10 MHz it is
  longer than 307.14 us, and start frames of 4300 us, which the standard allows, have too few ticks. At 6.82 and
  6.94 MHz the driver's own frames are out of the standard's limits. `Clocks` holds none of these rates.
- The watchdog converts times with a prescaler of 64 (`cec_watchdog.S:39`); the one it programs is 64 from 11.71 MHz up only.
- `n * F_CPU` in `time.h:103` is a 32-bit product unless `F_CPU` is a 64-bit constant.

## 4. The proofs

Every theorem is for every value of the constants of its module that satisfies the module's assumptions.

Of `CecEngine!Spec`, under `SizeAssumption` and `WaitAssumption` (`CecSpec`), `AddrAssumption` (`CecAddr`) and
`EngineAssumption`:

| theorem | property | further assumptions |
|---|---|---|
| `TypeCorrect` | `TypeOK` | none |
| `LockstepCorrect` | `TxLockstep` | no halt inside a message |
| `ServiceCorrect` | `ImplementsService` | no halt inside a message |
| `StatsCorrect` | `StatsMatchRetries` | no halt inside a message |
| `SendCorrect` | `SendsTheMessage` | no halt inside a message |
| `AckCorrect` | `NoAckOfDroppedData` | no halt inside a message, messages shorter than `UCHAR` |
| `BoundsCorrect` | `StoresInBounds` | same |
| `BufferOwnership` | `BufferOwnedByApp` | same |
| `DeliveryCorrect` | `DeliversWhatWasSent` | same |
| `SearchHiddenCorrect` | `SearchHidden` | none |
| `ClaimCorrect` | `ClaimsUnansweredAddress` | no halt inside a message |

Of `CecUsi!UsiSpec`, under these and `UsiAssumption`:

| theorem | property | further assumptions |
|---|---|---|
| `UsiTypeCorrect` | `UsiTypeOK` | none |
| `UsiImplementsEngine` | the specification of `CecEngine` | none |
| `UsiKeepsPromises` | `TypeOK`, `TxLockstep`, `NoAckOfDroppedData`, `StoresInBounds`, `BufferOwnedByApp`, `DeliversWhatWasSent` of the driver | no halt inside a message, messages shorter than `UCHAR` |
| `UsiServesApplication` | `ImplementsService`, `StatsMatchRetries`, `SearchHidden`, `ClaimsUnansweredAddress` of the driver | no halt inside a message |
| `WritesTheMessage` | the byte written to USIBR is the frame of the bit that is due | no halt inside a message |
| `AirsOwnCorrect` | `AirsOwnFrames` | no halt inside a message, `MaxLatency < 16`, `AcksOutsideOurs` |
| `AirsCorrect` | `AirsTheMessage` | no halt inside a message, `MaxLatency < 8`, `QuietMeanwhile`, `GivesUpInByte`, `EndsInTurn` |
| `StopsCorrect` | `StopsWhenAborted` | no halt inside a message, `MaxLatency < 8`, `QuietMeanwhile`, `GivesUpInByte` |
| `OnlyNacksSuffices` | `AirsTheMessage`, `StopsWhenAborted` | no halt inside a message, `MaxLatency < 8`, `QuietMeanwhile`, `EndsInTurn`, `OnlyNacksFail` |
| `UsiTimingCorrect` | `UsiTimingInSpec`, and each byte of a message is on the line for eight ticks | no halt inside a message, `MaxLatency < 8`, `AcksOutsideOurs`, and at each clock rate a tick within 2 % of 300 us (`TickFits`) |

Of `CecPwm!Spec`, under `TimingAssumption` and `PwmAssumption`:

| theorem | property | further assumptions |
|---|---|---|
| `PwmTypeCorrect` | `PwmTypeOK` | none |
| `PwmStaysInStep` | `PwmInStep` | no halt inside a message |
| `PwmServiceCorrect` | `ImplementsService` | no halt inside a message |
| `PwmAirsCorrect` | `AirsTheMessage` | no halt inside a message, two calls a frame, `NoFlagLeft` |
| `PwmFramesCorrect` | `FramesInSpec` | same, and the times of `CecTime`, which TLC evaluates |
| `PwmStartCorrect` | `StartBitFirst` | as `PwmAirsCorrect` |
| `PwmFlagCorrect` | `NoFlagLeft` | no halt inside a message, `GivesUpInFrame` |
| `PwmSendsCorrect` | `AirsTheMessage`, `FramesInSpec`, `StartBitFirst` | as `PwmFramesCorrect`, with `GivesUpInFrame` for `NoFlagLeft` |
| `MinSampleCorrect` | `SamplesInMessage` | no halt inside a message, `EdgesSpaced` |
| `MinBufferCorrect` | `StoresInBounds`, `BufferOwnedByApp` | same |

The further assumptions are necessary: `cec_halt()` leaves the states of both drivers as they are,
`cec_receive_pos` wraps, and `TOV1` may be left over (see the findings). "Two calls a frame" is `CallsInTime`, `2 * MaxLatency` at
most a period: with fewer calls two overflows may look like one. `NoFlagLeft` is not a
consequence of the other assumptions, as `pwm_stale` shows; `PwmStartCorrect` says that the left-over flag is the only cause of that
finding, and `PwmFlagCorrect` that the only cause of such a flag is a message that is given up in the moment a frame begins.

Some of the hypotheses are not about the constants but about the behaviour, because they depend on what the other devices do. They are
stated as properties, each as close to its cause as the code allows, and each but `EndsInTurn` is known to be
false in some instance; what a theorem then says is that nothing else in the code breaks its conclusion.

| hypothesis | says | holds in | fails in |
|---|---|---|---|
| `AcksOutsideOurs` | no ack of ours falls into our own message | `usi_both`, where TLC checks it | an instance with broadcasts of ours, which we nack ourselves |
| `QuietMeanwhile` | nor between its first byte and the end of its last | `usi`, where nobody sends to us | `usi_both` |
| `GivesUpInByte` | a message is given up while a USI byte is processed, not between two | `usi`, by `OnlyNacksFail`, which TLC checks | `usi_abort`: this is that finding |
| `EndsInTurn` | a message that is not given up ends when its last frame is on the line, and not before | `usi`, `usi_receive`, `usi_both`: TLC finds it to hold, apart from the runs | not known: TLC finds no violation in the first 27 million states of `usi_abort` |
| `GivesUpInFrame` | a message is not given up in the moment a frame begins | `pwm`, by `NoFlagLeft`, which TLC checks | `pwm_stale`: the cause of that finding |
| `EdgesSpaced` | a bit is sampled before the next falling edge | `min_receive`, where TLC checks it | an instance with glitches (see the findings) |

**Typing** (`CecEngineProofs`) goes component by component: each operation of an engine preserves
the type of its own variables, then each action all of them.

**The transmit side** (`CecEngineTxProofs`). `TxLockstep` is not inductive by itself: `cec_init()`
sets `transmit_state` to idle without looking at the driver. `TxInv` adds `HaltedIsQuiet`,
that a halted library is already idle. The refinement maps `transmit_state`, `transmit_retries` and
`mode` to a status and a number of tries:

| `transmit_state` | status | tries |
|---|---|---|
| `TRANSMIT_IDLE`, `TRANSMIT_FAILED`, `TRANSMIT_PEND` | "idle", "failed", "pend" | 0 |
| `TRANSMIT_AGAIN` | "again" | `transmit_retries` |
| `TRANSMIT_BIT_EOM`, `TRANSMIT_ACK`, `TRANSMIT_WAIT_FOR_ACK` | "busy" | `transmit_retries + 1` |
| any, after `cec_halt()` | "off" | 0 |

The same mapping (`StatusOf`, `TriesOf`) serves both builds. A message ends "idle" only through an acknowledged transmission; giving it up is "failed", after
exactly `CEC_XMIT_MAX_RETRANSMIT` tries. `cec_halt()` is a state of its own in the abstract
specification so that it cannot be confused with success. The proof needs
`RetriesLeft`, that an unfinished message has a try left, or an
increment could step over the limit that the code compares with `==`; and
`TxLockstep`, or a bit could be fetched from an idle engine.

**Bits and counts** (`CecEngineSendProofs`, over `CecTransmitProofs`). `SendsTheMessage` compares each bit handed out with a bit of the
message by its number, so the invariant is the place in the message as a function of that number: `Place(n)` says that `n` is
`FRAME` times the position plus the data bits already shifted out (or all of them and the EOM bit), `InMessage` that the
place is inside the message. `GetBitPlace` moves it by one bit, for messages of any length and bytes of any width; the multiplication
and division it needs are the lemmas `Multiples` and `Division`. `StatsMatchRetries` equates the sum over the causes of failure with
the number of retries, for the message in progress: `OneMoreFailure` and `CauseBound` say what one more failure does to
the sum, and `RetriesLeft` that neither side wraps.

**The receive side** (`CecEngineRxProofs`). `RxInv` is the conjunction of

- `SamplesReceiving`: bits are sampled exactly while a reception is on;
- `PosCounts`: the position counts the bytes on the bus (this needs messages shorter than `UCHAR`);
- `FirstByteFresh`: no address decision is left over from an earlier message;
- `OverrunMarked`: past the buffer the flags say so;
- `NoAckOfDroppedData` itself;
- `BufferFree`: while bytes are being stored the header is clear;
- `WireStored`: the stored bytes are the ones that were on the bus.

Each conjunct has a lemma per function of the receive engine that can disturb it.

**The address search** (`CecAddrProofs`). `SearchHidden` is inductive with the types alone. A claim is right only if one knows what the
idle or failed interface has to say about the candidates. `PingUnderWay`: during a search an idle
interface means that the candidates tried so far have all answered; otherwise the last of them is the one being pinged, by the message in
the buffer, and the ones before it have answered. That nobody else uses the buffer meanwhile is `SearchHidden`. `HaltedBeforeSearch`
adds that nothing of an earlier search survives `cec_halt()`, and `TxInv` that a ping is idle again only after an ack.

**The USI driver** (`CecUsiProofs`). Every action of `UsiNext` is an action of `CecEngine`, or leaves its
variables alone: `Tick`, `CheckAck`, `cec_receive_do_ack`, and the samples that are no event. The refinement needs no
invariant, because each action of `CecUsi` takes the whole action of `CecEngine` and adds the driver's guard. From it every theorem
of the engine holds of the driver, whatever the line does and however late the calls are; `UsiKeepsPromises`
and `UsiServesApplication` say so for those that matter to the application, and `WritesTheMessage` carries `SendCorrect` down to the
register that goes out next. `UsiTypeCorrect` has a lemma per action; counts saturate at
`TICK_MAX` because `UsiAssumption` puts it above every limit.

That the byte in USIBR is what goes onto the line next is a matter of time. `Clocked` says that calls and overflows alternate: after an overflow
fewer counts have passed than ticks since the call before, so that with fewer than 16 ticks between two calls, `USIBR` is written between two overflows.
`InPlace` counts: the bytes of this transmission that are on the line, and the one that is still to go, are those that were
written. Over `BitsOut`, the place of the engine in the message (`CecEngineSendProofs`), these make `BytesInv`, which holds without any
hypothesis about the others. With it `FrameLoaded` is inductive, that as long as a message goes on `USIBR` holds its frame number `aired + 1`: so `AirsOwnCorrect`.
`NothingLoaded` says the same of the idle byte once the message is over; an abort between two bytes
breaks it, hence `GivesUpInByte`. Both need that no ack is poked into the register.

`AirsCorrect` follows these bytes bit by bit. `OutInStep`: the bits of a byte that have gone out are as many as the counter says, because with
fewer than 8 ticks between two calls USIDR is never shifted a ninth time. This is where an echo is excluded, and where `MaxLatency < 8` is
needed. `FrameLeaves`: what is left of the byte in USIDR, above the samples that come in from below, is what is left of frame `aired`. `NothingLeaves`: once the
message is over it is all released. The line is driven by the first of these bits, so the two are `InOrder`, one bit
ahead; `LineTick`, `LineWrite` and `LineNext` say what a tick, `WriteByte` and any other step do to them. The end of a message is the step in which
`FrameLeaves` stops and `NothingLeaves` starts: an abort masks what is left in USIDR, and when a message ends well nothing may be left of its
last frame, which is `EndsInTurn`. It depends on where the samples of the last bit are found, as `OnlyNacksFail` does.

`Masked` is for `StopsCorrect`: of a message that is given up no bit is left in USIDR that is still to be
sent, by the count of the bits already shifted in; it holds only with calls less than a byte apart, for in the second byte after an overflow
the samples go out. `OnlyNacksSuffices` replaces `GivesUpInByte`: a missing ack is found by a sample, and samples are
looked at in the loop.

`UsiTimingCorrect` has three parts. Every byte is on the line for eight ticks, by `OutInStep`. The frames are low for so and so many of them
(`PatternTicks`), and the limits are set by four steps, to one of three pairs (`LimitsSet`). And these numbers of ticks are times
of the standard at every clock rate whose tick is within 2 % of 300 us, by `TicksInSpec`: the
arithmetic is proved from the constants of `cec_spec.h`, not assumed. `CountsSuffice` says for which rates, up to 800 MHz, that is so: if `OCR0A` holds the
counts of a sample and a count is at most 4 us, rounding and the extra count together stay within the 2 %. Each rate of `Clocks` has such a tick.

**The PWM driver** (`CecPwmProofs`). `PwmInStep` needs `HaltedIsQuiet` as the USI build does. The aborts come from the receive side at
two places of a call, so the lemmas go by operation (`OnErrorInStep`, `ReceiveBitInStep`, ...) and say of the timer only that an abort, and
nothing else there, stops the clock (`ClockStops`).

What is on the line is a matter of three clocks: the engine hands out a bit, the driver loads it, timer 1 puts it on the line at the
next overflow. `FrameInv` says how they are coupled. `Due` is the number of the frame that is loaded: the number of
frames begun (`aired`), less one as long as `TOV1` tells of one the code has not seen. `Loaded` says, state by state of the
driver, that the loaded duty cycle is that of frame `Due` and that the engine's place is `Due` bits into the message; `Paired`
that the low part and the period in force belong together. Two things keep `Due` true. `OverflowSeen`: timer 1 has counted no further
since an overflow than time has passed since the call before last, so that under `CallsInTime` an overflow is seen before the
next. And `NoFlagLeft`, used once, in `StartFrames`: with a flag left over, `Due` would be -1 at the start of a message.
`NoFlagLeft` itself is inductive but for an abort: whatever else stops the clock, the last frame, `LoseTrack` or a halt, finds the flag
clear or clears it.

**The minimal receive driver** (`CecPwmProofs`). A sample is taken as soon as `receive_frame_timer` is past T3, in the first part of a call. `SampleFresh` says
that one that is still due afterwards is not past it, and that the period it belongs to is longer than that, so that neither a
time-out nor a rising edge ends the reception first. What is left is the falling edge, which `EdgesSpaced` excludes. Then
`SamplesInMessage` is inductive, and with it `BufferFree`, that a message which is being stored has the buffer for itself. `FirstBits` is the exception: until the address byte is
complete, it is not known whether the message is refused. Nothing here counts bytes, so that `MinBufferCorrect`, unlike
`BufferOwnership`, needs no bound on the length of a message.

### Checked by TLC only

- Liveness under fairness, which is out of the prover's reach: `SendEnds`, `LineReleased`.
- What depends on the other devices and on the instance's latency: `OnlyNacksFail` of both drivers, `AckInItsBit`, `AckHeard`, `ReceivedAsSent`, and the
  hypotheses `AcksOutsideOurs` and `EdgesSpaced`; `EndsInTurn` and `GivesUpInFrame` in their instances, apart from the runs. Each but `EndsInTurn` is false for some values of the constants; the limits of these
  results are given above.
- The times `PwmStartInSpec`, `Pwm0InSpec` and `Pwm1InSpec`, evaluated for every clock rate of their range, and that
  the tick of a particular rate is within 2 % of 300 us.
- The three violations.

Anything by induction over data is out of the prover's reach too; no theorem above needs it.

## 5. Not modelled

- `cec_transmit_raw.c`, which `cec.c:43` includes, is not in the repository.
- Times shorter than a tick in the USI driver: the count of timer 0 and the moments at which its code stops the
  timer (`cec_usi.c:264`) to write USIDR. What it does while the timer stands is one step of the model. Nor does a tick fall between the
  read of USISR at `cec_usi.c:386` and its read-modify-write at `:425`: the loop takes no time, ticks fall behind it (`CallTicks`).
- `cec_usi_frame_hook()` (`cec_usi.c:400`), which the application may define and which is empty otherwise.
- Some of the hazards in `PROJECT.json`, each with a note that says why: a halt inside a message of our own, glitches that hide one of
  our own start frames or come before the sample of the minimal receive driver, a search whose ping fails for another reason than the missing ack,
  clock rates with a longer tick.
- The long jiffies of `time.h` and `MUL_FIXED_B` of `div.h`: no code of the repository uses them.
- The `CEC_MONITOR` build, which prints bits, and the port configuration macros.
- `cec_msg.h` and `cec_keys.h` hold constants only.

## 6. What is left

The modules above are done, with their runs and theorems. What would come next:

1. `OnlyNacksFail` of `CecUsi`: the sample of a frame is taken two bytes after it was loaded, so that the invariant has to follow both ends of the
   queue, and the limits of each frame as well.
2. `NoAckOfDroppedData` and `StatsMatchRetries` for `CecPwm`: the engines are the same, the lemmas about them would be shared as those of
   `CecTransmitProofs` are.
3. Instances of `CecEngine` with three different idle waits, and with `cec_addr_none`.
