# Verification of Tunelith

TLA+ models of [Tunelith](../src), checked with TLC and, in part, proved with
TLAPS. Paths below are relative to `src/crates/`; `main.rs` is
`tunelith-cli/src/bin/tunelithd/main.rs`.

## The system

tunelithd opens every tuner of the machine and lends them to programs over a
socket. A client has one *control* connection, for requests and events, and one
*data* connection for each stream it was granted. A stream is named by a random
token.

| Component | State | Operations |
|---|---|---|
| tunelithd, lending (`main.rs`) | `busy`, `closing`, `sessions`, `tokens`, `unattached`; per session its tuner, subscribers and stop; per connection the streams it owns | acquire, release, signal, list, end of a connection, end of a stream |
| tunelithd, chunks (`main.rs`) | a bounded channel and a drop count per subscriber | `fan_out`, `flush_drops`, `data` |
| client library (`tunelith/src/lib.rs`) | `pending`, `drops`, `ends`, a stream's data connection | `call`, reader task, `acquire`, `poll_read`, drop |
| protocol, types (`tunelith-core/src/proto.rs`, `types.rs`) | none | encode, read, conversions, validate, normalise |
| px4 boards (`tunelith-driver-px4/src/board.rs`, `px4.rs`, `pxmlt.rs`, `single.rs`) | `opened`, open counts, power, LNB wants | open, tune, stream, signal, set_lnb, close |
| px4 stream hub (`stream.rs`) | senders by slot, `running`, a receiving task | attach, detach, abort, start, receive, demux |
| px4 bridge (`it930x.rs`) | sequence number, GPIO modes | ctrl, registers, I2C, purge |
| px4 chips (`tc90522.rs`, `rt710.rs`, `r850.rs`, `cxd*.rs`, `cnr.rs`) | register shadows | init, PLL, filters, lock, CNR |
| DVB, BDA (`tunelith-core/src/dvb`, `bda`) | file descriptors and a reader thread; a filter graph on a thread of its own | open, tune, stream, close |
| BonDriver (`tunelith-bondriver/src/lib.rs`) | `Control` and `Data` behind a mutex each, a runtime | OpenTuner, SetChannel, GetTsStream, ... |
| command, WebUSB (`tunelith-cli/src/main.rs`, `tunelith-wasm/src/lib.rs`) | the tuner and the stream they hold | list, tune, read, close |

They meet as follows. A program calls the client library (directly, or through
BonDriver_Tunelith or the `tunelith` command), which sends protocol messages to
tunelithd; tunelithd calls the drivers through the traits `Device` and `Tuner`;
a driver gives out a `ByteStream`, which `fan_out` copies to its subscribers.
`tunelith tune --direct` and the WebUSB tuner skip tunelithd and call a driver
themselves.

### What is hard about it

* **Tasks.** Every connection, every request on it and every session's fan-out
  is a task of its own; they share `State` behind a mutex that is never held
  over an `.await`, so that anything can happen while a tuner opens, tunes or
  closes. A session ends from four sides: its last client releases it, its
  clients' data connections end, its stream ends, its clients disconnect.
* **Failure.** Every call of a driver may fail, and each time the tuner has to
  get back into the pool, closed first.
* **Ordering.** Events travel on the control connection, data on another, and
  answers to requests in the order their tasks end.
* **Waiting.** A request may wait for a tuner to be closed, with a timeout.

### What makes it correct

* lending: a tuner has one holder; `busy` and `closing` are exact, so that no
  failure leaks a tuner; only a session that goes on can be joined; nobody is
  cut off untold; streams of a client that went go with it; every acquire is
  answered; a tuner nobody uses is free again.
* client and chunks: every byte of a stream is read, queued, or reported as
  lost; a read returns the end only if the stream ended and with its error; an
  acquire that was given up on leaves no stream behind.
* boards: an open tuner is powered, initialised and awake whatever failed
  before; the LNB is on exactly while wanted; a hub has one receiver at most
  and a tuner gets only what it received itself.
* BDA, DVB, BonDriver: a graph does not outlive the close that reports it gone;
  the locks of the BonDriver do not deadlock, and no read meets a runtime that
  was shut down.

## Modules

| Module | Models |
|---|---|
| `Tunelithd`, `MCTunelithd` | the lending of tuners by tunelithd |
| `TunerPool` | what tunelithd promises of the tuners; `Tunelithd` implements it |
| `ClientStream`, `MCClientStream` | the client library, and tunelithd's side of its streams |
| `LossyStream` | what the client library promises of a stream; `ClientStream` implements it |
| `Board`, `MCBoard` | a px4 device and its tuners; extends `StreamHub` |
| `StreamHub` | the TS of a px4 bridge, split among its tuners |
| `It930x`, `MCIt930x` | the bridge of a px4 device, command by command |
| `PxMlt`, `MCPxMlt` | the demodulators and tuner chips of a PX-MLT, on buses they share |
| `R850`, `MCR850` | the terrestrial tuner chip: its registers, calibrations and PLL |
| `BdaTuner`, `MCBdaTuner` | a tuner of the Windows driver: its calls, its mark, its LNB |
| `BdaCapture`, `MCBdaCapture` | what a graph of the Windows driver receives: reads, sink, streams |
| `Aligner` | what cuts frames into packets; checked in the run of `MCBdaCapture` |
| `BonDriver`, `MCBonDriver` | the threads of a host in BonDriver_Tunelith, its locks and its receiving task |
| `TunelithdProofs`, `ClientStreamProofs`, `BoardProofs`, `BdaTunerProofs`, `BdaCaptureProofs`, `It930xProofs`, `BonDriverProofs` | theorems about the module they are named for |
| `ChipProofs` | theorems about `PxMlt` and `R850` |

An `MC` module gives the constants their values for TLC; the `.cfg` of each run
is named after the module.

### Tunelithd

A request `r` of `Requests` is a task of `control()` (`main.rs:532`). It starts
at most one session and is given at most one token, both fresh, so `r` also
names those: `tokens[k] = s` reads "token of request `k` leads to the session
that request `s` started". A token is drawn at random until it is new
(`main.rs:132-137`), hence fresh.

| Model | Code |
|---|---|
| `pc`, `at`, `left`, `wait` | where the task of a request is in `acquire`, `reserve` and `start`; the tuner of the candidate it is on, the candidates left in this round and whether the round waits |
| `busy`, `closing`, `sessions`, `tokens` | the fields of `State` |
| `rx[k]` | the receiver of a token's chunks: `queued` is in `State::unattached`, `attached` is in `data()` |
| `subscribers`, `stop`, `fan`, `signal` | the session: its subscribers, the permit of `stop`, where `fan_out` and `end` are, and the `signal()` on its tuner |
| `owned`, `gone` | `owned` of `control()`; `gone` is where it is `None` |
| `rel[k]` | whether a `release(k)` is due, or was called. Later calls find no token and change nothing, so they are one |
| `ended` | the tokens a `StreamEndEvent` was sent for |

Each action is what one task does between two points where others may run: the
mutexes are never held over an `.await`, so a critical section is one action,
and what a driver does is between two. `Notify` is modelled by what it does:
`notify_one` leaves a permit (`stop`), `notify_waiters` moves everyone who waits
on to look again, and as `reserve` enables its `Notified` before it looks at
`closing`, looking and starting to wait are one step.

Abstractions. Which of several fitting sessions or candidates comes first is
left open (the code takes the first). `Params` are parameters that passed
validation and were normalised; a request that fails there touches nothing. A
client releases only its own streams, and only once. Of concurrent `signal()`
calls on one session one is modelled: they exclude one another on the tuner's
lock. Chunks carry no data, as what a slow client loses does not bear on who
holds a tuner.

| Run | Instance | Shows |
|---|---|---|
| `Tunelithd.cfg` | 2 tuners (one receives both parameters, the other one of them), 2 requests of 2 clients, each for any tuner, for one by name, or for what a single tuner receives; signals | `OneHolder`, `ServedAsAsked`, `PoolIsExact`, `JoinableIsLive`, `EndIsTold` |
| `TunelithdLive.cfg` | 1 tuner, 2 requests, fairness | `AcquireIsAnswered`, `StoppedIsFreed`, `GoneIsServedNothing`, and `PoolSpec`: `Tunelithd` implements `TunerPool` |

Two requests are enough for a tuner to be contended for, joined, and left while
joined; and what is shown of two is proved of any number (see Proofs).
Deadlock is not checked: the requests are finitely many, and when all are
answered and released the daemon waits for more. Symmetry over `Requests` is
used in the run without liveness; `Init` and `Next` treat requests alike.

Fairness. `RequestStep`, `Release`, `SessionStep`, `LockTuner` and `SignalRead`
are weakly fair: tokio runs every task that can run, the mutex of a tuner is
fair, and a driver's calls return (they bound their polls and time-outs).
Nothing is assumed of clients, of chunks, of the end of a stream, or of the
timeout of `reserve`: that acquires are answered without `Timeout` shows that no
wake-up is lost. `TunelithdLive.cfg` leaves failures of `getrandom` out
(`RandomFails = FALSE`): with one, a session may start with no client and then
waits for a chunk to notice (`main.rs:224`).

### ClientStream

One program's connection: the library, the daemon's side of the same streams and
the control and data connections between them. A stream `k` is one call of
`Client::acquire`, the token it is answered with and the `Stream` it returns.
Data is counted in chunks.

| Model | Code |
|---|---|
| `call[k]` | where `acquire` is, and the `Stream` after it; `answered` is a response that is in the oneshot and was not taken from it |
| `pending`, `drops`, `ends`, `lost` | the fields of `Inner`, and the counter `drops` leads to |
| `parked`, `result`, `got` | a `poll_read` that waits in `End::Pending`, what the read that found the end returned, and the chunks read |
| `reader`, `writer` | whether the two tasks of `Client::connect` run |
| `up`, `down` | requests on their way (a set: the daemon handles each in a task of its own), answers and events (a sequence: one channel and one socket) |
| `conn`, `pipe` | the data connection and the chunks in its socket |
| `sub`, `queue`, `missed`, `rx` | the `Subscriber` with its channel and `dropped`, and where its receiver is |
| `alive` | whether tunelithd runs |

`Deliver` is one message taken by the reader task, under the locks it takes.
`Chunk` and `SourceEnds` are `fan_out` and `end` as far as this client sees them;
that sessions are shared is left to `Tunelithd`. `Crash` is the end of the
process at any moment: of what was under way each connection keeps a prefix.

`LossyStream` is the promise: bytes in order, less those that are counted, and an
end only after all of them, unless tunelithd is lost before. In the refinement
`over` is `result`.

| Run | Instance | Shows |
|---|---|---|
| `ClientStream.cfg` | 1 stream of up to 4 chunks, a channel and a socket of one chunk each | `EndIsTrue`, `Accounted`, `CallIsAnswered`, `EndIsLearned`, `LetGoIsReleased`, and `StreamSpec`: `ClientStream` implements `LossyStream` |
| `ClientStreamGivenUp.cfg` | 1 stream | violation of `NoStreamForgotten`, see below |

Four chunks are the fewest with two separate reports of loss, so that a report
that replaced the count rather than adding to it shows. One stream is enough:
those of one client share nothing but the order of `down` and the two tasks, and
each message names its stream. Deadlock is not checked:
a program may be done.

Fairness: the two tasks of the library and what tokio runs for each stream.
`ProgramStep` is what goes on by itself once a future is polled: a program is
assumed to go on polling the `acquire` and the read it started. It may give up on
either (`GiveUp`, `DropStream`), and nothing makes it read, chunks come or a
stream end.

### StreamHub and Board

A device of the px4 driver, whose tuners are used by programs that know nothing
of one another. `Board` is `board.rs` over the three models that implement its
trait, `device.model` telling them apart: `px4` (boards of four chips, two of
them in a Q model, powered together), `pxmlt` and `single`. It calls `StreamHub`
under the lock of `state`; the task of a hub runs beside it.

| Model | Code |
|---|---|
| `opened`, `handle` | `State::opened`; the `BoardTuner`, which is `gone` from `close` or drop until its `release` has the lock |
| `system` | `BoardTuner::system`; `locking` while `tune` polls and lets others take the lock |
| `count`, `ready` | `open_count`; the chips whose `init` ran and whose `term` did not |
| `wants`, `asked` | `Lnb`; the tuners that were told `Ok` of their last `set_lnb(true)` |
| `power`, `lnb`, `awake`, `ts` | the GPIOs and the chips themselves: a command that failed may have taken effect |
| `senders`, `running`, `receiving` | `Streams`; the task of `Hub::receive`, which ends its streams (`leaving`) before it lets go of the endpoint |
| `held`, `stale` | what the bridge and the transfers in flight hold of each tuner, and who was handed something from before its tuning |

What runs under the lock of `state` is one action: nobody else sees the device
meanwhile. A failure leaves any state that a prefix of the commands may leave
(`PowerFails`, `OpenFails`, `LnbFails`, `StreamFails`), and where the code goes
on after an error (`release`, `power(false)`) each effect may be missing. Commands
are not told apart beyond what they power, wake, initialise or let out; what the
registers hold is left out. Programs take one stream of a tuner at a time and
drop it before they tune, as tunelithd does.

| Run | Instance | Shows |
|---|---|---|
| `Board.cfg` | four devices: a px4 board with two tuners, a Q model with one on each board, a PX-MLT with two, a single model | `OpenIsReady`, `IdleIsOff`, `LnbAsAsked`, `RunningReceives` |

Two tuners are enough for one to be opened, fail or close beside an open one, on
its board or on the other, and for the LNB and a hub to be shared. A px4 board
of four tuners adds no case: what is done to a chip depends on whether it is the
one opened, and whether it is the last. No fairness is assumed; `RunningReceives`
says as an invariant what a stream needs to be fed. `IdleIsOff` and `LnbAsAsked`
are about devices that never failed to write a GPIO (`lost`): after one, power is
left on and the LNB may differ (`px4.rs:331`, `board.rs:357`).

### It930x

The bridge takes one command at a time, over a control channel with time-outs; all
else the px4 driver does goes over it. A procedure of the driver (open, purge, a
GPIO, an I2C transfer) is the list of commands it has yet to send, each with what
its failure leads to: an early return, another try, the commands that a
`close`-bracket owes, or nothing. So the order of the code, and each of its error
paths, is the order of the list.

| Model | Code |
|---|---|
| `Send`, `NotSent` | `ctrl` up to the bulk transfer out (`it930x.rs:69`) |
| `TakeReply`, `TimesOut` | `ctrl` from the bulk transfer in: length, number, checksum and status (`it930x.rs:94`) |
| `seq`, `got` | `It930x::seq`; what `read_reg` read for `write_reg_mask` |
| `Raise`, `LoadFirmware`, `InitWarm`, `StreamOutput`, `StreamInput` | `raise`, `load_firmware`, `init_warm`, `config_stream_output`, `config_stream_input` |
| `gpioOut`, `gpioOn` | what `It930x` keeps of its GPIOs, to write a mode once |
| `PurgePsb`, `Drain` | `purge_psb` |
| `out`, `in` | commands and replies in the endpoints |
| `fw`, `blocks`, `regs` | the bridge: its firmware, the blocks written, its registers |

| `GivenUp` | the call of a procedure dropped, or its process ending, at any point |
| `clean`, `foreign` | history: whether no open began with anything left over, and whether the reply to another command was taken, since the bridge was plugged in |

`Obey` is the bridge: it does a command and answers, refuses it, damages the reply
or loses it, and may answer after the driver stopped waiting. Opening it empties no
endpoint (`board.rs:327-339`, `tunelith-core/src/usb.rs:183-203`) and begins at
number 0 again (`it930x.rs:58`), so `Open` leaves `out` and `in` as they are: what
answers an open that was given up on may come to the next. Only `Replug` clears
them. A register is the bit its mask names and one number for the others. The bytes
of I2C transfers are the chips' (`PxMlt`, `R850`), and the TS is `StreamHub`'s.

`It930x.cfg` shows `OwnReply` (as long as every open since the bridge was plugged in
found nothing left over, no reply is taken for that of another command), `BootsWhole`
(only whole firmware is booted, also where loading it was cut short before) and
`ReadyIsWarm` (a bridge that is open is set up in full and what the driver believes of
it is true). The last two hold of bridges of which no reply was taken for another's,
whatever an open found left over. That one may be is under "What the code does not
keep" (`RepliesAreOwn`). Each command that is given up on leaves at most one
late reply, so numbers that come round after 4 commands with 2 faults in an open stand
for 2^8 numbers and the few faults of a driver that gives up at once; two opens are one
cut short and one that finds what it left, or is plugged in anew. Two blocks are a part
and a whole of the firmware. One input is serial, one parallel.

### PxMlt

On these boards all tuner chips of a bus have one address: only the gates in the
demodulators tell them apart. And the driver knows the system a chip is set up for
from notes of its own.

| Model | Code |
|---|---|
| `opened`, `system`, `power` | as in `Board` |
| `chip[i]` | the chips of tuner `i`: the side that runs, what lets the TS out, the gate, the frequency of each side; `mode` is `Cxd2856er::mode` and `tmode` the system noted in `Cxd2858er` |
| `DemodInit`, `Sleep`, `Wakeup` | `init`, `sleep`, `wakeup` of `cxd2856er.rs` |
| `Gated`, `TunerInit`, `Set`, `Stop`, `Term` | `cxd2858er.rs`, with the gate around each |
| `Open`, `Release`, `Tune`, `Lock` | the calls of `board.rs` over `pxmlt.rs` |

A call is one action, under the lock of the board. Any command of it may fail,
having taken effect or not; what runs in any case (closing a gate, `release`)
does. Without power the chips forget what they were told, but the driver keeps its
notes (`PowerOff`; `pxmlt.rs:105-109` writes two GPIOs and no more): after a `term`
whose gate failed (`cxd2858er.rs:63`) a note outlives the power. `cut` has the tuners a
call of which failed since the board was powered, so that a note of one that is not in
`cut` may still be wrong until its tuner is opened, which takes it back.

`PxMlt.cfg` shows `TunedIsKept`, and `NotesAreTrue` of the tuners not in `cut`: the
notes of one that is open are true, and the chips of one that is not are at rest. Its
instance has two tuners of one bus, a terrestrial channel and two streams of one
satellite transponder, and two failing calls: one leaves a note or gate wrong and
another fails to set it right. What a failed call may do to a note is under "What the
code does not keep" (`NoneIsAsleep`).
Two tuners are a chip and a neighbour on its bus; tuners on other buses hear
nothing of either. The chips are symmetric.

### R850

The driver keeps a shadow of the registers of the chip. Two calibrations borrow it for
tables of their own, and either may be cut short at any transfer.

| Model | Code |
|---|---|
| `driver` | `struct R850`: `init`, the chip, `sys`, `sys_curr`, the shadow, the calibration of each mixer mode |
| `regs` | the registers in the chip |
| `lastSet`, `cuts` | what the last `set_frequency` that succeeded set, and how many calibrations were cut short |
| `InitTuner`, `TermTuner`, `SetSystem`, `SetFrequency` | `init`, `term`, `set_system`, `set_frequency` |
| `LosePower` | the board powers its chips off |
| `SystemRows`, `FreqRows`, `Mode`, `Amp` | the tables by system and frequency |
| `InRange`, `Div`, `XtalDiv`, `Vco`, `SdmTurn`, `Sdm`, `Rounded`, `Pll` | `set_pll`, number by number, in kHz |
| `Mux` | `set_mux` |
| `Cross`, `Tree`, `Steps`, `FullSearch`, `Section` | the points the search for the least image tries |
| `Measured`, `Whole`, `Calibrating`, `CalibrateImr` | the calibration of the images: as far as it may come, as a whole, and what the driver is left with |
| `CalibrateLpf`, `SystemParams`, `SystemFrequency` | the other parts of `set_frequency` |

The module shares no name with `PxMlt`, as `ChipProofs` extends both (hence `R850Init`,
`R850Next`, `R850Spec` and `Nothing` for `None`).

Registers are told apart by what they are set from: the table they start with, the row
of the system, that of the frequency, and `set_mux` and `set_pll`. Of the row of the
system the clock of the AGC is a field of its own, as `set_system_frequency` clears it
in the shadow for some channels (`Unclocked`, `Clocked`); it writes no other bit that
`set_system_params` set. Which point of a search reads
least is the chip's, so a search may end at any it tries. `R850.cfg` runs both chips,
with the calibrations on and off (the boards have them off), three systems
(one of each mixer mode and amplifier setting), and frequencies on both sides of
what the driver decides by, two of which come out next to a whole divider and next
to a half; one calibration is cut short. `LoIsRight` holds the divider chosen against
the frequency asked for; `ReceivesAsSet` and `PointsAreTrue` are about what a
failure leaves behind. `ReceivesAsSet` says of the clock of the AGC only that it is off
where it is to be; that it may be off elsewhere too is under "What the code does not keep"
(`SystemIsWhole`).

### BdaTuner

Lines in this section and in `BdaTuner` are of `tunelith-core/src/bda/mod.rs`. Each
call runs a closure on a thread, with the graph of pins in its hands, and its
caller may give up on it: before it starts, it is dropped; later, it goes on unheard.

| Model | Code |
|---|---|
| `opened` | the mark in `BdaDeviceHandle::opened` |
| `tuner` | `BdaTuner`: which graph, `system`, `lnb` |
| `call`, `task` | the call awaited, and where the closure of each call is |
| `reqs` | `Graph::lnb`: the last request, and whether the tuner is gone |
| `owner` | whose pins have the device; the last to let go of an `Arc<Graph>` stops them |
| `change`, `tuned` | the changes begun and not committed, and what is in force |
| `Acquire`, `Connect` | `Graph::build` |
| `SelectStream` ... `Lock`, `TuneFails` | `Graph::tune`, part by part |
| `SendLnb`, `DropLnb`, `DropGraph`, `DropMark` | the closure of `set_lnb`, and the drop of the tuner |

`BdaTuner.cfg` shows `LnbOffWhenGone`, `LastAskedHolds`, `FormatIsTuned` and
`MarkIsHeld` over any four calls, and `BdaTunerGone.cfg` finds `FreeOnceGone`
violated (see Findings). Four calls are an open, two that meet, and a close, or an
open that follows. Two satellite systems tell a tune from the one before, and a
frequency below the LNB's one that fails midway. `Acquire` may fail on
a free device too, as another program may have it.

A part of a tune is one action and fails as a whole. One that fails within a part has
set the properties before it in the change under way, a frequency below the LNB's for
one its frequency and polarity (`586-597`); they are not in `change`. The next tune
discards what was not committed as it starts its own changes, so that only a tune
under way beside it could commit them, and such tunes `FormatIsTuned` leaves out.

### BdaCapture and Aligner

What comes in: the reads the device fills, the thread that takes their frames to
the sink, and the stream that takes them from there, while a tune is under way, the
graph is stopped, or the device fails. A frame is the number of the tune it was
received in.

| Model | Code |
|---|---|
| `pc`, `reads`, `read`, `got`, `frame` | the thread of `Graph::build` and its `ks::Reader` |
| `Submit`, `NextRead`, `DropReader` | `Reader::new`, `next` and drop (`ks.rs`) |
| `sink` | `SinkState`: the sender, the frames to leave out, `stopping`, `failure`, whether it ended |
| `OnFrame`, `OnError` | the two arms of the thread's loop |
| `OpenStream`, `Take`, `EndStream` | `stream`, and the stream it returns, which leaves out its first frame |
| `Tune`, `Commit`, `Locked`, `Stopping`, `Stop` | the tune, and the drop of the graph |

`Aligner` is the aligner: `Feed` is `feed` with `FeedTs` and `FeedTlv`. It is pure, and
held against `Expected`, the packets that come whole and with others in a row,
for every way to cut a few streams into three frames: packets that hold what looks
like a start, junk before them and between them, which does not look like one. It has
`RECURSIVE` operators.

`BdaCapture.cfg` shows `StreamIsFresh`, `EndIsTold`, `BuffersOutlive`, `AlignsWhole`
and `ReaderEnds`. `Stale` is what `stale_bytes` comes to: what the device buffers
(`Round`) and a slack (`Margin`) for what it receives while a tune is sent down; the
assumption of `StreamIsFresh` is that no more comes in than that slack. Two reads
tell the oldest from the others, two tunes with two streams a frame of before from one
of now; seven frames are more than a tune leaves out. Stopping a pin is assumed to
work. Fairness: the thread runs, and a device that is stopped or gone gives back the
reads it cannot fill; a device that works need not fill any.

### BonDriver

The host calls one object from threads of its own, while a task of the object's
runtime receives the stream. Two mutexes guard the object, and what is behind
them is what the model is about. Lines in this section and in `BonDriver` are of
`tunelith-bondriver/src/lib.rs`.

| Model | Code |
|---|---|
| `pc[i]` | where thread `i` is in its call: `connect` in `open`; `join` and `clear` in `leave`; `acquire`, `signal` and `install` in `set_channel`; `wait` in `wait` |
| `control`, `data` | which thread has the mutex |
| `runtime`, `client`, `receiver`, `current` | the fields of `Control`; a stream is named by its place in the order of acquires, and so is the channel it is of |
| `joining` | the task `leave` took from `receiver` and waits for |
| `handle`, `chunks`, `pending` | the fields of `Data`, as the runtime or the stream they are of |
| `lent` | what the host was last given a pointer to, `Data::last` |
| `level` | whose signal `BonDriver::level` is |
| `task[s]`, `queue[s]`, `released` | `receive`, its channel, and the streams dropped |

A thread that takes a mutex and lets go of it without waiting for anything is one
action. Three places wait with a mutex held, and each is a step of its own: for
the task and for `data` with `control` held, for tunelithd with `control` held,
and for a chunk with `data` held. An abort takes effect only when the task next
yields, until when it may still send or store a level. The configuration and the
vtables are left out; a channel that is not configured fails before anything
changes. `Release` is CloseTuner and the end of the object.

| Run | Instance | Shows |
|---|---|---|
| `BonDriver.cfg` | 3 threads, 3 streams, 2 opens, a queue of 2 chunks | `OfTheChannel`, `ReleasedBeforeNext`, `WaitsOnLiveRuntime`, `ControlReturns`, and no deadlock |

Three threads: one waits for a chunk with `data` locked, one has `control`, and
one more reads or waits for either. Three streams are one before, one left and
one new; two opens let a handle meet a runtime built later.

Fairness: a thread that has `control` goes on (the connection and tunelithd
answer), a wait whose chunk or end has come returns, and an aborted task ends. A
wait need not time out, as 0 waits for ever (`lib.rs:255`), and a stream need not
bring anything: that `ControlReturns` holds nevertheless shows that `leave` ends
the task, and thereby the wait, before it asks for `data`.

Deadlock is checked in `Board.cfg` and `BonDriver.cfg`: in the other runs the calls, frames
or failures are finitely many, and the system may rest when they are used up.
Fairness is assumed only where it is named.

### Findings

* **An acquire given up on may leave its stream behind**
  (`ClientStreamGivenUp.cfg`). The reader task releases a stream nobody waits for
  only if the oneshot was dropped before it sends the answer (`lib.rs:230-235`);
  `Held` releases it only once `acquire` took the answer (`lib.rs:351`). Dropped
  in between, the answer goes with the oneshot and the stream keeps its tuner
  until the client disconnects.
* **A tuner of the Windows driver may be closed and not be free**
  (`BdaTunerGone.cfg`). The mark is to go with the graph (`bda/mod.rs:380`), and
  `close` to return once another may open the tuner (`traits.rs:40`). But the mark is a
  field of the tuner (`bda/mod.rs:647`) while the closures of `tune`, `signal` and
  `set_lnb` keep the graph: after one that was given up on, the tuner is
  closed and unmarked, and opening it fails until that closure ends.

## What the code does not keep

Properties that the code or its documents lead a reader to expect, stated in the
modules and not listed in a configuration. To see TLC's counterexample, add the
property to the configuration named.

* **A tuner being closed is not always waited for** (`OnlyUsedArePassedOver` of
  `Tunelithd`, a PROPERTY of `TunelithdLive.cfg`). `closing` is to hold the tuners
  being closed (`main.rs:61`), and one of those is to be waited for if no other is
  free (`main.rs:205`). A tuner closed by `start` after a failed tune is never in
  `closing`, and one whose last client released it is not until its fan-out gets to
  `end`. A request that comes meanwhile is told that the tuner is busy.
  BonDriver_Tunelith relies on the opposite (`tunelith-bondriver/src/lib.rs:185`).
* **The LNB is not powered for who joins** (`LnbIsPowered` of `Tunelithd`, an
  INVARIANT of `TunelithdLive.cfg` with `Asks <- LnbAsks`). A session is shared for
  its parameters and tuner; `lnb` is looked at only as a tuner is opened.
* **A call after the connection was lost may wait for ever** (`EveryCallIsAnswered`,
  a PROPERTY of `ClientStream.cfg`). The reader task fails the calls in `pending`
  once (`lib.rs:243`). Until the writer task's next write fails, another call enters
  itself and is sent (`lib.rs:257-261`), and nobody fails it.
* **A stream may start with the channel before** (`StreamIsFresh` of `Board`, an
  INVARIANT of `Board.cfg`). The bridge is purged as its hub starts
  (`board.rs:256-258`), and a hub goes on running after its last stream until a
  transfer completes (`stream.rs:92-104`). A stream that starts before gets what
  bridge and transfers still hold.
* **A chunk lent by pointer is freed by SetChannel** (`PointerIsAlive`, an INVARIANT of
  `BonDriver.cfg`). `Data::last` is to live until the next one (`lib.rs:125`) and
  `Data::clear` keeps it (`lib.rs:141-146`), but `set_channel` replaces it with the
  rest of the data (`lib.rs:232-236`).
* **A reply of the open before is taken for one of this** (`RepliesAreOwn`, an
  INVARIANT of `It930x.cfg`). `ctrl` refuses a "control response out of sequence"
  (`it930x.rs:94-95`), but the numbers begin at 0 with every open (`it930x.rs:58`) and
  nothing reads what is left in the endpoint. An open given up on with a command under
  way leaves a reply that the next takes for its own, of the same number; its own
  reply is then left for the command after.
* **A channel depends on the one before** (`SystemIsWhole`, an INVARIANT of
  `R850.cfg`). The row of a system sets the clock of the AGC, on chip 1
  (`r850.rs:1397-1398`); ISDB-T from 478000 to 481999 kHz clears it in the shadow
  (`r850.rs:1575-1577`), and as `sys_curr` spares the row from being set again
  (`r850.rs:1366-1368`), it stays off on the channels tuned to later, until
  `set_system`.
* **A demodulator noted to be asleep may run** (`NoneIsAsleep`, an INVARIANT of
  `PxMlt.cfg`). `mode` is "The system it runs, or `None` asleep."
  (`cxd2856er.rs:203`), but `wakeup` takes the note only after its commands
  (`cxd2856er.rs:292-300`) and `sleep` takes it back before them (`cxd2856er.rs:283`).
  After one that fails the chip runs, and the next `wakeup`, or the release, skips the
  sleep.

## Proofs

`TunelithdProofs` proves, for any constants that satisfy the assumptions of
`Tunelithd` (`AsksAssumption`: requests are well formed; `NoneAssumption`: `None`
is no tuner and no request; `RandomAssumption`), that `Spec` implies `[]` of:

| Theorem | Inductive invariant | Why it is needed |
|---|---|---|
| `TypesHold` | `TypeOK /\ Placed` | `at[r]` is a tuner wherever it is used as one, and a fan-out runs only for a request that was answered |
| `OneHolderHolds`, `PoolIsExactHolds` | `OneHolder /\ Exact` | a tuner is free exactly if nobody holds it, so the test in `reserve` keeps holders apart, and as there is one holder, its letting go of the tuner leaves `busy` exact |
| `JoinableIsLiveHolds` | `SessionInv` | a session has clients only before `end`; one that was stopped has none and cannot be joined |
| `EndIsToldHolds` | with `SessionInv` | a token that is in use is among the subscribers of the session it leads to |
| `GoneIsReleasedHolds` | `GoneInv` | until a client goes, the streams it holds are in `owned` |
| `ServedAsAskedHolds` | `ServedInv` with `SessionInv` | a request takes only its candidates, and asks do not change once sent |

`TunelithdProofs` proves, under the same assumptions, `Implements`: `Spec` of
`Tunelithd` implies `Pool!Init /\ [][Pool!Next]_(Pool!vars)`, the part of `TunerPool`
that is not fairness. Its refinement mapping is that of the run: the use of a tuner is who
holds it and as what, its clients are the streams in its session, and a request is
served once it had a stream. Four kinds of steps of `Tunelithd` change one of these:
`Reserve`, those that serve an ask (`Share`, `Publish`), those by which clients go
(`Release`, `Chunk`, `End`), and those that free a tuner (`StartFailed`, `Closed`). Each
is a step of `TunerPool` or leaves it alone, as all others do.
The invariant is the one above with `RxInv`: only a request that was granted
a stream ever had chunks. `OneHolder` is what makes the use of a tuner empty once its
holder lets go, and `SessionInv` what makes one session, hence one tuner, of each client.

`ClientStreamProofs` proves, for any streams and any sizes of channel, socket and data
(`SizesAssumption`), that the `Spec` of `ClientStream` implies `[]` of:

| Theorem | Inductive invariant | Why it is needed |
|---|---|---|
| `EndIsTrueHolds` | `Types /\ EndInv` | a session of a stream is started once and its source ends in it once, so whatever tells of the end, on its way or arrived, tells how the source ended; and a stream is `cut` only once tunelithd is gone |
| `AccountedHolds` | with `CountInv` | a chunk is read, in the channel, in the socket, counted, or in one report on its way, so these add up; and a report of losses is ahead of the one of the end, and none is made after it, so nothing is counted once the end was told |
| `ImplementsStream` | the same | it is `Spec => StreamSpec`, the property of the run: with `got`, `lost` and `made` as they are and `over` of the reads, each action is one of `LossyStream` or leaves it alone. That an end is told only once all was read or counted is `CountInv` |

`BoardProofs` proves, for any devices, tuners and bridges with finitely many
tuners (`TunersAssumption`, `BridgeAssumption`, `DevicesAssumption`), that the
`Spec` of `Board` implies `[]` of:

| Theorem | Inductive invariant | Why it is needed |
|---|---|---|
| `TypesHold` | `TypeOK /\ Counted` | an open count stays a natural number because it is the number of tuners of its board that are not released; `OneMore` and `OneLess` count them |
| `RunningReceivesHolds` | `TypeOK /\ RunningReceives` | it is inductive: `Abort` undoes only what its own `attach` began |
| `OpenIsReadyHolds`, `IdleIsOffHolds` | `Counted /\ PowerInv` | a tuner may open on a board nobody uses while the other board is used, so all boards must be powered then (`AllPowered`); `LastIsAlone` turns the counts `close` looks at into who is open |
| `LnbAsAskedHolds` | `LnbInv` | what `Lnb` keeps is what tuners were told, and only tuners that have an LNB are in it, as `release` cannot take out others |

`BonDriverProofs` proves, for any threads, streams, opens and length of the queue
(`BoundsAssumption`; `NoneAssumption`: `None` is no thread), that the `Spec` of
`BonDriver` implies `[]` of:

| Theorem | Inductive invariant | Why it is needed |
|---|---|---|
| `TypesHold` | `TypeOK /\ ControlInv` | the thread that has `control` is the only one in a call of it, so that what it found on the way in (a stream yet to be, no task) still holds as it goes on |
| `ReleasedBeforeNextHolds` | with `TaskInv` | every stream is released, in `receiver`, in `joining`, or about to be received; the last three are empty in `acquire` |
| `OfTheChannelHolds` | with `TaskInv`, `ChannelInv` | a task that may still store a level is of the current channel, or of the one being set |
| `WaitsOnLiveRuntimeHolds` | `RuntimeInv` with `ControlInv` | a handle is of the runtime there is, and a wait keeps `data` and thereby its handle |

`BdaTunerProofs` proves, for any number of calls and any parameters
(`CallsAssumption`; `NoneAssumption`: `None` is no tuner and no parameters), that the
`Spec` of `BdaTuner` implies `[]` of:

| Theorem | Inductive invariant | Why it is needed |
|---|---|---|
| `MarkIsHeldHolds` | `Tasked /\ MarkIsHeld` | what marks a tuner (its open, itself, its drop) is one at a time, so that who clears the mark is the last who needs it, heard or not |
| `LnbOffWhenGoneHolds`, `LastAskedHoldsAlways` | with `LnbInv` | requests are numbered, so that one given up on is never the last once another was made; and a closure that may yet turn the LNB on is known to the tuner, which turns it off, or comes after the drop and is refused |
| `FormatIsTunedHolds` | with `Settings`, `TuneInv` | as long as no tune was begun with another under way, one runs at most, and the tuner does not know its system until that one is over; `ComeTo` says of each point of a tune what is set and what is in force by then, so that a tune that is over has all its parts in force |

`BdaCaptureProofs` proves, for any number of reads in flight, tunes and streams, and
any `Round` and `Margin` (`CaptureAssumption`), that the `Spec` of `BdaCapture`
implies `[]` of:

| Theorem | Inductive invariant | Why it is needed |
|---|---|---|
| `BuffersOutliveHolds` | `TypeOK /\ Placed` | each read has one place in the queue, so that turning the oldest over, or dropping it, takes away no other |
| `EndIsToldHolds` | with `ToldInv` | the sink has ended, or its sender is that of the only open stream; and whoever ends the sink leaves in it why |
| `StreamIsFreshHolds` | with `InOrder`, `FreshInv` | frames come in the order of the tunes they are of, so that once one of now came nothing stale is behind it; and the stale ones on their way and in the device never exceed what the sink is to leave out. While a tune is sent down it is not known yet which will be stale, so all that came (`early`) are counted |

`It930xProofs` proves, for any number of sequence numbers, more than the faults of the
bridge in one open, of blocks (`FaultsAssumption`) and of GPIOs, and with any ports of
0 to 4 in use (`InputsAssumption`: `init_warm` goes over these five), that the `Spec` of
`It930x` implies `[]` of:

| Theorem | Inductive invariant | Why it is needed |
|---|---|---|
| `OwnReplyHolds` | `Types /\ Idle`, and while `clean`, `Ordered` (in which `InOrder` and `AllRecent`) | what is on the wire is in the order it was sent, and the oldest of it is back by no more numbers than there were faults: a reply that is taken, even for another's, makes up for a number that is used, so that only a command that was given up without one adds to it. An open that finds the wire empty begins so; of one that does not (`~clean`) nothing is said, as it is false |
| `BootsWholeHolds` | with `LoadInv`, and `Fresh` while `~foreign` | what is left of an open is the end of `OpenBridge` from some place on, and the blocks before that place are in the bridge: only a fresh reply goes past a block, as `~foreign` has it, whatever the open found left over, and it is sent once the block is written; every failure of a block ends the open. So a boot that is on its way, fresh or given up on, was sent with all blocks there, and blocks are never lost while it is |
| `ReadyIsWarmHolds` | with `WarmInv` | `Lasts(i, n)`: what the i-th command of `OpenBridge` writes is not written over otherwise before the n-th. As long as nothing of the open failed, what lasts is in the registers (`Done`), as a fresh reply says what was sent was done, and no command given up on is on its way that would write it over; in what follows of the open a failure is kept (`result`), which ends in a closed bridge. An open bridge is written to only at its GPIOs and the reset of its buffer, and that reset is lifted unless a purge is under way or failed. That a write of one bit leaves the others alone needs `Chain`: each is right behind the read of its register |

What `OpenBridge` last writes to a register is found from its parts: `Piece` holds of
each part and of two in a row (`PieceBoth`), and with it what a part `Has` it `Ends`
with, but for the two registers that are turned one way and then the other, which
`StreamOutputIs` follows through.

`ChipProofs` proves, for any tuners on any buses and any number of calls that fail
(`BusAssumption`, `FailsAssumption`; `ParamsAssumption`: parameters have a mode and a
frequency), that the `Spec` of `PxMlt` implies `[]` of:

| Theorem | Inductive invariant | Why it is needed |
|---|---|---|
| `TunedIsKeptHolds` | `TypeOK /\ OpenIsPowered /\ TunedIsShut` | the gate of a tuner that is set to something is closed, so that it hears nothing of what is sent over its bus; a gate that did not close is the failure of the call that opened it, which leaves nothing set. And power goes only with the last tuner open |
| `NotesAreTrueHolds` | with `NotesAreTrue` | a run of commands that ended well ran behind a gate it opened itself, and left the chip as the notes say, if they were true as it began. `init` takes back both notes before anything reads them, so that an open need know nothing of what outlived the power |

The argument is one about runs of commands, `Leaves`: whatever becomes of a run for
tuner `i`, chips of others with their gates closed are as before (`Beside`), and the
chips of `i`, if all of it went well, are what is stated. There is a lemma of this form
for each operator, from one write of a register up to the procedures of the board, and
each action of the module follows from that of its procedure.

`ChipProofs` also proves, for both chips, any systems, any frequencies the driver takes,
any number of transfers that fail, and with the calibrations on or off, that
`R850Spec` of `R850` implies `[]` of the following. Nothing is assumed of its constants.

| Theorem | Inductive invariant | Why it is needed |
|---|---|---|
| `ReceivesAsSetHolds` | `ChipInv`: the types, `Current`, `NotAsked`, `OneSetting`, `Held` | as long as `sys_curr` stands, the images are calibrated for its system, so no calibration borrows the shadow without giving `sys_curr` up (`Current`; `NotAsked` is the boards' case, where the images are never calibrated). `Held` is what the registers of a tuned chip say. In both the clock of the AGC is that of the row or off, as a tune may clear it and none sets it |
| `PointsAreTrueHolds` | with `Points` | a calibration that was not cut short leaves all points with the setting it was run with (`OneSetting`). Whatever points a search finds best, `Values(n)` bounds the gains and phases tried in the search in full (`FullSearch`) and `n` searches around what it found (`Section`), of which there are at most three; and within `Values(3)` a point that is usable is kept by the registers as it was tried |
| `LoIsRightHolds` | with `TurnInv` | `Held` reduces it to a fact of `Pll`, for any oscillator from 34930 to 1007070 kHz: those that a frequency the driver takes asks for |

That fact, `PllHolds`, follows the numbers of `set_pll`. A divider is found, and by it
the VCO is in its range (`SomeDivides`, `DivHolds`); the multiples of the crystal and
the rest make up the VCO (`RestIs`); the rest is rounded, if at all, to the whole or the
half, by at most a 64th of the crystal (`RoundedHolds`); and what the 15 turns of the
loop over the fraction make of it is near it. `TurnInv` is the invariant of that loop:
what is left of the fraction and what was put into the register add up to what there
was, each turn losing less than one part (`Balance`), and what the register can still
grow by fits it.
The turns are a recursive function on naturals, which `TurnsExist` shows to be the one its
equation says, and the lemma `Induction` on sets of naturals comes from
`WFMin`, the least-element fact of the library.

Each is shown as `Init => Inv` and `Inv /\ [Next]_vars => Inv'`, one step per
action, after `NextCases` splits `Next`.

The theorems `TypesHold` and `GoneIsReleasedHolds` state what no run checks any
more, as they hold of every instance.

Only model-checked:

* the liveness properties and the fairness of `TunerPool`, as liveness and `ENABLED` are
  out of the prover's reach;
* `AlignsWhole`, as the loop of `Aligner` is a RECURSIVE operator over the bytes of a
  buffer, and the property is about the streams that `MCBdaCapture` lists.

## What is left

* `DvbTuner`: the lock loop of the Linux driver and its demultiplexer's thread.
* `DirectTune`, `WasmTuner`: who closes what on which error path of the command and of
  the WebUSB tuner.
* The demodulator TC90522 and the satellite tuner RT710, whose register sequences are
  written whole at each tune; the conversion of C/N; validation and
  normalisation of parameters.
* Splitting a transfer of the px4 bridge into packets.

## Not modelled

The listener and its permissions, finding devices and firmware, listing filters and
describing their pins (calls of the system, no state kept); the vtables of the
BonDriver (memory layout) and its configuration file (parsing); the framing and
conversions of the protocol (field by field); the tables of register values (data with
nothing to hold them against); the mock driver (a test double).
