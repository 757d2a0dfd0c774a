# sdr-modem in TLA+

A model of sdr-modem: the modules describe the code under `src/`, TLC checks
them on small instances, and TLAPS proves the most important results for every
value of the constants. Paths in this file are relative to the repository's `src/`
directory (`queue.c`, `sdr/plutosdr.c`), tests to its root (`test/...`).

## The system

sdr-modem connects a program that wants to send and receive frames with a software
defined radio. It runs either as a TCP server or, from the command line, as one
reception or transmission between the radio and a file.

```
 client --TCP--> acceptor --queue--> sdr_rx_worker --> sdr_modem(demod) <-- sdr_device
    ^               |   \---queue--> sdr_tx_worker --> sdr_modem(mod)   --> sdr_device
    |               |                      |    \
    +--TCP-- client_tx_worker <---queue----+-----+---- SDR's own thread (push devices)
```

- The **acceptor** thread (`tcp_server.c`) serves one client at a time. It cuts the
  stream into requests (`tcp_utils.c`), answers a ping itself and hands everything
  else to a worker.
- Three **worker** threads, each behind a **queue** (`queue.c`): `client_tx_worker.c`
  is the only writer to the socket; `sdr_rx_worker.c` configures, starts and stops the
  receiver and demodulates; `sdr_tx_worker.c` modulates and transmits.
- An **SDR device** is a table of functions. A PlutoSDR and a file are polled by the rx
  worker ("pull"); an Airspy calls back on a thread of libairspy ("push").
- The **modem** (`dsp/`) is called by the workers or by the command line loop.
- The **configuration** (`app_config.c`) comes from a file and the command line. It picks the
  mode and the device, and sizes the queues. A client's parameters (`api.c`) pick the modem.
- The **main** thread waits for the acceptor, then destroys the workers and the device;
  a **signal** stops the server or the command line run.

## Modules and code

| Code | Module | State and actions |
| --- | --- | --- |
| `queue.c` as callers see it | `QueueOps` | a queue is a value (pending messages, message in process, poison pill); each function of `queue.h` is an operator on it. The worker modules use it |
| what a queue promises | `BoundedFifo` | abstract specification: a bounded FIFO that after an interrupt still delivers what is pending |
| `queue.c`, threads | `Queue` | free list, filled list and detached node as sequences, what each thread waits for; one action per function up to its `pthread_cond_wait`, one for going on after it |
| `queue.c`, pointers | `QueueList` | `first`, `last` and `next` of both lists, relinked in the same step in which `Queue` changes its sequences |
| `client_tx_worker.c` | `ClientTxWorker` | its queue, the socket it believes in; both `write`s of a message |
| `sdr_rx_worker.c` | `SdrRxWorker` | queue, mutex, modem, `rx_enabled`; the worker's steps and those of the SDR's thread |
| `sdr_tx_worker.c` | `SdrTxWorker` | queue, modem, tail left in the modulator |
| `tcp_server.c` | `TcpServer` | composes the three workers with acceptor, main thread, client and signal |
| `tcp_utils.c`, reads of `tcp_server.c` | `TcpUtils` | position in the client's byte stream, the two nested read loops, timeouts, stalls, disconnects |
| `sdr/plutosdr.c` | `PlutoSdr` | cached settings against those of the chip; each write to the chip is a step that may fail, on two threads |
| `sdr/airspy.c` | `Airspy` | rate and gain against those of the tuner, with failing calls; the staging buffer between libairspy's transfers and `sdr_buffer_len` blocks |
| `sdr/sdr_file.c` | `SdrFile` | chunked reads and writes, plain and through zlib |
| `sdr_utils.c`, `sdr/sdr_device.h` | `SdrDevice` | composes the drivers: the configuration picks one |
| `cli.c`, cli part of `main.c` | `Cli` | uses the configuration of `AppConfig`: the push, pull and transmit loops, the SDR's thread, the signal handler and its pipe |
| `dsp/gfsk_correlator.c` | `GfskCorrelator` | detector and sampler positions, relative to the buffer and absolute |
| `*_create` of `dsp/sdr_modem.c`, `gfsk_modem.c`, `bpsk_modem.c`, `psk_pm_modem.c` | `ModemSettings` | operators: which settings are accepted, how many half-band stages they get, samples per symbol |
| `dsp/sdr_modem.c`, the three modems, `halfband_*.c`, `freq_offset.c` | `SdrModem` | composes the correlator with both chains of every type of modem: lengths, histories, tails, chunks |
| `app_config.c`, start of `main.c`, `sdr/iio_lib.c`, `sdr/airspy_lib.c` | `AppConfig` | the settings, read in stages (first pass over the command line, file, second pass, defaults, checks, start of a mode) |
| settings in `api.c` | `Api` | the two tables of offsets, the encoding of numbers, the checks in front of the decoding |
| a parameters request in `tcp_server.c`, `queue.c` and the workers | `CommParameters` | composes `AppConfig` and `Api`: the request on its way, with its length against every buffer |
| `main.c` | `Program` | composes `AppConfig` with `Cli` and `CommParameters`: one process from its command line to the end of the mode it starts |
| | `QueueProofs`, `GfskCorrelatorProofs`, `SdrModemProofs`, `SdrDeviceProofs`, `CliProofs`, `TcpUtilsProofs`, `TcpServerProofs`, `SettingsProofs` | theorems |
| | `MC*` | instances for TLC |

`PROJECT.json` maps every definition to the lines it stands for.

Abstractions, and what they rest on:

- Messages, frames and settings are model values or kinds of requests. Whether a request
  decodes, and whether a hardware or socket call fails, is a nondeterministic input.
- Sample values are floating point and left out; what is kept is which sample goes where
  and when. A correlation is an abstract strength out of a small set.
- `Queue` takes a function up to its wait as one step because the queue's mutex is held;
  the worker modules take an operation on a queue as one step, which is what the
  refinement of `BoundedFifo` justifies: `Queue` implements it, and the threads of `TcpServer` use
  it as it demands (`ServerQueuesAreFifos`).
- `PlutoSdr` starts from a chip whose filter fits its rate, as after a clean session.
  Buffers have at least 2 samples.
- A message that is longer than the buffers of a worker's queue is dropped by `queue_put`. That is
  in `CommParameters`; `SdrRxWorker` and `SdrTxWorker` only put messages that fit.
- A callback of the SDR's thread in `SdrRxWorker` has one block; blocks are independent of each other.
- `cli_create` is one step of `Cli`: nothing else runs before it returns, and `main` learns only
  whether it failed. `iio_lib_create` and `airspy_lib_create` are one step that loads everything
  or nothing; which function is missing makes no difference to anybody.
- Entries of an offset file are sorted by time.
- A resampler returns the floor or the ceiling of n * to / from samples, whichever its phase
  gives. The filters and loops of liquid-dsp are known by the lengths they take and
  return; whether it accepts their remaining settings is one input (`inRange`).
  `rrc_beta` is in hundredths.
- Of the settings that are only stored, `AppConfig` has one or two of each kind (text,
  number of each width, enumeration). A number is cut to the width of its field; `Uint32` is the
  number of values of a `uint32_t`, smaller for TLC, whose own integers end below 2^32. A float in `Api` is its bits, and a byte has `ByteBase`
  values instead of 256: every width keeps its number of bytes.
- A request in `TcpUtils` is the position where it starts in the client's stream.
- libairspy's stop waits for a running callback (external).
- An uninitialised function pointer (see below) is "NULL", or a call that ends the
  process: both outcomes are in `Cli`.

## Runs

| Run | Question | Result |
| --- | --- | --- |
| `queue` | Producers, consumer, interrupt, reset and destroy in any order on a blocking or an overwriting queue | `PointersFormLists`: the linked lists are the two lists, with the right ends; `NodesConserved`: every node is in exactly one place; `NoLostWakeup`: nobody sleeps while the condition holds that it waits for; `DetachedUntouched`: nobody writes what the consumer reads without the mutex; `ImplementsFifo`; `InterruptReleases` and `ProducersNeverAllStuck` under fairness |
| `server` | Two clients one after the other, failing reads and transmissions, signals | `SdrGoesOff`: no start outlives its client (a stop is queued behind it); `NothingAfterStop`: no soft bits after the answer to a stop; `NoCallbackAfterDestroy` |
| `server_liveness` | All ten kinds of requests | `AnswersInOrder` per answering thread; `LostTailIsReported`: the modulator keeps the tail of a frame only when the client was told that one failed; `SdrStopsWithoutClient`, `ShutdownCompletes`, `EveryRequestAnswered` |
| `framing` | A client's stream in any segmentation with timeouts anywhere | `InStepUnlessAbandoned`; `DroppedForAReason`: a client that is in step is given up when it left, was silent in a header for the limit, announced more than the buffer holds, asked for it, or the server stops; `StalledClientIsDropped` |
| `devices` | The drivers with failing calls | `ConfiguredAsReported`: the radio runs as its driver has cached it, until a rate change fails half-way or two changes overlap; `BuffersOwned`, `TransmitsPowered`, `StagingConserves`, `WholeFileRead`, `ProcessTxReturns` |
| `modem` | Settings of every type of modem, streams cut into calls of any length, any frames and flushes | `ReadsInBounds`, `SampledOnce`, `OnlyStrongerRetimes`, `CutsInvisible`, `OutputFits`, `SamplesConserved`, `DecimationHarmConfined`: what a modem accepts at the SDR's rate it accepts behind the half-band stages, except bandwidths that their estimate does not cover; `OffsetInInterval`, `NothingRefused`, `FlushEndsTransmission` |
| `program` | Command lines with overriding, spoilt and repeated options, then the mode they start: a client's parameters, or a command line run with signals at any point, on either thread | `ConfigAsAsked`: the program starts with settings that are fit for its mode and are the ones asked for where their fields can hold them, or not at all, except that it may miss a file named behind other options; `ParametersAsSent`: a worker applies what the client encoded, or the client is told so, or the message is longer than the worker's buffers; `NoCallbackAfterStop`, `SuccessMeansTransmitted`, `StopEndsProcess` |

`ImplementsFifo` alone would take a put whose message is lost for a stutter; together with
`NodesConserved` and `PointersFormLists` it cannot be one, because the node that left the free
list has to be on the filled list.

Type invariants are proved where a proof rests on them.
Every property has a mutant in `PROJECT.json`: a plausible bug in the modelled code that
makes TLC report the property.

Five runs end in a counterexample, where the code and its own comments disagree:

- `server_modem_swap`: `sdr_rx_worker.c:109` uses the demodulator's output after the
  mutex was released. With a push device new rx parameters can destroy the modem in
  between, although line 60 says the lock protects the modem's use by the SDR's thread.
- `server_rx_fails`: a failed read ends the rx thread (`sdr_rx_worker.c:150`) with the
  receiver on. The stop that `tcp_server.c:157` queues so as not to "leave sdr running
  without a client" is never handled. This is why `server` does not check deadlock:
  the acceptor can end up waiting for room in the queue of a thread that is gone. It is
  also why `server_liveness` has no failing reads.
- `framing_payload_timeout`: a timeout between header and payload is taken as "no message
  yet" (`tcp_utils.c:67`), and the payload is then read as a header (`tcp_server.c:89`).
  `InStepUnlessAbandoned` shows that this is the only way to fall out of step, besides a
  header of an unknown version.
- `pluto_filter`: a sample rate change that fails after the filter was turned on leaves
  `current_sample_rate` at the old value. A request for that rate then succeeds
  (`sdr/plutosdr.c:421`) with the filter on, against the comment at line 331.
- `config_file`: `--sdr_type airspy --config f` ignores the file. The first pass over the command line
  (`app_config.c:1095`) stops at the first argument that is not an option, here "airspy", and the second
  skips `--config` as "already handled" (line 887). `--sdr_type=airspy --config f` reads it.

### Bounds

| Run | Bounds | Why they are enough |
| --- | --- | --- |
| `queue` | 2 producers, 1 consumer, 4 nodes, 2 messages and one too long | two waiting producers are needed for a wakeup to go to the wrong one; with four nodes head, middle and tail of a list differ while a node is detached. The proofs remove the bound |
| `server` | 2 clients with 2 requests (start, stop, rx parameters), queues of 1, 2 and 1 | start and the disconnect race with a second client; queues of one message are full as soon as possible |
| `server_liveness` | 1 client, 2 requests out of 10 kinds | every pair of requests, hence every pair of workers |
| `server_modem_swap`, `server_rx_fails` | 1 client with 3 requests, 1 request | the shortest histories that show the behaviour, and all of that length |
| `framing` | header of 3 bytes, payloads of 0, 2, 0, 1 and 3 bytes with a buffer of 2, two bad versions, two SHUTDOWNs, 3 stalls | a payload that does not fit; a payload shorter than, equal to and longer than what is left of a segment; the code's own limit of stalls |
| `framing_payload_timeout` | payloads of 2 and 0 bytes | the timeout between header and payload needs one payload |
| `devices`, `pluto_filter` | 4 sample rates (one per filter range), buffers of 4 samples, frames of 1, 4, 5; staging of 3 with transfers of 1, 3, 7; files of 0 to 29 bytes in chunks of 2 samples | below, at and above one batch; a transfer that fills the staging buffer more than twice; files that end inside a chunk and inside a sample |
| `modem` | correlator: 2 samples per symbol, sync word of 2 bits, search of 2 and burst of 4 symbols, calls of up to 5 samples, 18 samples, strengths 0 to 2; 8 settings that cover every type of modem, with 3 offset files, and some 70 more for creation and lengths: rates of 1 to 3000, 0 to 6 half-band stages, with and without resampling, refused ones; 3 tx calls | two sync words with a burst between them, cut at every place; all stages of the code's own limit. The proofs remove the bound |
| `program` | 7 command lines that between them use every mode and device, with up to two of 28 more options; 2^20 for `Uint32`; 2 frames, 2 signals; requests with every field of every modem set on its own, bytes of 8 values, messages cut short, exact and too long | an option can be overridden once and spoilt once, before or after the file; a field that moves or loses its sign differs from the rest, which is 0; a signal comes during and after the first frame, and a second one while the first is handled |
| `config_file` | 3 command lines | the file at the end of a line that starts the program without it |

Counters that are unbounded in the code are capped by a constant in a guard
(`MaxClients`, `MaxRequests`, `MaxSoftBits`, `MaxReceived`, `MaxTotal`, `MaxCalls`,
`MaxFrames`, `MaxSignals`). `modem`, `devices` and `program` do not check deadlock: a stream, a
device and a process end.

### Fairness

Liveness properties assume weak fairness of each thread's own steps, which is what
pthread scheduling and a mutex that is always released give:

- `Queue`: a thread inside a queue function goes on when it can, and the consumer keeps
  taking and completing. Nothing is assumed between producers: the code does not say
  which of them wins a free node, so `ProducersNeverAllStuck` promises only that one does.
- `TcpServer`: every thread is scheduled. A read ends after `SO_RCVTIMEO`, an accept after
  the server's socket was shut down, and a write because clients read or leave. The
  last one is an assumption about clients: there is no send timeout.
- `TcpUtils`: `recv` returns, at the latest with a timeout.
- `SdrDevice`, `Cli`: calls of the hardware return.

It is never assumed that a client sends, that samples arrive, that a signal comes or that
a caller makes another call.

## Proofs

TLAPS checks every step of the eight proof modules, for every value of the constants that
satisfies the assumption named in the component's module. An invariant is proved from one that
is inductive; below is what each of those adds and why.

**`QueueProofs`** (`QueueAssumption`: any producers, messages and size). `TypeCorrect`,
`NodesAreConserved`, `WakeupsAreNotLost` and `DetachedIsUntouched` state the types, the
invariants and the action property; `QueueImplementsFifo` that every step of `Queue` is a step
of `BoundedFifo` or a stutter. Types and conservation are inductive together.
The refinement needs more (`FifoInv`): the two lists and the detached node add up to the
queue's size (otherwise "full" in `BoundedFifo` and "no free node" in the code differ),
every node that is not free holds a message, and a blocked `queue_put` has one. No wakeup
is lost because each function that makes a condition true broadcasts; the proof goes through
the functions one by one.

The same module goes down to the pointers. `PointersAreLists`: the pointers are the two lists. It
needs that no node is on two lists and that a detached node points nowhere. Lemmas say
what appending a node, taking the first and joining two lists do to the links.
`ListsImplementQueue`: the pointer level implements `Queue`. Hence `ListsImplementFifo`: what is proved
of `Queue` holds of the linked lists, and they implement `BoundedFifo`.

**`GfskCorrelatorProofs`** (`CorrelatorAssumption`: any samples per symbol, sync word, search
and burst length, calls of any length). `ReadsAreInBounds`, `NoPartSampledTwice`,
`RetimedByStronger`, `CallsAreInvisible` and `SymbolsFit` follow from the inductive invariant of
`Invariance`, whose parts are

- `LoopInv`: where the detector stands inside a call;
- `SamplerInv`: the sampler lags behind the detector by `SamplerLag`, and by less than one
  sample more; the last symbol was due. That is why re-timing from a peak in the history
  neither reads before the buffer nor goes back over what was output;
- `SearchInv`: the peak is not older than its search, so it is still in the history;
- `ShiftInv`: a position in the buffer plus what was shifted out is the position in the
  stream, or both are so far back that saturation does not matter.

`SymbolsFit` adds `OutputInv`: n symbols of a call are n - 1 symbol lengths apart at least, and the
first was not due before the call. Re-timing only moves the sampler forward, so it makes up no symbols.

**`SdrModemProofs`** (`ModemAssumption`: any settings, buffers and offset files).

- `ModemDrivesCorrelator`: a step of the modem is a step of the correlator or leaves it alone
  (`ModemSpec => CorrelatorSpec`), because what is in hand fits into the correlator's buffer
  (`ChainInv`). Hence `CorrelatorInsideModem`: the five results about the correlator hold inside
  every modem.
- `DecimationHarmIsConfined`, from `CreationInv` and the lemma `StagesKeepAcceptance`: the rate
  behind the stages is at least twice the bandwidth, which leaves the modem its two samples per
  symbol and its filters room below half of the rate, unless a GFSK bandwidth is below the symbol
  rate or a PSK cutoff is not. `DecimationCanRefuse` proves that this exception is needed: bpsk with 4800
  baud and a cutoff of 4800, which the modem takes at 52000 samples per second.
- `ConservesSamples` and `EveryBufferFits`, from `ChainInv`: every sample that
  came was demodulated, waits in the decimator for the rest of its block, or is in hand, and what is
  in hand is no longer than the input; in addition the correlator was fed with what was
  demodulated (`CorrelatorFed`). Monotonicity of the division in the lengths gives the bounds of the tx chain.
- `FlushIsComplete`: `FlushEndsTransmission` is inductive as it stands.
- `InterpolatesInInterval`, from `OffsetInv`: the current entry is not later than the
  virtual time and the next one is, but for times before the first entry.

**`SdrDeviceProofs`** (any rates, frames, transfers, files, and failures of any call).
`RadioRunsAsReported`, `BuffersAreOwned`, `TransmissionIsPowered`, `StagingCorrect`
and `FileIsReadWhole` follow from `DeviceInv`. It adds `PlutoUse` (which thread may be where
in which state of the driver; a tx buffer exists only behind a powered oscillator), `RateInv` (a
rate write that did not fail and that nobody disturbed left the chip at the cached rate), `TunerInv` (the same for
the Airspy) and `FileInv` (the bytes read and left add up to the file).

**`CliProofs`** (any number of frames and signals, any configuration). `CallbacksEnd` and `ReportedIsTransmitted`, from
`CliInv`: `ThreadInv` ties the SDR's thread to the stage of the loop that started it, `FramesInv`
says at which points of the transmit loop nothing is left unsent, and `StageInv` that the loop runs only
in the cli mode, whose direction and device do not change any more.

**`TcpUtilsProofs`** (`FramingAssumption`: any requests). `StaysInStep` and `DropsAreJustified`,
from `FramingInv`: `ReadInv` says that position, bytes read and bytes left of the current read meet
at a boundary; `StallInv` that the count of stalls is at most the number of timeouts since the
last byte, unless there was progress since; `DroppedForAReason` itself is a part of it, because the
position at which a client was dropped has to be kept.

**`TcpServerProofs`** (`ServerAssumption` and `NullAssumption`: any number of clients and requests, any
queue sizes, push and pull devices, failing reads and transmissions).

- `SdrDoesNotStayOn` and `NoCallbackIntoFreed`, from `ServerInv`: `OrderInv` is the order
  in which main takes the server apart, `SdrInv` says that the SDR's thread runs only for a push
  device whose receiver is enabled by a living worker, and `StopInv` that, once the acceptor is done
  with a client, the commands in the queue end with the receiver off.
- `AnswersKeepOrder` and `NoBitsAfterStop`, from `AnswersInv`. A request is at each moment in one
  place: in the acceptor's hands, on the queue of a worker or in its hands, as an answer on the queue
  to the client, or with the client. `PlacesInv` says that each place is in order, `FlowInv` that
  all of a later place is ahead of all of an earlier one. "Ahead" is one relation for both
  results: a smaller number where one thread answers both requests, and no soft bits behind the answer
  to a stop without a start in between. Requests of a client that left may still be on the queues,
  and their answers go to the next client; the relation therefore says to which connection
  a message belongs, and `FlowInv` that the rx worker has answered all of the earlier client's
  requests before the first of the next. `ReceiverInv` ties soft bits to `rx_enabled`.
- `ServerQueuesAreFifos`: every step of the server is, for each of the three queues, a step of
  `BoundedFifo` or a stutter. `IdleInv` says that a worker that takes the next message holds none. With
  `QueueImplementsFifo` this closes the gap between the queue's two models: `queue.c` keeps its
  promise to callers that behave, and these do. When `RxReadFails`, the end of the rx thread
  is not one that its queue announced, and `ended` stays false for that queue.
- `OnlyCallbackOutlivesModem`: the output of a destroyed modem is held at most by the callback of a
  push device, which is the behaviour that `server_modem_swap` shows. Nothing else, and no pull
  device, is exposed to it.

**`SettingsProofs`** (`ConfigAssumption`: any files and command lines whose numbers are integers, any
number of values of a `uint32_t`; `ByteBaseAssumption`: a byte has any even number of
values that holds the types of modems; `WantedAssumption`: any settings whose fields fit their types,
any announced lengths).

- `ParametersArriveAsSent`, from `RequestInv` (a request on its way is the encoding of what a client
  wanted, cut or extended to the announced length). Lemmas say that each reader returns what its
  writer wrote, that no two fields of a table overlap, and that decoding a payload that is long
  enough gives back the settings, for each type of modem.
- `ConfigurationAsAsked`, from `ConfigInv`: the settings read so far are those asked for up to the
  option that is next (`AskedUpTo`): the last of that name, so no recursion is needed. What was asked
  for is stated without the code's own first pass and casts (`OnLine`, `NamedFile`, `Fits`); the lemmas
  `FirstPassFinds` and `StoredFits` say where the two agree. `AllHold` keeps each setting in the range that its field and its parser leave
  it, from which the checks in `Valid` make it fit for its mode.

Only model-checked: all liveness properties (`InterruptReleases`, `ProducersNeverAllStuck`,
`SdrStopsWithoutClient`, `ShutdownCompletes`, `EveryRequestAnswered`, `StalledClientIsDropped`,
`ProcessTxReturns`, `StopEndsProcess`), because fairness and ENABLED are out of the prover's reach; `LostTailIsReported`; and
the five counterexamples.

## Behaviour worth knowing

Met while modelling; there is no promise in the repository to check it against, or it is
outside the model.

- A ping is answered by the acceptor and can overtake earlier answers of the workers;
  `test/test_tcp_server.c:63` relies on the order.
- Answers that are queued when a client leaves can be written to the next client, whose
  socket may have the same descriptor number (`client_tx_worker.c:184`).
- A frame that arrives before any tx parameters is not answered (`sdr_tx_worker.c:40`).
- When the first transmission of a frame fails, the flush is skipped and the next frame
  starts with the tail of the failed one (`sdr_tx_worker.c:49`).
- The payload of a header with an unknown version is not read (`tcp_server.c:78`).
- On a queue with a single node that does not block, a put while this node is detached
  finds no node to overwrite (`queue.c:130`).
- `sdr_set_rx_callback` is not set by the PlutoSDR and the file device, `sdr_flush_tx` not
  by the file device and the Airspy, and both are compared with NULL (`cli.c:194`,
  `cli.c:241`, `sdr_rx_worker.c:207`).
- Rx and tx share the PlutoSDR's one sample rate: the parameters set last apply to both.
  A `set_*_parameters` that fails half-way keeps the old modem with part of the new
  settings.
- `plutosdr_process_tx` does not end with a `sdr_buffer_len` of 1: half of it is a batch of 0.
- Tx parameters longer than `max_frame_size` are dropped by `queue_put` and not answered
  (`sdr_tx_worker.c:142`).
- Behind the half-band stages a PSK modem can refuse a bandwidth that is not below its baud
  rate, and a GFSK modem one that is below it, although they accept both at the SDR's rate and
  `test/test_bpsk_modem.c` uses such bandwidths on the modem alone. It says so in the log;
  `DecimationHarmConfined` shows that no other settings are affected.
- `plutosdr_destroy` does not look at the result of turning the oscillator off.
- Settings of a device in the file are ignored when `sdr_type` is only on the command line.
- An explicit 0, and a value that becomes 0 in its type (a port of 65536), counts as not set and
  becomes the default.
- A number that does not fit its field is cut without a word: -1 for `sdr_buffer_len` becomes the largest
  `uint32_t`, and the server's buffer, 110 bytes more, wraps to 109.
- An empty `bind_address` is taken for an address: the server is started and `inet_pton` refuses it
  (`tcp_server.c:261`), although `resources/config.conf:2` says that it means the command line mode; `plutosdr_timeout_ms` is 1000 by default, and line 40
  there says 10000.
- Signals in `main.c`: one before `cli_runner` is set is lost; one between the creation of
  the server and its join finds the server reset to NULL; one after `cli_destroy` uses freed
  memory.
- When an Airspy fails to start in a command line reception, the run waits for a signal.
- Chunks in `dsp/freq_offset.c` start anywhere and can straddle an interval, although
  lines 29 and 193 say they never do; the error is at most that of one chunk.
- Two sync words back to back: re-timing to the second can drop the last symbols of the
  first burst.
- `fir_filter.c` has no caller in `dsp/`, and `decimated_buffer_length` in
  `sdr_modem_create` is not used.

## Not modelled

- `log.c`: wording of messages.
- `dsp/dc_blocker.c` and `dsp/fir_filter.c`, and what the PSK modems and GFSK without a sync word
  do to the samples they receive: floating point loops around liquid-dsp objects with no
  control to get wrong. Their lengths are in `SdrModem`.
- Headers, responses and soft bits in `api.c`: a few bytes at fixed places, known in `TcpServer` by
  what they say.
- The sync word in hexadecimal and the remaining stored settings in `app_config.c`.
- The signal handler against the globals of `main.c`, but for what `Cli` and `TcpServer` have: a
  signal finds the server or the command line run there.
- Socket set-up failures in `tcp_server_create` (they end the process), debug files of the modem,
  failures of memory allocation.

## Plan

1. Done: the queue at three levels (promise, threads, pointers); the workers and the server; framing;
   the drivers; the process from its command line on; every type of modem and its settings; the configuration and the
   parameters of a client; the proofs above.
2. The signal handler against the globals of `main.c`.
3. An abstract specification of the server (one client's requests and their answers)
   that `TcpServer` implements.
