# TLA+ models of ws-audiod

`ws-audiod` is a daemon that records continuously from an ALSA device and hands
the audio to several consumers at once: clips cut from a rolling history, block
files on disk, and samples in shared memory. It is a program of four threads
(main, capture, clip worker, block writer), a control thread, and any number of
clients of its control socket and readers of its shared memory. Almost
everything that can go wrong in it is an order of events: this directory models
the parts as TLA+ modules, checks them with TLC on small instances, and proves
with TLAPS, for every size, the safety of all of them, and that the ring buffer, the
recorder, the shared memory and the clip extractor implement the abstract
specifications of what they promise.

Paths such as `block_recorder.cpp:69` are below `src/` and
`include/audio_daemon/` of the repository. `PROJECT.json` maps every definition
that models code to its lines.

## 1. The system

| Component | State | Operations | Works with |
|---|---|---|---|
| `AlsaCapture` (`src/capture/alsa_capture.cpp`) | `running_`, the PCM handle, a period buffer | `initialize`, `start`, `stop`, the capture loop | calls `CapturePipeline::on_audio_chunk` once per period |
| `CapturePipeline` (`src/pipeline/`) | the parts below, gain, downmix, DC filter state, level meters | `initialize`, `start`, `stop`, `on_audio_chunk`, `capture_clip`, `set_parameter`, `get_*_json` | feeds ring buffer, recorder and publisher, in that order, on the capture thread |
| `RingBuffer` (`src/capture/ring_buffer.cpp`) | `buffer_`, `write_pos_`, `total_written_`, `read_mutex_` | `write` (capture thread), `read`, `available_frames` | read by the clip worker |
| `BlockRecorder` (`src/capture/block_recorder.cpp`) | byte ring with two cursors, write buffer, open file, `writer_cv_` | `push` (capture thread), writer thread, `start`, `stop`, `get_stats` | writes files with libsndfile |
| `ClipExtractor` (`src/capture/clip_extractor.cpp`) | request queue, result map, two condition variables | `request_clip_sync`, worker thread, `start`, `stop` | reads the ring buffer |
| `SamplePublisher` (`src/sharing/`) | a POSIX shared memory segment, `write_counter_` | `initialize`, `publish` (capture thread), `cleanup` | read by `python/ws_audiod`, `examples/audio_consumer.cpp`, `examples/audiod-mon.cpp` |
| `ControlSocket` (`src/utils/control_socket.cpp`) | listening socket, `running_` | `start`, `stop`, accept loop, `handle_client`, `parse_command` | the `CLIP`, `SET` and `GET` handlers of the daemon, which call the pipeline; one client at a time |
| `Daemon` (`src/main.cpp`) | `running_` | `initialize`, `run`, `stop`, signal handler, three handlers | owns pipeline and socket |
| `Config` (`src/utils/config.cpp`) | `DaemonConfig` | `load_config`, `parse_args` | runs before any thread |
| Clients (`python/ws_audiod`, `examples/`) | the monitor: a gain of its own | connect, send a line, wait, give up | the control socket |
| Logger, tests, packaging | | | not modelled |

What is hard about it, and the property that makes each component correct:

- **RingBuffer.** The writer never waits. `read_mutex_` excludes readers from
  one another, nothing excludes them from the writer. Correct: what a reader
  copies is what it asked for unless it has been lapped, and a lapped reader
  gets later audio or torn bytes, never silence or audio from the future.
- **BlockRecorder.** A lock-free ring between two threads, a condition variable
  notified without its mutex, frames that straddle the end of the ring and of
  the write buffer, a disk that fails. Correct: the files, put together, are the
  accepted audio with no gap, repetition or shift; periods are dropped only when
  the writer is behind; `stop` drains and returns.
- **ClipExtractor.** Callers, a worker that sleeps uninterruptibly, a stop that
  notifies one condition variable of two and does not close the queue, a ring that
  stops growing when capture stops, a disk and a memory that fail. Correct: every
  call returns, `stop` returns when clients leave it to, and a clip is the window
  asked for if the audio of it came in.
- **SamplePublisher.** A period is overwritten in place and published by a
  counter; readers have no lock; daemons crash and restart. Correct: the
  counter never runs ahead of the samples, and a reader is not handed again what
  it has had, with the one exception that a restart after a crash makes.
- **CapturePipeline.** Gain and DC filter are changed by the control thread in
  the middle of a period. Correct: a period is the left channel, or all of them,
  times one gain; the filter's state stays bounded and forgets an offset,
  whatever a `SET` that raced with it left behind; the meter shows the loudest.
- **Daemon.** Parts are started and stopped in an order, and clients and signals
  come at any time. Correct: a signal ends the daemon, a client is let go, and
  the capture callback never meets a part that is not there.
- **ControlSocket and its clients.** One thread serves one client at a time; a
  client may say nothing, send half a line, leave, or ask for a clip that lies in
  the future. The monitor keeps a copy of the gain and writes it back. Correct:
  everyone is let go, no command ends the daemon, and the copy is the original.
- **Config.** The file is read in the middle of the command line and replaces what
  came before. The card grants other sizes than it was asked for. Correct: the
  command line has the last word, and what is allocated holds what arrives.

`PROJECT.json` lists the hazards line by line, with the properties that cover
them and the reason where none does yet.

## 2. The modules

### SampleRing (`MCSampleRing`, `SampleRing_proofs`)

`RingBuffer`, with frames instead of bytes: a slot holds the number of its
frame. `write()` is the actions `WriteBegin`, `BatchBegin`, `BatchEnd`,
`StorePos`, `StoreTotal`; a `memcpy` is in flux between its begin and its end,
and a copy out of a slot in flux yields the old frame, the new one or `Torn`
(the bytes of both: the code has a data race there). `read()` is `ReadBegin`
(lock, load `total_written_`), `ReadNothing` (the early return), `LoadPos`
(load `write_pos_`, compute the start), one `CopyFrame` per frame, in any order
inside one `memcpy`, and `ReadEnd`. Cursors are reduced modulo `WordMod`, the
word of `size_t`, so that the wrap-around branch of `read()` is reached.
`claimed` and `first` are history: the frames handed to `write()`, and the
number of the frame the window begins with.

### SlidingHistory

The abstract specification of the ring buffer: no slots, batches or wraps, only how
many frames have been handed over (`Hand`), published (`Publish`) and counted
(`Count`), and one reader at a time. It asks for a window (`Ask`) of what is counted,
looks up the end of the history once (`Look`), reads the frames of the window in any
order (`Copy`), each of which is itself, or, once its place has been handed over,
a later one of the same slot or torn (`MayHold`), and returns when it has them all
(`Return`). `ReadsAreHistory` is `History!Spec` for the instance that reads
`published` and `counted` off the writer's position in `write()`. Beyond the
invariants it says that a window is fixed by one look, that a read leaves out no frame,
and that nothing a reader has copied changes afterwards.

### BlockRecorder (`BlockRecorder_proofs`)

The byte ring, its two free-running cursors, the condition variable with the
states between `check`, `toSleep` and `asleep`, the drain loop with its write
buffer, block cutting, opening and closing of files, disk errors, and `stop()`.
`push()` is `PushDrop`, or `PushCopy`, `PushStore`, `PushNotify`. The writer
thread is `WaitCheck`, `FallAsleep`, `DrainCopy`, `DrainRelease`, `FramesDone`,
`OpenFails` or `OpenFile`, `WriteFrames`, `RingEmpty`, `LeaveOrWait`; between
the store of `ring_write_` and the notification, between predicate and sleep,
and between copying out of the ring and giving the space back, the other thread
may step. Bytes are numbered in the order they are accepted, so a file is a
sequence of frame numbers. The sizes (`OneSecond`, `FlushThreshold`,
`BufferSize`, `RingCapacity`) are the constructor's formulas; `RingAssumption` is
what they must come to: a ring smaller than the word of its cursors, and, being a
power of two, a divisor of it. The clock is the sound card's: second *s* is when
frame *s* x `Rate` is captured.

### RecorderWakeup (`RecorderWakeup_proofs`)

The abstract specification of what `push()`, the writer thread and `stop()` do to
one another: the ring is a number of bytes, the writer takes some of them and may
give up, and a notification is lost when nobody is asleep. It has no counter that
grows, so that what happens in the long run can be asked of it, with no last
frame. `BlockRecorder` implements it, which is checked and proved: `WakeupProtocol`
is `Wakeup!Spec` for the instance that reads `used` as `Used`, `pushing` as the bytes between `PushCopy`
and `PushStore`, and hides the two writer states in which only files change.

### BlockLog

The abstract specification of what is on disk, with no ring, buffer or thread: bytes
are numbered as they are accepted, `passed` is how many of them have been written or
thrown away, and each file is the list of its frames. `Accept` lengthens the stream,
`Open` begins a block for a frame that is there, `Write` moves a batch that fits the
block from the head of the stream into it (a failing disk takes a part and the rest is
gone), `Lose` throws some away while no file is open, and `Close` ends a block early
when no whole frame waits. `FilesAreALog` is `Log!Spec` for the instance that reads
`passed` as the bytes of the frames written plus `lost`, which is checked and proved
of `BlockRecorder`. Unlike `FilesAreGapless` it says something of a disk that fails:
what follows an error goes on where the error ended.

### ClipExtractor (`MCClipExtractor`, `ClipExtractor_proofs`), ClipServer

Callers of `request_clip_sync`, the queue, the worker and `stop()`. Audio is
counted in seconds, and a clip is the interval it covers. Threads are fast
compared with seconds, so time passes (`Tick`) only when every thread waits.

Time and audio are two counts. `Tick(captured)` is a second that passes, and
`captured` says whether its audio got into the ring. The worker's `sleep_for` (`left`)
goes by the first, what it reads from the ring (`held`) by the second. A second may be
lost at any time, to an overrun or because the capture thread has died of an error
(alsa_capture.cpp:184); and none is captured unless the extractor is up, for
`CapturePipeline` starts capture after it and joins capture before it stops it
(capture_pipeline.cpp:134-135), so that a worker still in its sleep then reads a ring
that has stopped growing. A request carries its age, the seconds heard since it was
made and what the ring held then. These are relative to the request, and an id that is
of no use to anybody any more is given out again (`FreshId`; `next_id_` never gives
one out twice, and nothing compares two but for equality), so that neither time nor
the number of requests has a bound.

`Extract` writes the file: `sf_open` may fail, which gives no path, or `sf_write` take
only some of the samples, which gives the path all the same (clip_extractor.cpp:198-203):
`written` is how many. `OutOfMemory` is the vector of all the seconds asked for (l.127)
throwing in a thread where nobody catches; it ends the process. The overflow of
`end_offset * 1000` (l.107) for an offset of more than 24 days is not modelled.

`ClipServer` is what the rest of the daemon may rely on: a number of requests not
yet served, a caller that is idle or waits, a worker that serves what is queued
before it leaves, or throws. Its caller comes back when nothing is pending or the
extractor has stopped. `Promise` is this and its progress: the worker does not rest
while there is a request to serve or it is to leave, and the call returns unless an
exception ends the process. That the queue is ever empty, or that a stopped worker
leaves, is not promised and not so: requests made after `stop()` are queued and slept
for like any other (clip_extractor.cpp:47-50, 82). `ServesItsCaller` is that
`ClipExtractor`, with its identifiers, result map, two condition variables and
clock, implements it, liveness included; the safety half is proved too.

### SamplePublisher (`SamplePublisher_proofs`)

`initialize`, `publish` with one step per word and the counter last, `cleanup`,
and `Crash` between any two steps; readers that map a segment, poll the counter,
and copy timestamp and samples word by word. `initialize` is `Open`, and the header in
three steps, `ClearHeader`, `WriteMagic` and `WriteFrames`: a reader that attaches in
between (`Attach` when the magic is right, then `ReadSize`) finds a period of no frames,
keeps that size and copies nothing for ever after. Rate, channels and bits, which are
written between the two, are left out with what readers make of them. Segments outlive
daemons: a crash leaves one behind, an orderly stop unlinks it. `disturbed` is history: whether the
segment has changed since the reader looked at the counter. The eight-byte copies of counter
and timestamp are single steps, as they are on the 64-bit targets the packages
are built for.

### PeriodStream

The abstract specification of the shared memory: no segments and no headers, only one
stream of periods that goes on over all runs of the daemon (`Begin`), and readers that
learn of a period (`Learn`), take its timestamp (`Stamp`) and its words (`Word`). A
reader learns of a period only if it is newer than all it has had (`newest`, history in
`SamplePublisher`), and no word it copies is older than that, as far as the period
reaches.

There is one exception, and it is in the code: a daemon that follows one that crashed
clears the counter over the samples (sample_publisher.cpp:54), every reader tells news
by `!=` (`__init__.py:331`, `audio_consumer.cpp:81`, `audiod-mon.cpp:331`), and so takes
the 0 for a period and is handed what it has had. `run` and `cleared` say exactly when:
only a `Start` after a `Crash` leads to a `Clear`, which marks readers; a marked reader
may take the cleared counter for news once (`LearnOfRestart`), or the next period
overtakes it (`Overtake`). What it copies then still obeys `Stamp` and `Word`. A reader
whose daemon ended in good order, or never crashed, is never marked.

`ReadsAreAStream` is `Stream!Spec`, for the instance that reads `run` off the segment
(one that is linked with no daemon has crashed) and `cleared` off the counter of the
reader's segment. What it says beyond the invariants is a property of the counter: each
run counts from 0 again and readers look only for a difference, and still, but for that
one time, none is handed an old period, or the same one again, as a new one. `NewsIsNew`
has no exception, and TLC refutes it (section 3). The refinement does not say that a
reader gets every period, and it does not: a counter that is back at the number last
seen passes for no news.

### Startup

What happens once, before any thread, one option or line a step: `next` is the
one to be read. `ReadOption` is the first pass over the command line, with the
options that end the program and the words `std::stoul` throws on; `OptionsRead` is
its end, where a file, if `-c` named one, replaces everything; `ReadLine` and
`LinesRead` are `load_config()`, where `FieldAt` says which setting the section and
key of a line stand for; `ReadAgain` is the second pass. `OpenDevice` is
`AlsaCapture::initialize()`, with a rate and a period that miss what was asked for
by `DeviceMisses`, and `InitializePipeline` is the sizes
`CapturePipeline::initialize()` computes (`gain_buffer_` grows on demand and is left
out). `CommandLineWins` compares the outcome with `LastSaid`, which does not follow
the passes: it looks for the last option, or else the last line, that says
something of a setting.

### ControlServer, Daemon (`MCDaemon`, `Daemon_proofs`)

`ControlServer` is the control thread as the rest of the daemon sees it: it
accepts, receives once, answers or waits for the clip worker (an instance of
`ClipServer`), and may die of an exception. `Alive` is that neither it nor the worker
has. It is the common core of two modules.

`Daemon` extends it and `Startup`: main() from the command line to the exit, the
order in which threads are started, told to stop and joined, the signal handler,
and the capture loop with overruns, recovery and fatal errors. `Overrun` also
stands for an error `snd_pcm_recover()` mends, for neither delivers anything. It
takes `BlockRecorder::stop()` to return, which `block_stop` shows to be
optimistic. `Forget` drops what nothing depends on after the start.

### ControlSocket (`MCControlSocket`, `ControlSocket_proofs`)

`ControlServer` with its clients. A connection has the words that have arrived
(`inbox`) and the segments still to be sent (`rest`); `backlog` is the order of
`accept()`. A client may leave at any time, which is how its time-out looks from
the daemon; what it has sent stays. `Line` is what one `recv()` returns,
`Verb`, `Key` and `Value` are what `parse_command()` makes of it, and each command
is an action with the whole of its handler: `SetGain`, `SetGainThrows`,
`SetDcRemove`, `SetUnknown`, `GetStatus`, `GetOther`, `InvalidCommand`, and
`AskForClip` with `GetClip`. The monitor is a client whose script depends on the
answers: it asks for the gain when it starts (`MonitorStarts`), and a key sends its
own gain, one more or one less (`KeyPress`), as the word `GainWord` writes it as; `send_command()` returns nothing
when it cannot connect or the connection is closed, and the monitor goes on.
`answered` and `foreign` are history.

### PcmChain (`MCPcmChain`, `PcmChain_proofs`)

`on_audio_chunk()` against `set_parameter()`. The formats, the processor (with
or without NEON) and the layout are a record `setup`, chosen once. Full scale is
scaled down: `MeterFull` stands for 2^15 and `Scale` for the ratio of the wider
formats to it; `GainUnit` stands for a gain of 1.0. Downmix, gain and meter work
on data that only the capture thread has, so each is part of one step, `Chunk` or
`FeedAndMeter`; `Boosted` says what the scalar code and the fixed-point NEON code
do to a sample that does not fit, `Vectored` which samples the NEON loop takes
(`Lanes` stands for the eight 16-bit or four 32-bit samples of a register).
The state of the DC filter is shared: a sample is `LoadX`, `LoadY`, `StoreX` and
`StoreY`, and between any two of them `ClearOne` may zero one half of the state of
a channel, for `SET dc_remove false` stores flag and zeros without a lock. `input`,
`boost` and `filtered` are history. A product is cut to an integer where the code
keeps the fraction of a float; the precision of `float` above 24 bits is not
modelled, nor are gains so large that a float does not fit its integer.

Definitions that a comment calls a mutant are not part of the model. Each is a
plausible slip in the definition below it; putting it in that definition's place
makes TLC refute the property `PROJECT.json` names.

## 3. What is checked

| Run | Bounds | What it shows |
|---|---|---|
| `sample_ring` | ring of 4, word of 8, chunks up to 3, 13 frames, 2 readers (symmetric) | `CleanFramesAreTheWindow`, `LappedFramesAreLater` and the refinement `ReadsAreHistory`: three laps, a wrap of the word, writes that straddle the end |
| `block_recorder` | rate 1, 3 bytes a frame, blocks of 3 s, threshold 4, word 32, periods of 4, 12 frames, a disk that fails | `FilesAreGapless`, `BlocksAreFull`, `EveryByteAccounted`, `FramesInOrder`, `DrainedWhenStopped`, `DropMeansBehind`, `StopReturnsOrWriterSleeps`, and the refinements `WakeupProtocol` and `FilesAreALog` |
| `recorder_wakeup` | ring of 16, threshold 4, periods of 2 and 3, no bound on how many | `LeavesEmptyRing`, `WokenByNextPush` |
| `sample_publisher` | 2 words, 1 reader, 4 periods of 1 to 3 words, 3 runs of the daemon | `CounterCoversData`, `UndisturbedCopyIsThePeriod` and the refinement `ReadsAreAStream`, across restarts and crashes |
| `clip_extractor` | 1 caller, offsets -3, -1, 0, 2, ring of 3 s, 2 requests at once, a request that nobody is there to serve gets 1 s old; requests and seconds without a bound | `PromptClipIsTheWindow`, `CallReturns`, `StopReturns`, and the refinement `ServesItsCaller` |
| `daemon` | command lines of up to two of twelve options, five files, a card that misses by -1, 0 or 1, 2 signals, 2 clips owed at once; connections and periods without a bound | `CommandLineWins`, `PeriodsFit`, `CallbackMeetsLiveParts`, `ShutdownCompletes`, `ClientsAreServed` |
| `control` | the monitor and one connection that runs each of ten scripts any number of times, gains of -1, 0 and 1 dB, 2 clip requests left over | `MonitorInStep`, `ClientsAreLetGo` |
| `pcm_chain` | six setups (`SaturatingSetups`), samples -2 and 1 of a full scale of 2 or 4, gains of a half, one and four, alpha a half, 2 lanes; periods and `SET`s without a bound | `FilterBounded`, `FedIsBoosted`, `PeakIsLoudest`, `DcOffsetDecays` |

Why the bounds are enough. In `sample_ring` a chunk of three against a ring of
four produces every kind of batch (whole, split, a full lap behind, touching the
end), thirteen frames pass each slot three times and wrap the word once; the
proof below removes the bounds. In `block_recorder` a frame of three bytes
divides neither the ring (16) nor the write buffer (8), so leftovers of every
length occur; 36 bytes wrap the ring twice and the word once, four blocks are cut,
and opens and writes may fail at any point of it, with the ring empty or full. The
refinement ties it to `RecorderWakeup`, which has no bound on time.
`pcm_chain` has each way to narrow a sample that saturates, periods with a vector
and a tail, one channel, two, and two cut down to one; -2 is the least 16-bit
sample, and a gain of four clips both inputs. Readers of the shared memory do not interact, so one
is all of them; four periods and three runs let a crash, a restart, an orderly end and
a counter that comes back to an old number follow one another. One caller is what the
program has, the control thread; two ids let one request be left over from a call that
came back with nothing while another is made, before the worker runs and after it was
told to stop, and a third would only wait in line. A ring of three seconds is shorter
than the longest clip, and the history before it shorter still. `MaxAge` bounds only
the waiting of requests for a worker that does not exist, before `start` or after it
has left. In `daemon` two clips owed is one that is served and one that waits; with no
bound on the connections a client may go on for ever. Two options are
enough for every order of `-c` and another one, for the same one twice, and for one
that ends the program after one that does not. In `control` the monitor and another
connection give every order at the head of the queue, and a third client could
only do what the second does again; the gains are the monitor's and another's, and
nothing compares them but for equality. Every bound is a
constant named in the module that uses it.

Runs that find a disagreement between the code and what it says of itself:

| Run | Statement | What happens |
|---|---|---|
| `block_stop` | `StopReturns` | `stop()` notifies without the mutex between the writer's check and its sleep; nobody notifies again and `join()` never returns. `StopReturnsOrWriterSleeps` of `block_recorder` shows that this is the only way to hang |
| `clip_window` | `ClipIsTheWindow` | the end of a clip in the past is ignored: the newest seconds are returned |
| `pcm_gain` | `GainSaturates` | on NEON a 32-bit sample boosted past full scale keeps its low bits and wraps around; the other setups are covered by `FedIsBoosted` of `pcm_chain` |
| `control_number` | `SurvivesCommands` | `SET gain` with a word that is no number, or with its number in the next segment: `std::stod` throws on the control thread and the daemon ends |

More statements are in the modules without a run; TLC refutes each, under the
constants of the module's passing run unless others are named.

| Statement | What happens |
|---|---|
| `RecoversFromStall` (RecorderWakeup) | a notification of `push()` is lost, the ring fills before the writer is asleep, and from then on every period is dropped without notifying (block_recorder.cpp:88), where block_recorder.cpp:31-32 wants the ring to outlast an fsync stall; `WokenByNextPush` shows that it takes a ring without room |
| `FramesStayWhole` (BlockRecorder) | a failed open throws away half a frame whose rest is still in the ring (block_recorder.cpp:152); every later frame is cut at the wrong byte |
| `EveryFormatFits` (Startup) | with `-b 24` the card delivers `S24_LE`, four bytes a sample, into a buffer of three (alsa_capture.cpp:43, 107), where alsa_capture.cpp:105 says "sized in bytes for any sample format"; `PeriodsFit` is the other formats |
| `GainMovesByOne` (ControlSocket) | README.md:194 has the monitor adjust "in 1 dB steps"; it sends its own gain plus one, whatever another client has made of the daemon's, or counted up from 0 if it never learned it |
| `FinishedReadIsConsecutive` (SampleRing) | a lapped read returns frames that are not consecutive, and `read()` does not say so |
| `AvailableIsStored` (SampleRing) | on a 32-bit `size_t` `available_frames()` falls to zero when `total_written_` wraps |
| `SamplesAreOnePeriod` (SamplePublisher) | a reader of the shared memory can get the words of two periods |
| `FileNamesDiffer` (BlockRecorder) | names have the resolution of a second and are taken at the open: one-second blocks overwrite each other (`BlockSeconds` 1, one frame a period) |
| `DropMeansBehind` (BlockRecorder) | holds in `block_recorder`; where four seconds of audio are no more than the flush threshold (8 kHz mono 16-bit) the writer sleeps while periods are dropped (`Rate` 2, one byte a frame, `FlushFloor` 8, periods of 3) |
| `SignalStops` (Daemon) | a signal between `std::signal` and `running_ = true` is overwritten, and nobody has to ask for clips for ever |
| `NewsIsNew` (SamplePublisher) | sample_publisher.hpp:18 calls the counter "monotonic, increments per period"; a daemon crashes, its successor clears the counter, and a reader takes the 0 for news and copies the samples it has had, with a timestamp of 0 |
| `OffMeansCleared` (PcmChain) | `SET dc_remove false` returns, and the period in progress writes the filter's state back; `DcOffsetDecays` shows that this is forgotten |

Three properties that hold name an exception. It is what the code does, and without
it TLC refutes them.

- `StopReturns` and `ShutdownCompletes` except callers that go on asking for clips for
  ever. `stop()` clears `running_`, which the queue does not look at
  (clip_extractor.cpp:47-50); a call made then comes back at once with nothing
  (l.61-66), its request stays queued, and the worker leaves only when the queue is
  empty (l.82). The pipeline is stopped before the socket (main.cpp:84-85), so that
  clients that keep sending `CLIP 0 10` keep the main thread in `joinClips`: the trace is
  the loop accept, receive, queue, reply on one side and a worker that always has one
  more to serve on the other. Requests have no bound in either run, so nothing else
  may hold the stop up; `ClientsAreServed` holds even then.
- `PromptClipIsTheWindow` moves the window back by the seconds that were not captured
  since the request, `job.age - job.heard`. With a capture thread that is up and loses
  nothing this is 0 and the clip is the window asked for. When capture was joined or died
  during the sleep it is not, and the clip of an earlier window is returned as a
  success; nothing in the reply tells.
- The same property speaks of the interval the samples are taken from. A file that
  holds only some of them is returned as a success too (`written`; only a warning in the
  log tells), where `sf_open` failing is an error.

`PeakIsLoudest` leaves out one sample, -32768 with NEON, whose `vabs` is -32768,
and says nothing about the scale of a 24-bit peak, which is not shifted.

With the block recorder on, the reply to `GET STATUS` is no JSON: line 572 of
capture_pipeline.cpp writes `"}"` where `"}` is meant, and the Python client answers
"Invalid JSON" (README.md:153-161 promises JSON). Replies are abstracted here, so no
run shows it.

Two statements of the documentation differ from the code without a run: the
README says that blocks are written "directly to the current output file" with
"no intermediate buffering" (README.md:258-262), and that file names are the
start time of the block (block_recorder.hpp:23); samples go through a ring and a
write buffer, and the name is the time of the open.

What the data abstraction leaves out of `MonitorInStep`: gains are whole numbers, and
`GainWord` writes no two alike. `GET STATUS` prints a float with six digits: a gain that
takes more would be learnt rounded.

Fairness. `SampleRing` and `SamplePublisher` have none: their properties are
safety. In `BlockRecorder` capture and writer are weakly fair, because the sound
card delivers periods for as long as it runs and the scheduler runs a thread that
can run; `stop()` finishes what it began but nothing makes it begin, and spurious
wakeups are allowed but never relied upon. `RecorderWakeup` assumes the
same; the fairness of `Capture` there is that of an endless recording. In
`PcmChain` the capture thread is fair for the same reason, and a `SET` that clears
the filter is carried through; nothing makes a `SET` come. In `ClipExtractor` the worker, the
callers and the clock are fair; requests and the stop are not, and whether a second is
captured is anybody's choice. In `Daemon` and
`ControlSocket` the daemon's threads are fair; no client has to come or to send
anything, nor a signal. That a silent client is let go rests on `SO_RCVTIMEO`, which
makes `recv()` return: `CloseSilent` is a step of the control thread. That clips come
back rests on the `Promise` of `ClipServer`, which `clip_extractor` checks of the
worker; the fairness of the worker in those two modules stands for it.
`ShutdownCompletes` and `ClientsAreServed` allow for an exception on the control
thread, which `control_number` shows to be possible, and on the clip worker.

Memory is taken to be sequentially consistent: the atomics of the code are acquire and
release, its fences order the stores the properties depend on (block_recorder.cpp:99,
sample_publisher.cpp:80), and where a property depends on their order, the two stores of
`write()` and the counter of `publish()`, the order is the program's. The readers of the
shared memory have no fence: that they load counter, timestamp and samples in the order
of their program is assumed.

Deadlock is not checked where a bounded behaviour ends or the daemon has
stopped; in `sample_ring` and `pcm_chain`, where somebody always has a step, it is.

## 4. What is proved

`SampleRing_proofs` proves four theorems for every capacity, word (any multiple
of the capacity), chunk size, number of frames and set of readers:

- `TypeCorrect`: `Spec => []TypeOK`.
- `CleanReads`: `Spec => []CleanFramesAreTheWindow`. A frame copied out of the
  ring is the one asked for as long as the frame that takes its slot has not been
  handed to `write()`. This is the margin a caller of `read()` has: the capacity
  less the age of what it reads, counting a write that has only begun.
- `LappedReads`: `Spec => []LappedFramesAreLater`. Past that margin a reader
  gets torn bytes or frames a whole number of laps later; never silence, an
  older frame, or one not yet captured.
- `ImplementsHistory`: `Spec => ReadsAreHistory`. Every step of writer and readers is
  a step of `SlidingHistory` or a stutter.

The assumptions are those of the module: `Capacity` and `WordMod` are positive
and `Capacity` divides `WordMod` (both are powers of two in the code), and
`NoReader` is not a reader.

Neither safety property is inductive. The invariant `IInv` adds
`Cursors` (each cursor is the number of frames it stands for, reduced by the
word; `total_written_` never counts more than that), `SlotsAreCurrent` (the slot
of a frame that has been written holds that frame or a younger one of the same
remainder), `WindowIsPublished` (a reader inside holds the mutex, asks only for
published frames, and its `start` agrees with the window modulo the capacity)
and `CopiesAreAcceptable` (what each copied frame may be). The argument: a slot
holds a frame no older than the one asked for and congruent to it; two different
congruent frames are a whole capacity apart (`SameModGap`); hence another frame
than the one asked for means that the writer has been handed one a lap later. The
order of the two stores of `write()`, position before total, is what makes
`Counted <= Published` hold, and `WindowIsPublished` rests on it. The refinement takes
the value of each copy from `CopiesAreAcceptable`, and one invariant more,
`CopiedIsRead`: what `read()` counts as copied has been copied. Each action
has its own case; the facts about remainders are proved from the definition of
division first. `IInv` was checked with TLC before it was proved.

`RecorderWakeup_proofs` proves, for every ring, threshold, set of period sizes,
and whether or not the disk fails:

- `TypeCorrect`: `Spec => []TypeOK`; in particular the ring never holds more than
  its capacity, although `push()` looks at the free space several steps before it
  uses it.
- `WriterDrains`: `Spec => []LeavesEmptyRing`. The writer leaves only an empty
  ring, and nobody is pushing when it does.

The invariant adds `CopyFits` (what is being copied fits beside what is stored:
only the writer acts in between, and it only makes room) and `StopOwnsPush` (once
`writer_running_` is cleared the capture thread has been joined, so nothing can
be pushed after the writer's last look). Because `BlockRecorder` is proved to
implement this specification, both are facts about the recorder.

`BlockRecorder_proofs` proves, for every rate, frame, block, threshold, word and
set of periods that `RecorderAssumption` and `RingAssumption` allow, and whether or
not the disk fails:

- `TypeCorrect`, `Gapless`, `FullBlocks`, `ByteAccount`, `RecordedInOrder` and
  `Drained`: the invariants `TypeOK`, `FilesAreGapless`, `BlocksAreFull`,
  `EveryByteAccounted`, `FramesInOrder` and `DrainedWhenStopped` of the run.
- `DropsOnlyBehind`: `Spec => DropMeansBehind`, if the ring has room for every
  period beyond the flush threshold. The code does not see to that: at 8000 mono
  16-bit frames a second the floor of the threshold is the whole ring (section 3).
- `ImplementsWakeup`: `Spec => WakeupProtocol`, every step of the recorder is a step
  of `RecorderWakeup` or a stutter.
- `ImplementsLog`: `Spec => FilesAreALog`, every step of the recorder is a step of
  `BlockLog` or a stutter.

The invariant follows the bytes from end to end. `Cursors`: each cursor is the
number of bytes it stands for, reduced by the word; from the ring being smaller than
the word it follows that `Used`, a difference modulo the word, is the difference.
`RingHolds`: byte *x* lies at *x* modulo the capacity from the moment `push()` has
copied it, before it is visible, until it is given back, because what is used and
what is pending never exceed the capacity. `BufferHolds`: the write buffer goes on
where the last frame ended that was written or thrown away. `DrainInStep` says
where in its drain the writer is, `PeriodsWhole` that periods are accepted whole
(hence the last frame on disk is whole when the ring is empty), `StopInStep` that
the capture thread is gone before the writer is told to leave, and `FileInStep` and
`FilesBehind` that the frames on disk are what was counted and lie before what is to
come. For the refinement, copying out of the ring is a stutter and giving the space
back is `Take`; what is done with files and frames is a stutter, `Continue` or
`Abandon`. For the log it is the other way round: `PushStore` is `Accept`, the way of
the bytes through ring and buffer is a stutter, and `BufferHolds` is what makes the
frames of a batch the next ones of the stream. That a batch never reaches past what was
accepted, and that the writer leaves a block only when less than a frame waits, is
`Done` written out: what is accepted and not passed is in the ring or in the write
buffer.

`SamplePublisher_proofs` proves, for every area, number of readers, periods and runs
of the daemon, crashes included, `TypeCorrect`, `CounterIsLast` (`CounterCoversData`)
and `QuietCopies` (`UndisturbedCopyIsThePeriod`). `SegmentInStep` holds of every
segment there ever was, also of those a crash has left half written: its counter
names a period whose samples are there or newer, and its timestamp tells whether a
later one has begun. `PublishInStep` is the segment between the timestamp and the
counter. `ReaderInStep` is what the reader's segment still has of the period it has
seen. A step of the publisher, a crash or a restart only makes words newer and
resets or renews the timestamp (`Grows`), and a reader's claim survives that; that is
one lemma, and the readers need not be looked at action by action.
What a reader copies is compared with the newest period it has learned of, not with
the one it has polled, so that the claim lasts over a cleared counter.

`ImplementsStream` is `Spec => ReadsAreAStream`. `Open` is `Start`; `ClearHeader` is
`Clear` when the segment is one a crash has left, and a stutter when it is new;
`PublishBegin` is `Begin`, `PublishEnd` is `Overtake`, `Cleanup` is `End`, `Crash` is
`Crash`; `ReadSize` is `Attach`, `Poll` is `Learn` or `LearnOfRestart`, `ReadStamp` and
`ReadWord` are `Stamp` and `Word`; all else is a stutter. It needs `StreamInv`: a header
with no period has the counter 0 and only such a header does, no header names the period
that is being written, and where a header names the newest period a reader has had, it
holds the counter the reader kept (`ReaderInStream`): this is why a counter that differs
means a newer period although numbers come again, and why one that is 0 and differs means
that it has been cleared. `FreshInStream` is that a segment has no counter until the
run that created it writes its header, so that the first `ClearHeader` of a segment
clears nothing any reader has seen.

`ClipExtractor_proofs` proves, for every set of callers, of offsets and of ids and
every ring, `TypeCorrect` and `PromptClip` (`PromptClipIsTheWindow`); and
`ImplementsServer`, the safety half of `ServesItsCaller` (`Server!Spec`), if there is
one caller, as there is in the daemon. `RingInStep` is the account of the ring: it holds
what it held when a request was made and what was heard since, up to its length, for the
request in work and for each in the queue, whichever seconds were captured.
`WorkerInStep` is the account of the time, what is left to sleep and the age of the
request against its end, and says that what was extracted is the end of what the ring
holds until it is filed; the two together are the window. `IdsApart` says that no id is in
use twice, though they are given out again; so the lone caller, which waits for the last
request made (`LastAsked`), comes back only when nothing is pending. With two callers
this is not so, and `Server` is not what they see.

`Daemon_proofs` proves, for every command line, every file, every card, and any number
of signals and connections:

- `TypeCorrect`: `Spec => []TypeOK`, from the first option to the exit.
- `SettingsAsSaid`: `Spec => []CommandLineWins`.
- `BuffersFit`: `Spec => []PeriodsFit`.
- `LiveParts`: `Spec => []CallbackMeetsLiveParts`.

`SettingsSoFar` is `CommandLineWins` for what has been read so far: none of the lines
and the first options, then lines and no option, then all the lines and the first
options again; `OptionSaid` and `LineSaid` carry `LastSaid` over one more of them.
`SizesGranted` says that the buffers are made of the period that was granted and not
of the one asked for. `PartsInPlace` names the stretch of `run()` in which the capture
thread may be in the callback (`Capturing`) and the longer ones in which recorder and
segment are there (`Recording`, `Sharing`); the proof looks at each step of `run()` once.
It needs that before the handlers are installed no thread runs, for a signal then
ends the program at once, and that nothing is taken away before the join.

`ControlSocket_proofs` proves, for every set of connections and of scripts, whatever
their words are, every range of gains and every way to write them down that tells two
gains apart (`ControlAssumption`):

- `TypeCorrect`: `Spec => []TypeOK`. The connections that are not free are those in
  the backlog, the control thread never serves nobody, and the monitor waits exactly
  while its connection is open.
- `MonitorShowsGain`: `Spec => []MonitorInStep`.

`LinksInStep` adds that a connection is in the backlog once, so that taking the first
away leaves the others and only them. For the gain, `CommandOnItsWay` says that what the
monitor has sent is still to be sent or has arrived, in one piece and alone on its
connection; `MonitorLine` concludes what `parse_command()` makes of it, so that
the gain set is the gain shown. `ReplyInStep` is the interval between the handler and
the reply: the reply is about the gain as it is, because the one thread that could
change it is sending the reply. The rest is that whatever closes the monitor's
connection without an answer, or lets somebody else set the gain, leaves a mark in
`answered` or `foreign`. A `CLIP` waits in the handler, but the monitor never sends one
(`ReplyInStep` needs that too).

`PcmChain_proofs` proves four theorems. `FilterNeverRunsAway` is
`Spec => []FilterBounded`, for
every full scale, format, layout, set of inputs and gains, and every `DC_ALPHA`
between a half and one: the state of the DC filter stays within full scale
/ (1 - `DC_ALPHA`), 1000 times full scale for the code's 0.999, plus the rounding
of the model. Bounding `y` alone is not inductive, for |x - x' + alpha y| may be
twice full scale more than alpha |y|. The invariant follows what is left of the
state when a sample has been taken out of it, `Rest` = alpha y' - x': it stays
within alpha / (1 - alpha) of full scale because the sample that is added is the
one that is subtracted next. A clear in the middle of a sample leaves one of the
two halves alone; both are smaller than that bound, which is where alpha >= 1/2 is
used, and `FilterState` has a conjunct for each place between two steps of a
sample. Whether y overflows the integer it is cast to before it is clamped is
then arithmetic: 1000 times fits for 16-bit samples in `int32_t` and for 32-bit
samples in `int64_t`; for 24-bit samples `int32_t` has room for 256 times, which
an uncleared filter (twice full scale) does not come near.

`TypeCorrect` is `Spec => []TypeOK`: whatever is fed consists of words of its
format. `PeakLoudest` is the action property `Spec => PeakIsLoudest`: the reported level is
that of the loudest sample, however a period is divided between the NEON loop and its
tail. `FedBoosted` is `Spec => []FedIsBoosted` for the setups that saturate
(`SetupsSaturate`): it is false of 32-bit samples with NEON, which wrap (`pcm_gain`), and
of a downmix of more than two channels, whose stride is two. `FeedState` keeps what was
read and the gain it was read with next to the period until the filter takes it over;
`SET` may change `gain` in between, but not `boost`.

Every proof uses the named assumptions of its module, which TLC evaluates in the runs,
and nothing else; a theorem that needs more says so in its `ASSUME`. Each invariant was
checked with TLC before it was proved.

Only model-checked: liveness, for which the prover has no rules (fairness and
`ENABLED`): `StopReturnsOrWriterSleeps`, `WokenByNextPush`, `CallReturns`,
`StopReturns`, the liveness half of `ServesItsCaller`, `ShutdownCompletes`,
`ClientsAreServed`, `ClientsAreLetGo` and `DcOffsetDecays`.

## 5. What is not modelled, and the plan

Not modelled:

- The logger: it formats, and drops a line rather than wait for its mutex. That the
  signal handler calls it is undefined behaviour of the C library and is listed as a
  hazard.
- The RMS level, the frame counters and the text of the JSON replies: formatting of
  values nothing else reads. `GET STATUS` is its gain, which the monitor reads.
- Of the control protocol the case of words, lines beyond the 1023 bytes of the
  buffer, and words that `std::stod` converts in part, as it does `1x`. The numbers of
  `CLIP` are in `ClipExtractor`, where a missing one is the 0 it is in the code.
- Of the configuration the trimming of lines, comments, long options, the width of
  `uint32_t` and numbers converted in part. Cutting to `uint16_t` is modelled.
- Of the shared memory a restart with other sizes under readers that go on with the
  old ones (sample_publisher.cpp:35), and rate, channels and bits of the header.
- Of the negotiation with the card everything but rate and period; libsndfile's
  encoding; priority and affinity of the capture thread.
- Two daemons on one socket path or one segment at the same time.
- The display, command lines and `sudo` of the examples.

`PcmChain` takes samples to be packed as the program counts them, which
`EveryFormatFits` shows not to be so for 24 bits: what it says of them holds of a
card that delivers three bytes a sample. `PROJECT.json` gives the status of every
component.

Done so far, in this order: SampleRing, BlockRecorder, ClipExtractor,
SamplePublisher and Daemon, because they hold the concurrency; RecorderWakeup, BlockLog,
SlidingHistory and PeriodStream, the abstractions of the recorder, the ring and the
shared memory; PcmChain; ClipServer and ControlServer, the abstractions Daemon is
composed of; Startup; ControlSocket with its clients; the proofs of section 4. What is
left is a second daemon on the same socket path and segment.
