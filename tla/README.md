# Verification of ymsdr

ymsdr receives ADS-B, AIS and analogue radio from a software defined radio,
decodes it, writes the results to files and uploads them by FTP. This directory
holds TLA+ models of its concurrent core, TLC configurations that check them on
small instances, and TLAPS proofs for every value of their constants.
`PROJECT.json` lists components, runs, mutants, hazards, findings and theorems,
and maps each definition to the lines it models.

Check one model with `tlc -config MCAdsRing.cfg MCAdsRing.tla`, one proof with
`tlapm AdsRingProofs.tla`.

## 1. The system

`app/sdr.cpp` reads `sdr.conf`, installs the signal handlers and calls
`sdr_master_process_cycle`, which forks two processes.

| Component | State | Operations | Interacts with |
|---|---|---|---|
| Process supervision (`proc/`, `signal/`) | `sdr_reap`, the pipe `sdr_fd[0]`, `bExit` | fork, SIGCHLD handler, loop of the master, loop of the upload process | kernel; upload process and worker by pipe and SIGCHLD |
| Upload (`app/sdr_string.cpp`, `msic/sdr_ftp_session.cpp`) | the recordings directory | traverse, test whether a file is open, upload with resume, remove | the worker, through files; the FTP server |
| ADS-B worker (`mode/ads`) | the ring of sample blocks, aircraft list, ICAO cache, CPR pairs | `rtlsdrCallback`, loop of `modesAds`, `detectModeS`, `backgroundTasks` | librtlsdr thread by the ring under `data_mutex` |
| AIS worker (`mode/ais`) | sample FIFO, message parts, ship database, connections | device callback, `NMEA::Receive`, `DB::Receive`, `TCP::Server::Run` | threads by FIFO and connection mutexes |
| Analogue worker (`mode/wxpt`) | queues between some ten threads, modems, audio streams, WAV files | one `run` per thread, commands of `CbServer`/`CbSDR` | threads by `ThreadBlockingQueue` and flags |
| Vendored (`json.hpp`, `liquid.h`, tinyxml, RtAudio) | | | |

`modesAis()` of this build does not read a command line: it sets its own arguments,
`-gr -o 5` (`AisMode.cpp:218`). A network or file device, the TCP listener and the
web viewer with its ship database are started by other options, which the same
function handles. They are modelled as they run when an option starts them; this entry
point does not.

What makes each of them hard, and what makes it correct:

* **Supervision.** SIGCHLD merges, and comes of stopped children too; any call may
  fail or be interrupted, any process may die. Correct: children are reaped, the upload
  process outlives the worker that makes the recordings, then ends, and the master
  leaves last.
* **Blocking queue.** Two condition variables, timeouts, spurious wakeups,
  flushes from a third thread. Correct: it is a bounded FIFO and no thread sleeps
  while it could proceed.
* **ADS-B ring.** The device does not wait: a late decoder loses the oldest
  block. Correct: index, count, time stamp and statistics agree about which.
* **AIS messages.** Sentences from several talkers, lost, repeated and mixed.
  Correct: what is put together are the parts of one message, all and in order.
* **Demodulator.** Raw pointers to modems go round three threads while commands
  replace them. Correct: nothing is used after it is deleted, and a teardown ends.
* **Upload.** A file may be being written, a transfer may break off. Correct:
  what is removed was uploaded whole.
* **AIS FIFO, ship database, server.** A block is read outside the lock; a ring of
  points is overwritten under live references; sends are partial, and several receivers
  broadcast. Correct: the block read is stable, a path contains only points of its
  ship, a client receives whole messages, those of a sender in order.
* **SDR and audio threads.** Settings are handed over by flags that are cleared
  after use; command queues hold one item. Correct: the last setting is applied.

The hazards, each at its line with the properties that would catch it, are in
`PROJECT.json`.

## 2. The plan

| Order | Module | Subject | State |
|---|---|---|---|
| 1 | `FifoQueue`, `BlockingQueue`, `BlockingQueueProofs` | the queue under every pair of threads, implementing an abstract FIFO | done |
| 2 | `Supervisor`, `SupervisorProofs` | processes and signals | done |
| 3 | `AdsRing`, `AdsRingProofs` | sample ring of ADS-B | done |
| 4 | `MessageParts`, `NmeaAssembler`, `AisWorkerProofs` | multi-line AIS messages, implementing an assembler for each source | done |
| 5 | `Demodulator`, `DemodulatorProofs` | three threads of a demodulator, modems and teardown | done |
| 6 | `AisFifo`, `AisDevice`, `AisDeviceProofs` | the sample FIFO of AIS, with the threads of two devices | done |
| 7 | `RecentVessels`, `AisDatabase`, `AisWorkerProofs` | list of ships and ring of path points, implementing the vessels heard last | done |
| 8 | `Recording`, `Upload`, `UploadProofs` | recordings cut into files, beside the process that uploads them | done |
| 9 | `TcpListener`, `TcpListenerProofs` | connections and send buffers of TCP.cpp under broadcasts | done |
| 10 | `DeviceThread`, `SquelchLock`, `AudioThreads` | flags, refresh, command queues | planned |
| 11 | `NmeaReceive`, `AircraftList` | line automaton; ICAO cache and CPR pairs | planned |

Abstract specifications worth stating, all done: the FIFO of a blocking queue, the
vessels heard last, an assembler that keeps the parts of each talker apart.
*Done* means modelled, checked, and every safety property of its runs proved. What
the plan has left are orders 10 and 11.

## 3. The modules

**`BlockingQueue`** (`ThreadBlockingQueue.h`). One step is what a thread does
while it holds `m_mutex`. `push` and `pop` are split at the wait: `Push` and `Pop`
return or park, `PushResume`/`PopResume` are a notified thread holding the mutex
again, `PushTimeout`/`PopTimeout` the evaluation of the predicate at the deadline.
`notFull` and `notEmpty` are the threads parked on the two condition variables;
`notify_all` empties one of them. The unsigned timeout is one of three classes.
`accepted` and `delivered` are history variables.

**`FifoQueue`** is the promise: an item accepted at one end, delivered at the
other, everything dropped by a flush, a bound that only grows. `BlockingQueue`
implements it with `cap <- max` and `left <- Len(accepted) - Len(queue)`, the
number of items that have left the queue.

**`Supervisor`** (`sdr_process_cycle.cpp`, `sdr_signal.cpp`). The master moves from
`sigsuspend` ("waiting") through the handler ("reaping") and `sleep(1)`
("sleeping") to the body of its loop. The handler of another signal ("handling") runs
with the mask of `sigsuspend`, so that a SIGCHLD may interrupt it ("nested"), more
than once. `pending` is the one pending SIGCHLD that several events share: the end of a
child, and `StopOrContinue`, as the handler is installed without `SA_NOCLDSTOP`
(`sdr_signal.cpp:55`) and counts every delivery. `changes` counts the stops and
continuations; the properties speak of it, no action but its own reads it. `readers` and `writers` are the holders of the two ends of
the pipe, so that end of file and SIGPIPE follow from who has closed what:
the worker inherits the master's write end. `fork` may fail, the read
of the pipe may be interrupted, the master may be killed.

**`AdsRing`** (`dump1090.cpp`). A block of samples is its rank in the stream and
a time stamp counts blocks. `DeviceFills` is librtlsdr, which reuses a buffer
once its callback has returned. Time stamps are numbers here: the `int` product that
corrects them in the code (`dump1090.cpp:753`) overflows beyond 2730 blocks lost at
once, of which the model says nothing. The loop of `modesAds` is split where it takes
and releases `data_mutex`; `Locked` says it holds it.

**`NmeaAssembler`** (`NMEA.cpp`). One action per way out of `submitAIS`. A payload
is the sentence it came in; whether `Message::validate` accepts the
result is nondeterministic, and so is a wrong checksum. `out` is what the last
step sent. `Select`, the loops over the vector that keep or erase the parts with a
given channel and talker, is a recursive function with a set as its parameter and
returns what `SelectSeq` returns; it is not `SelectSeq` because the provers cannot
unfold that. **`MessageParts`** is what the assembler promises: parts wait for each
source by itself, a part is appended where the result is in order and otherwise
begins anew or is dropped, and a message leaves whole or not at all. There is no
search and no clean in it. `waiting` is mapped to the parts of the queue from each
source, `sent` to those parts of `out` which are from the source of its last. That
parts of another talker come with them is the finding below.

**`Demodulator`** (`DemodulatorPreThread.cpp`, `DemodulatorWorkerThread.cpp`,
`DemodulatorThread.cpp`, `DemodulatorInstance.cpp`). The preprocessor's pass is
split at every read of shared state: taking a block, the decision about a
command, the two blocking pushes, the results. A modem is its number in the
order of `makeModem`, a kit the modem and the number of the build. `Teardown` is
the list of calls that `DemodulatorInstance::terminate` makes, one step each. A
block is near or far from the wanted frequency and has a sample rate; the
shift of the oscillator, the samples, `initialized` and the modem settings are left
out. The three threads have started and a bandwidth has been set before the model
begins: a `terminate()` before that dereferences queues that `run` has not set
yet. The queue of input blocks is left out, as every pop of it gives up after 50 ms
and every push to it does not wait. The audio thread is not part of the model.

**`AisFifo`** (`FIFO.h`) has the variables of the FIFO and one operator for what each
of its calls does under `fifo_mutex`; it has no behaviour of its own. A byte is its
rank among those accepted, so that a property can say which bytes a block holds.

**`AisDevice`** (`RTLTCP.cpp`, `FileRAW.cpp`) composes it with the three threads
that use it: the reader, `Run`, and the main loop of `AisMode.cpp`, which calls
`Stop`. `kind` selects the class. The network device reads bytes of any number,
fails, and drops what the FIFO refuses; the file device pushes a block at a
time, again and again, until it fits. `isStreaming()` and the call that follows it are
separate steps, and so are the return of `Wait` and the test of `eoi`; `late` remembers
a wait that timed out while the file was still read. `Run`
uses the block ("sending") without the mutex. Left out: the `loop` option of
the file device, sending the protocol of the network device and its
reconnecting, and the text format, whose blocks have one byte.

**`AisDatabase`** (`DB.cpp`). `mtx` makes a message one step: `ReceiveKnown` or
`ReceiveNew`, which together are `findShip`, `createShip`, `moveShipToFront`,
`updateShip` and `addToPath`. Ships are slots of an array with `next` and `prev`;
points have the vessel, its count and the next older point. A message is a
position, or none, and whether its type is kept in paths; a position is on a
line, where neighbours are within 100 m of each other; a long-range position that
`updateFields` refuses is a message without one. `former` is a history variable: the
points made before their vessel entered the database for the last time. `PathOf` is
the walk of `getSinglePathJSON`.

**`RecentVessels`** is the promise: the last `N` vessels heard, the most recent first.
`AisDatabase` implements it with the vessels of the first `count` ships of the list.

**`Recording`** (`DemodulatorInstance.cpp`, `AudioSinkThread.cpp`,
`AudioSinkFileThread.cpp`, `AudioFileWAV.cpp`). The command thread starts and stops
a recording, as `startRecording` and `stopRecording` do up to the join; the sink
thread takes a block and writes it. `sink` is the thread with its `AudioFileWAV`: the open
file, its size, and what its next name is made of. `writeToFile` is `SinkWrite`
when the block fits, else `SinkCut` and `SinkRest`, between which no file is open.
`SinkTake` stands for `pop`, `inputChanged` and the time limit, and so for
everything that closes a file before a block. Sizes count samples of the capacity of
one file; a frame is its rank among those written, a name the second it was made in,
its sequence number and the index that `getOutputFileName` found free. A block comes
whenever the thread waits for one: the queue of 1000 blocks, which drops what it
cannot hold, is left out, as are the header's fields, the options for silence, under
which a block may not come, and a label in the name. There is one recording at a
time, as the commands end one demodulator before they make another.

**`Upload`** (`sdr_string.cpp`, `sdr_ftp_session.cpp`) extends it with the upload
process: one action for each thing it asks of the disk or of the server. `upload`
is where it is in the traversal and in `FtpUpload`; `server` the files of the FTP
server, which is modelled from what the calls of libcurl ask of it: STOR replaces
a file, APPE appends, SIZE tells a length, and each may break off on its way
or at its end. Either process may die and the program be started again.
Three things spoil a file, and `spoilt` remembers them: a name used twice (*reused*),
`is_file_open` not seeing that a file is being written (*unseen*), a writer that
died before it closed the file (*unclosed*). `UpTestBlind` stands for every way in which
the test can answer wrongly: `popen` fails, `lsof` is missing or is killed, `fgets` is
interrupted, a row is longer than its buffer. The model begins with the upload
switched on (`info.upload`) and a directory that can be opened. `home` remembers where each frame was written, and
whether it was lost at a cut in stereo.

**`TcpListener`** (`TCP.cpp`, `Network.cpp`). One step is one operation of a
`ServerConnection` under its lock, and `SendAll` is split at `isConnected`, which takes
none, at `Send` and at `Close`. Each of `Senders` is the thread of a receiver: all
receivers are connected to the listener (`AisMode.cpp:609`). `reached` remembers the
broadcasts that returned true. The server thread goes through its phases slot by
slot. `Accept` takes a caller into the first free slot, or `accept` finds nobody or
fails, and whoever calls waits; `Start` takes no lock, but sets the socket last, before
which nobody else touches the slot, and so is one step. The caller hangs up when it
likes, and the socket takes any part of what is offered. Time is left open:
`cleanUp` may find any client inactive. What clients send is not used by
the listener. The start (`bind`, `listen`) and the end of the server are left out, and so
are the slots that an event stream of the web viewer locks.

## 4. The runs

| Run | Instance | Shows |
|---|---|---|
| `blocking_queue` | 2 producers, 1 consumer, bound 1 raised to 2, 2 items each | `NoLostWakeup`, `ImplementsFifo`, `PushesGoOn` |
| `supervisor` | 2 other signals, 3 stops or continuations | `ZombiesAreCollected`, `LeavesLast`, `UploadOutlivesWorker`, `UploadFollowsWorker`, `CleanShutdown` |
| `ads_ring` | 4 slots, 11 blocks | `TimestampExact`, `EveryBlockCounted`, `OutstandingIntact`, `DecodedInOrder`, `EveryBlockLeaves` |
| `ads_ring_end` | 4 slots, 2 blocks | finding: `NoWaitForEndedReader` is violated |
| `nmea_assembler` | 2 channels, 2 talkers, 2 message IDs, up to 3 parts, 3 waiting | `WaitingPartsAreAPrefix`, `SentMessageIsComplete`, `ImplementsParts` |
| `nmea_two_talkers` | the same | finding: `SentMessageIsPure` is violated |
| `demodulator` | 2 rates, 4 blocks, 2 types, queues of 2, 1 and 1 | `NothingDangles`, `KitOfItsModem` |
| `demodulator_stop` | 1 rate, 5 blocks, 1 type, queues of 1 | `ShutdownCompletes` |
| `ais_device` | both devices, 2 blocks of 3 bytes, reads of 0, 1, 2 or 5 bytes, 16 bytes | `FrontIntact`, `FileReadToTheEnd`, `DeviceStops` |
| `ais_database` | 4 vessels, 3 ships, 3 points, 8 messages | `ListIntact`, `PathIsItsOwn`, `KeepsTheRecent` |
| `recordings` | files of 5 samples, 2 blocks of 3 (mono) or 2 (stereo), 2 seconds, 1 fault | `EveryFrameIsKept`, `RemovedIsOnServer`, `EveryFileLeaves` |
| `tcp_listener` | 2 senders, 2 slots, 2 callers, 2 messages of 2 bytes, 3 bytes waiting at most | `StreamIntact`, `NoMessageMissed`, `LeaversAreClosed` |

Bounds. With two producers and a bound of 1 a notification can be missed and a
bound raised while one waits. `PushesGoOn` does not rest on the number of
calls: it says that some push is accepted. Of a single push that waits the code
promises nothing, since another producer may take the room after every pop
(neither `m_mutex` nor `notify_all` is fair), and no property says it returns. Three
stops or continuations are what it takes to make the master command the upload process
(the first), leave (the second) and count past both numbers (the third, `Missed`). Four slots and eleven blocks overrun the ring more
than once and wrap both indices. Three waiting parts are a message of three with
its last part, or two sources at a time. Four blocks are the fewest in which a
modem is made, runs, is ordered anew and is replaced; the code's queues of
100 are cut to 1 so that they fill. With five blocks the preprocessor and the
worker do come to wait for each other (a block out of range ends the pass at
`DemodulatorPreThread.cpp:163`, before the results are taken), which only
`terminate()` resolves. Reads of 1, 2 and 5 bytes leave a block of three begun, end
it exactly, or end it and begin the next; sixteen bytes go round the buffer
more than twice. Eight messages fill the database, evict a vessel, hear it again and
write the ring twice, while points of its first visit are still there; the
vessels are symmetric, the positions are not. Two blocks are what a cut takes: of mono the second
is split over two files, of stereo it loses a frame. A recording stopped and started
within the second, or cut by the time limit in the next, makes the names meet that
`getOutputFileName` keeps apart, and one fault lets a process die or the open-file test err
at any point; transfers break off as often as they like. A second caller takes the
slot of one that left, while a `SendAll` is anywhere between its three calls and
another passes it; a slot holds one message and the rest of another, so that it refuses
a third. `LeaversAreClosed` does not rest on the bounds: the server thread alone
closes who has hung up, however many messages and callers there are.

Every run has `CHECK_DEADLOCK FALSE` only where the system may stop: the master
returns, the device stops, a demodulator is torn down, `Stop` returns, the last
message of the instance has been received, the worker or the upload process has ended.

Fairness. `BlockingQueue!FairSpec` assumes that a thread which may proceed does
so, that a timed wait ends and that the consumer keeps popping, as the loops of
all threads in `mode/wxpt` do. `Supervisor` assumes that the kernel runs the
master and the upload process; nothing forces the worker to end or a stopped child to
be continued. `AdsRing` assumes
the decoder runs; neither a block nor a spurious wakeup need come.
`Demodulator` assumes each thread runs and a teardown that has begun goes on.
`AisDevice` assumes that its threads run, that a wait ends after its 1.5 s, that the
main loop, which looks at `isStreaming` in every pass, runs, and that reads return:
a socket read has a timeout, a file has an end. A read of standard input that
blocks is not covered by `DeviceStops`, and would indeed keep `Stop` waiting.
`Upload` assumes that the upload process runs, and that a transfer and a removal which are tried
again and again succeed at last; without that no file could leave. The worker
need do nothing. `TcpListener` assumes that the server thread runs, as it does not
block: nothing of `accept`, the callers, the sockets and the senders. That what waits
for a client drains is therefore not promised; it depends on the client.

## 5. Findings

* `NoWaitForEndedReader`: when `rtlsdr_read_async` returns, `readerThreadEntryPoint`
  signals "so threads don't mutually lock" (`dump1090.cpp:337`); the decoder
  wakes, finds no block and waits again, for ever, since nothing sets
  `Modes.exit`.
* `SentMessageIsPure`: `submitAIS` adds the payload of every waiting part on
  the channel (`NMEA.cpp:109`), also of another talker, although its comment
  says that the message is complete and in the right order.

What the models show besides, which no line of the repository denies outright:

* A SIGCHLD stands in `sdr_reap` for a child that has ended, but one that is stopped or
  continued raises it as well (`sdr_signal.cpp:55`, `:103`). At the first such signal the
  master commands the upload process to end while the worker runs, at the second it
  leaves (`sdr_process_cycle.cpp:87`). If it counts past 1 and 2 in one `sigsuspend` it
  does neither, and the upload process outlives everyone (`Missed`). The table says
  that the signal comes when a child exits (`sdr_signal.cpp:34`).
* `RAWFile::Run` takes a wait that failed and `eoi` for the end of the file
  (`FileRAW.cpp:66`) and does not look at the FIFO again. A source that pauses for
  1.5 s before its last block (standard input may, a file on disk hardly) loses that
  block. `FileReadToTheEnd` holds of all others.
* A stop that comes before the sink thread has begun is forgotten (`IOThread.cpp:43`):
  `stopRecording` then waits in its join for ever.
* A file whose name was used before, by a file that has been uploaded and removed,
  overwrites that one on the server. `inputChanged` (`AudioSinkFileThread.cpp:78`)
  closes a file and keeps its name, so that any change of channels or sample rate can do it.
* A stereo block that does not fit loses frames at the cut: the first loop ends at
  half the count it is given, the second begins at the whole of it (`AudioFileWAV.cpp:86`, `:99`).
* `SendAll` closes whoever is in the slot after `Send` refused, also a caller that has just
  come, and leaves out the slots after it (`TCP.cpp:281`).

## 6. The proofs

**`BlockingQueueProofs`**, for any sets of producers and consumers, any bounds and
any `MaxCalls`:

* `TypeInvariant`: `TypeInv`, the type invariant with the parts it needs, is
  inductive; `TypeCorrect` is its consequence for `TypeOK`.
* `WakeupsCorrect`: `NoLostWakeup /\ WithinBound` (the bound, which the runs check as
  the guard of the abstract `Accept`). Inductive together with
  `TypeInv` and `CallsMatch` (a parked thread is in a call): every step that makes
  a predicate true empties the set of threads that wait for it.
* `QueueIsTheRest`: `HoldsTheRest`, every item waiting was accepted.
* `FifoImplemented`: every step maps to a step of `FifoQueue` or a stutter.

**`AdsRingProofs`**, for every number of slots of at least 2 and of blocks:

* `RingCorrect`: `RingInv` is inductive: the ready slots, counted from `iDataOut`,
  hold the last `iDataReady` blocks called, consecutive, and the time
  stamp plus the lost blocks is the rank of the oldest one. That is what makes
  the correction of the time stamp exact.
* `TypeCorrect`, `StampsCorrect`, `BlocksCounted`, `BuffersIntact` and `InOrder`
  follow from it: `TypeOK`, `TimestampExact`, `EveryBlockCounted`,
  `OutstandingIntact` and the action property `DecodedInOrder`.

**`SupervisorProofs`**, for any number of other signals and of stops and
continuations. `ZombiesAreCollected` and `UploadOutlivesWorker` are not inductive: the second holds because a command in
the pipe follows the end of the worker, or a stop or continuation. With none of
these it holds because the master writes after one delivery, to a pipe that the upload
process still reads: the child that ended is the worker. `SupervisorInv` says so by
counting: a delivery, counted or pending, stands for a child that has ended or for a
change (`DeliveriesAreChanges`), a command for a signal or a delivery (`Commands`);
with it go the order of the forks and who holds the ends of the pipe
(`PipeEnds`). That the master counts two deliveries before it leaves gives `LeavesLast`: with no
change both are children, with one at least one is. Theorems: `TypeCorrect`, `ChildrenAreCollected`, `MasterLeavesLast`,
`UploadStopsLater`.

**`DemodulatorProofs`**, for any rates, queue capacities and numbers of blocks.
`NothingDangles` needs to know that what is deleted is older than everything still
on its way: the worker numbers its builds, a later build has the same or a later
modem (`LaterBuildLaterModem`), and from the demodulator thread back to the waiting
results, by way of the blocks and the preprocessor, builds are met in order
(`BuildsInOrder`). What is freed is older than what the demodulator thread holds
(`FreedIsOlder`). Theorems: `TypeCorrect`, `KitsKeepTheirModem`,
`NothingIsUsedAfterDelete`.

**`AisDeviceProofs`**, for every block size, FIFO size and length of a read. The bytes
from head to tail are the unread ones, in order and round the end of the buffer
(`FifoInv`; its lemmas say what `Push` and `Pop` do to it); `ControlInv` relates the
three threads: a block that is sent is unread, and a wait fails with the file ended only
on an empty FIFO. Theorems: `TypeCorrect`, `BlockStaysIntact`, `FileIsReadToTheEnd`.

**`AisWorkerProofs`** has two parts. *The assembler*, for any channels, talkers,
identifiers, counts and numbers and any number of waiting parts. The laws of
`Select` come first: the empty sequence, one element more (`SelectAppend`), only
members of the set (`SelectOnly`), twice is once with both conditions
(`SelectTwice`). They are proved from the recursion by a least counterexample and
say what cleaning and pushing do to the parts of each source (`FromClean`,
`FromPushed`). `AssemblerInv` is inductive: from every source nothing waits, or the
beginning of one message without its last part; that is why a part whose number is
one more than the one `search` finds (`AcceptedIsLonger`) makes a longer beginning,
and why one that it does not continue would not be in order (`InOrderContinues`).
Theorems: `AssemblerTypeCorrect`, `PartsWaitInOrder`, `SentMessagesAreComplete`,
`PartsImplemented` (the refinement of `MessageParts`, one lemma for each way out of
`submitAIS`), and two about what is sent beyond a message's own parts:
`ChannelsAreApart`, never parts of another channel, and `OneTalkerIsPure`: a
receiver with one talker is free of the finding `SentMessageIsPure`.

*The database*, for any vessels, ships and points. `ListInv` says there is
an order of all ships that `first`, `last`, `next` and `prev` follow, the ships in use
in front, no vessel twice. `MovedToFront` shows what `moveShipToFront` makes of
that order. `PathsInv` orders the points by how soon they are overwritten (`Life`): in
that order the counts of a vessel's own points rise, its old ones come before
them, and each own point links to the one before it or, once that is overwritten,
to something a reader of the path does not take for an own point (`LeadsTo`).
`LinkLasts` is why a link stays good when the point it leads to is written over.
`Nth` and `PathOf` are recursive functions: a function that
satisfies the recursion exists and is the only one, by a least counterexample
(`OneOrder`, `WalkIsPossible`), and the walk meets the own points from the newest
on (`WalkKeeps`). Theorems: `TypeCorrect`, `ListStaysIntact`, `PathsAreTheirOwn`, and
`RecentAreKept`, the refinement of `RecentVessels`.

**`UploadProofs`**, for every capacity of a file, any blocks and any bounds, with
crashes and broken transfers. `SinkInv` bounds names and lengths; `FilesInv`: every
file on disk is closed, or written now, or spoilt by a named fault, and what the
server has of a file on disk is its beginning; `TransferInv`: the file in
transfer stays, and once it is to be removed the server has it whole;
`FramesInv`: each frame is where `home` says, on the disk or else on the server.
Theorems: `TypeCorrect`, `FramesAreKept`, and `RemovedFilesAreOnServer`, an action
property.

**`TcpListenerProofs`**, for any senders, callers, slots, messages and limits. An open
client is in exactly one slot (`SlotsAndClients`); what it received with what waits for
it is whole messages, those of a sender in order and none newer than that sender's
broadcast, which has not reached the slots it has still to visit (`StreamsWhole`);
everyone a broadcast that went to its end was due to has it or has gone
(`BroadcastsReach`); nothing is proved of those who were due to one that was given up. Theorems: `TypeCorrect`,
`StreamsStayIntact`, `BroadcastReachesAll`.

The inductive invariants were model-checked on the instances of the runs before they
were proved.

Assumptions are the named ASSUMEs of the modules: disjoint threads, positive
bounds, sizes and capacities, at least two slots in the ADS-B ring, reads no longer
than the FIFO, blocks of whole frames, an unused vessel number. TLC evaluates them in
every run.

Only model-checked is every liveness property (`PushesGoOn`, `EveryBlockLeaves`,
`UploadFollowsWorker`, `CleanShutdown`, `ShutdownCompletes`, `DeviceStops`,
`EveryFileLeaves`, `LeaversAreClosed`): they depend on fairness, out of reach of the
prover. Every invariant, action property and refinement of the passing runs is
proved.

## 7. Not modelled

Signal processing (modems, FFT, filters, bit recovery) is numerical. `net_io.cpp`
is not reached in this build. Device wrappers, web pages, databases and
configuration files are input and output without concurrent state of their own.
Vendored code is left to its authors. The web viewer's event streams
(`HTTPServer.h:138`) share a `std::list` between threads without a lock: what a
torn list does is not a set of outcomes a model could enumerate, so it stays a
hazard with a note. The outgoing `TCP::Client` and the
RTL-TCP protocol on it run in one thread and are left for after the plan. What
else is missing is in the plan.
