# Verification of Ginan's PEA

Ginan is Geoscience Australia's GNSS analysis software. Its centre is the PEA
(`src/src/cpp`), a C++ program that reads observations from files and from NTRIP
casters, estimates positions, clocks, orbits, biases and the ionosphere epoch by
epoch, and writes, encodes and uploads what it found. This directory holds TLA+
models of the parts of it in which the order of events decides whether it works,
the TLC configurations that check them on small instances, and TLAPS proofs of what
matters most for every value of the constants.

Paths below are those of the repository, under `src/`; the C++ sources are in
`src/src/cpp`. `PROJECT.json` maps every definition to the lines it models.

Contents: 1 inventory, 2 plan, 3 the models, 4 runs, bounds and results,
5 fairness, 6 proofs, 7 where code and documentation disagree, 8 what is left out.


## 1. Inventory

### The threads, processes and what they share

    PEA process
      main thread           main(): configuration, then one turn of the loop per epoch
      io_service thread     started once the first NTRIP stream exists; runs all
                            completion handlers, one at a time, of every client
    shared by the two       receivedDataBuffer, the socket pointers, outMessages, the
                            mutexes receivedDataBufferMtx, outMessagesMtx and
                            sourceTableMtx, the statistics, isConnected
    OpenMP threads          parallel loops over the stations of one epoch
    shared by two PEAs      the files RTCMxxxxxx and sync.tmp of network and user mode
    outside                 casters, the file system, MongoDB

### Components

| component | state | operations | hard behaviour | correct when |
|---|---|---|---|---|
| **NTRIP socket and upload client** `ntripSocket`, `acsNtripBroadcast` | socket and resolver pointers, request and download buffers, timer, `isConnected`, `outMessages` and its mutex, counters | connect, handlers of every operation, delayed_reconnect, sendMessages, writeResponse, stopBroadcast | two threads, aborted handlers that still run, a mutex locked by one thread and unlocked by the other, several reconnects from one failure | a lock is handed over once per write; a client never runs out of something that reconnects it; a blocked sender gets on |
| **HTTP chunk parser** `read_chunked_stream` | download buffer, length of the chunk begun | one call per completed read | reads end anywhere, an index of its own beside the stream's | every chunk handed on once, whole, in order |
| **NTRIP download stream** `acsNtripStream`, `acsStream.hpp` | `receivedDataBuffer`, mutex, frame buffer | dataChunkDownloaded (io thread), getData and parse (main thread) | producer and consumer of a stream that is cut twice | every frame decoded once |
| **Source table, caster monitor** `ntripSourceTable`, `ntripCasterService` | source table, mutex | getSourceTable, readContentDownloaded | a mutex locked twice to wait for another thread | the wait ends |
| **NTRIP test caster** `acsNtripServer` | sessions | accept, read, write | hand-over of sessions; built, never started by main() | a client is served until it leaves |
| **Streams and epoch loop** `main.cpp`, `acsStream.hpp`, `acsFileStream.hpp`, `acsRinexStream.hpp` | `tsync`, `epoch`, epochs read ahead, observations per station | one turn per epoch: passes over the streams until all stations are there or time is up; process; skip what was missed | stations early, late, missing; observations off by up to half a second; files ending; the clock | stations processed together belong together, once, in order; nothing at hand overlooked; the loop ends |
| **RTCM decoder and encoder** `acsStream.cpp`, `acsRtcmStream.hpp`, `rtcmEncoder.cpp` | position in the input, epoch being assembled, lock times | parseRTCM, decode and encode of the messages | resynchronisation after a bad CRC, frames cut off, multiple-message epochs | a good frame is never lost to a bad one |
| **Network and user files** `acsStream.cpp`, `main.cpp` | file of corrections per epoch, `sync.tmp` | rtcmEncodeToFile, exportSyncFile; waitForSyncFile, rtcmDecodeFromFile | two processes, no lock; opening empties a file; skipped epochs; one process killed | the user never decodes what is not finished, and gets to its end |
| **SSR corrections** `acsStream.cpp`, `rtcmEncoder.cpp`, `biasSINEXread.cpp`, `ephemeris.cpp` | `ssrOut` per satellite with its flags and its count of epochs; `ssrEph_map`, `ssrClk_map` per satellite at the user | outputSatelliteClocks, calcSsrCorrections, encodeSsrComb; decodeSSR, satpos_ssr | flags that outlive their epoch, an update phase per satellite, the turn of the week, lost and late messages | orbit and clock of one update are applied together, at their time; a satellite that could be served is |
| **Kalman filter and RTS smoother** `algebra`, `rtsSmoothing` | state index maps, transitions and noise, archive of records, file of persistent states | add and remove states, transition, least squares of new states, filter, smooth backwards, write and restore | states that appear and disappear; steps without a filter; a file read backwards | no value is that of another state; new states are solved first; records pair up |
| **Positioning and network estimation** `spp`, `ppp*`, `networkEstimator`, `minimumConstraints`, `cycleSlip`, `linearCombo` | observations, filter, counts of outages and rejections | a pass over stations and satellites per epoch | epochs given up half-way, ambiguities restarted; the rest is numerical | no measurement uses an ambiguity that is no longer trusted |
| **Ambiguity resolution** `ambres/` | pivot tree, fixed ambiguities | choose pivots, fix, keep | graph that changes as satellites rise and set; integer search | every ambiguity reachable from its pivot |
| **Ionosphere, loading, RTKLIB** `iono/`, `loading/`, `rtklib/` | models, ephemerides | evaluate, read | numerical, partly third-party | numerical |
| **Configuration, SINEX, products, database** `acsConfig`, `snx`, `bias*`, `sp3`, `orbits`, `writeClock`, `mongo`, traces | configuration, files | parse again every epoch, write | file formats; streams created and destroyed while running | what is written can be read |
| **POD** `src/fortran` | orbit state | integrate, fit | sequential numerical program of its own | numerical |
| **Scripts, examples, manuals** | | | | |

### How the components meet

* A download client hands each chunk to `dataChunkDownloaded`, which appends it to
  `receivedDataBuffer`; the main thread takes it in `parse`, cuts it into RTCM frames and
  puts the epochs it decodes on `obsListList`.
* The epoch loop asks every stream for the observations of `tsync`, gives the stations
  found to the estimators and, in network mode, sends their result to the upload clients
  (`outStreamManager`) and to the files of the end-user mode.
* The upload client writes outside the io_service thread: `sendMessages` calls
  `async_write` on a socket which handlers of the other thread may be replacing.
* A user-mode process waits, within its epoch loop, for the network process.
* The network filter's clocks become `ssrOut`, from which each update of a satellite is encoded
  into the messages of the upload clients; the decoder of a user's stream fills the maps that
  `satpos_ssr` reads for each observation.
* `stateTransition` and `filterKalman` append to an archive that the smoother reads
  backwards, after each epoch or when all is over; `minimumConstraints` passes through both.

The hazards these meetings bring are listed with their lines under `hazards` in
`PROJECT.json`, together with the properties that would catch them.


## 2. Plan

Done, in this order:

1. `NtripUpload`, the upload client with its two threads, and `UploadChannel`, what it
   promises; `NtripUploadProofs`.
2. `ChunkedStream`, the chunk parser; `ChunkedStreamProofs`.
3. `EpochSync`, the epoch loop with its streams; `EpochSyncProofs`.
4. `SyncFile`, network and user mode side by side; `SyncFileProofs`.
5. `RtcmFrames`, the bytes of a caster between the two threads, and the RTCM parser behind them
   with the epochs it collects; `RtcmFramesProofs`.

6. `KFState`, the life of the states of a filter, `NamedStates`, what it promises, and
   `NetworkEstimator`, the network filter from start to end of the program with its archive,
   smoother and file of persistent states; `KFStateProofs`, `NetworkEstimatorProofs`.
7. `SsrCorrections`, the corrections from the network's epoch to the user's, and
   `CorrectionService`, what they promise; `SsrCorrectionsProofs`.

Worth adding, the most important first:

8. `MsmDecoder`: lock times and loss of lock, once the lock times are kept; the frames of
   `RtcmFrames` as a refinement of a queue of frames that a lost chunk may thin out.
9. `StreamLifecycle`: the configuration parsed again every epoch (`addRtcmStream` for a label
   already known), `stopBroadcast`, and the handlers outstanding in a destroyed client.
10. `SourceTable`: the double lock of `getSourceTable`, and a caster that answers late, never, or
    with an error.
11. `PivotTree`: the spanning trees of `GNSSpivot.cpp`. `TraceFiles`: rotation of output files.

Every invariant that a passing run checks is a theorem as well (section 6). Theorems worth adding: that
the parser of frames refines a queue of frames, with `MsmDecoder`, and the same for the new modules above.


## 3. The models

### NtripUpload, UploadChannel

`NtripSocket` with its subclass `NtripUploadClient`, two threads and the reactor.

Every `connect()` starts a *chain* of operations (resolve, connect, handshake, write request,
read response, read, read, ...) in which each handler starts the next operation or calls
`delayed_reconnect()`. `chain` has one slot per chain that may be outstanding at once; a slot
holds the operation, the endpoints left and whether the operation is waiting or its handler
queued. `ready` is the io_service's queue of handlers. `socket` is what `socket_ptr` points to: new
or closed, connecting, up, or dead after a failure. `request` counts copies of the request in the
request buffer, since `connect()` appends to it and only `disconnect()` clears it. `stray` stands
for bytes in the download buffer that spoil a response.

| actions | code |
|---|---|
| `HandleReconnect` | `reconnect_timer_handler`, `connect` |
| `HandleResolve`, `HandleConnect`, `HandleSslHandshake`, `HandleWriteRequest`, `HandleRequestResponse`, `ReadChunkedStream`, `ReadAborted` | the handlers of `ntripSocket.cpp` of these names |
| `WriteSucceeded`, `WriteFailed` then `ReconnectAfterWrite` | `writeResponse`: two steps, since it unlocks before it reconnects and the main thread may write in between |
| `SendMessages`, `LockAndWrite` | `sendMessages` up to and after `outMessagesMtx.lock()` |
| `StopBroadcast` | `stopBroadcast` |
| `Complete`, `CompleteWrite`, `TimerExpires` | the network and the clock |

Closing or destroying a socket aborts what is outstanding on it. Most handlers only log
`operation_aborted`, and their chain ends. Three do more and are therefore queued: an aborted
read parses the buffer, an aborted connect tries the next endpoint, an aborted write unlocks
and reconnects. `shutdown()` throws on a socket that is not connected, and `close()` is then
skipped; so in the model a `disconnect()` of such a socket aborts nothing.

`UploadChannel` says what the client promises: messages are taken one at a time, each is
sent or lost exactly once. `ImplementsChannel` maps the client to it; a message is lost when
it was handed to `async_write` (`taken`, a history variable) but is neither counted as sent nor under way.
The code's own `numberValidChunks` cannot say so and is left out (section 7).

### ChunkedStream

`read_chunked_stream`, character by character. `downloadBuf` and `chunked_message_length`
survive from call to call. Within a call the code reads the buffer through a stream and at the
same time counts with an index `i`, which does not move together with it: for each header the
index ends one below the number of characters taken. A read past the end fails and leaves the
character variable as it was, which `HeaderChar` and `BodyChar` spell out; what the parser then
writes back holds such stale characters. These variables are not set before the first read, so a call
begins with any of `Uninitialised` in them. `Line` is the header as a C string, which a zero ends.
The caster's messages, its `Stream` and where each chunk ends in it (`EndOfChunk`) are constants that
`ConstantsAssumption` ties together; `MCChunkedStream` computes the two from the messages. `ReadHeader`, `EndOfBuffer`, `ReadBody`, `WaitForBody` are
the ways through one turn of the loop; `Receive` brings more characters, as many as it likes;
`Reconnect` loses the rest of a chunk. `cutShort` is a history variable: some read has ended where the
lag of the index can bite. `Harmless` names the reads that do not: they end with a chunk, in a header
before which the read holds no other, or in a body of which more characters are missing than the read
holds headers. It speaks only of where the network cuts the stream, not of what the parser made of it.

### EpochSync

The loop of `main()` over epochs. A turn is `NextEpoch`; then passes over the streams
(`BeginPass`, for each stream `SkipStream`, `EatObs`, `NoObs` or `FindObs`, then `EndPass`) until
`EndWait`; then `NoObservations`, `ProcessEpoch` or `InputsFinished`. A stream has `filePos`
(how much was parsed, -1 at the end), and `obsListList` (parsed and not yet used). `obsList` is
`rec.obsList` of a station, by its time; it keeps its value from epoch to epoch as in the code,
and that is what the test "already have observations" reads. Time is in ticks of a quarter or a fifth
of a second, so that the tolerance of half a second, the exact comparison and the whole seconds of
`tsync.time` are all told apart. `Arrive` is the data of a caster.

The clocks are abstracted: `EndWait` is possible whenever the loop is about to start a pass,
even the first, and a processing may take long enough to skip up to `MaxExcess` epochs.
`history` and `rushed` are history variables.

### SyncFile

A network process and a user process. `rtcmFile` and `syncFile` are what a reader of the files
sees; opening empties a file and closing fills it, in separate steps. The network may skip epochs,
have no observations for one, fail to open either file, and be killed and started again.
The user polls `sync.tmp`; a poll that finds no number large enough changes nothing and is no
step. `exported` and `exportFailed` are history variables.

### RtcmFrames

`NtripRtcmStream`: the io_service thread appends chunks to `receivedDataBuffer`, the main thread
takes them into `receivedData` and lets `parseRTCM` read that. A byte is represented by its position
in what the caster sends, so a buffer tells where each of its bytes comes from; `Stream` gives
the byte's value, `Frames` where the caster's frames lie. A chunk lost with a connection leaves a gap.

| actions | code |
|---|---|
| `DataChunkDownloaded` | `dataChunkDownloaded` |
| `GetData` | `getData`, and the start of `parseRTCM` in `getObs` or `getNav` |
| `SkipByte`, `EndOfData` | the search for the preamble; the end of the data within it |
| `WaitForFrame` | length, data or CRC incomplete: `seekg(pos)` and return |
| `FailsCRC` | `seekg(pos2)`: the search goes on behind the two length bytes |
| `DecodeOther`, `HoldBack` | every message but observations; a timestamp that is not due yet |
| `LastMessage`, `FirstOfEpoch`, `OfEpoch` | an MSM message: last of its epoch, first of the next, or neither |
| `LoseChunk` | the connection breaks |

`Return` is the end of a call: the position the stream is left at decides what `getObs` and `getNav`
erase (everything, when the stream has failed and `tellg()` is -1). Between two steps of the parser
the other thread may append to `receivedDataBuffer`. `PassesCRC` takes a checksum to be right
exactly when all bytes are those of one of the caster's frames. `delivered` and `decoded` are
history variables.

### KFState, NamedStates

The operations of `KFState` as operators on a record: `AddKFStates`, `RemoveStates`, `SetKFTransRates`,
`StateTransition`, `CombineKFMeasList`, `LeastSquareInitStates`, `FilterKalman`. A state is a *key*.
The code keeps the keys in a sorted map to their indices in `x` and `P`; the model does the
same, so an element of `x` is found by index only, and a transition that renumbers the map has to
move the vector with it. A value is represented by what it is of (`key`), the epoch it was created
in (`born`) and how it was last determined (`from`: unset, an initial value, least squares, the
filter); a variance by whether it is other than zero, which is what `leastSquareInitStates` looks at. `ONE`
is the constant state. `NamedStates` is the promise: a keyed store in which a state keeps
its value until it is removed, and a removed one starts anew; a run may begin with what one
before has saved.

### NetworkEstimator

One thread; it may end or die at any point, and `Start` begins a new run.

| actions | code |
|---|---|
| `SkipEpoch` | an epoch of `main()` in which no station has observations |
| `BeginEpoch` | `initFilterEpoch`, `removeBadAmbiguities`, the count of outages |
| `AddMeasurements` | the passes over the stations that make measurements, states and rates |
| `Transition` | `stateTransition`, its records, and the return without the reference receiver |
| `InitialiseStates` | `combineKFMeasList`, `leastSquareInitStates` |
| `Filter` | `filterKalman` with the reject callbacks, its records, `postFilterChecks` |
| `RtsRead` (`ReadMatrix`, `ReadMinus`, `ReadPlus`), `RtsEnd` | `RTS_Process`, a record at a time; the trimming of the archive |
| `MinimumConstraints`, `OutputPersistanceStates` | `mainPostProcessing` |
| `Start` | the program started again, `inputPersistanceStates` |

A record of the archive has its type, its step, the states it describes and those it
starts from. Which measurements fail a check is a free choice, up to `MaxRejects` in an epoch. `history` is a
history variable: for each ambiguity how long its station has been heard without a use
of it, and how often in a row its use was rejected.

### SsrCorrections, CorrectionService

A network and a user on two machines whose clocks agree. A position or clock is represented by its
*stamp*: the epoch it was computed or output in, for what comes from a broadcast ephemeris
that ephemeris' issue of data, and for a clock whether it is that of the lagged smoothed filter. A
flag `...Set` is a stamp other than zero. A tick is half an epoch interval, so that the
middle of an update interval, the reference time, is a whole number.

| actions | code |
|---|---|
| `NetworkLoop`, `NetworkEpoch` | `outputSatelliteClocks` for the filter and for the lagged smoothed one, `calcSsrCorrections`, `rtcmEncodeToFile`, `encodeSsrComb` in an epoch of the network, which may skip epochs |
| `DecodeSSR` | `decodeSSR` of a combined message, with `setTime` for the week |
| `UserLoop` | `satpos_ssr` of each satellite in an epoch of the user |
| `LoseMessage`, `Tick` | the way between the two, and the time (external) |

Which satellites are seen and used, for which of them the ambiguity-fixed solution is ready
(`ARsol_ready()` is asked for each), and which ephemeris is the latest are free choices in each
epoch. `ClocksOutput` are the clocks a satellite may be left with: once the filter has run for longer than
`rts_lag`, that of the smoothed filter overwrites the other (`main.cpp:749`), stamped with the
present epoch. `WithOrbits` sets and leaves the flags as the code does, `Cleared` leaves those of the
next epoch set, and `UpdateDue` is asked for each satellite by its own count. `export` holds the orbits and
clocks whose `canExport` is set: `Exported` adds those of this epoch's updates to what is left,
`Encode` pairs those of the first reference time that both have and clears all, sent or not, and
`EncodeToFile` leaves them as they are when the file cannot be opened, to be met by the next epoch's.
A message carries the time of the week only; `SetTime` finds the week. The user looks up orbit and
clock separately (`Before`), in maps of which `Inserted` replaces a record unless it is the newest.
`updates`, `waiting`, `published` and `reached` are history variables.

`CorrectionService` promises that what a user applies was published as one, for that satellite, and
that a user does not go back to an older correction. `ImplementsService` maps `applied` to it.

### Modules beside them

`MC...` modules instantiate the constants for TLC. A definition whose comment says "mutant" is a
plausible bug; it is used by no specification. `PROJECT.json` says for each property which such
definition, put in place of the real one, breaks it.


## 4. Runs, bounds and results

| run | checks | distinct states |
|---|---|---|
| `NtripUpload.cfg` | `TypeOK`, `MutexHandedOver`, `NeverStranded`, `ImplementsChannel`, `SendReturns`, `Reconnects` | 330,338 |
| `ChunkedStream.cfg` | `TypeOK`, `EveryChunkDelivered` | 643,823 |
| `EpochFiles.cfg` | `TypeOK`, `AllProcessed`, `EachStationOnce`, `Terminates` | 30,384 |
| `EpochJitter.cfg` | `StationsOnTime`, `ObsInOrder`, `NoneOverlooked`, `StopsOnTime` | 82,763 |
| `SyncFile.cfg` | `TypeOK`, `UserFollowsNetwork`, `UserMissesNothing`, `UserFinishes` | 345,136 |
| `RtcmFrames.cfg` | `TypeOK`, `DecodedInOrder`, `NoFrameSkipped`, `EpochsWhole`, `EpochsApart`, `AllIsParsed` | 117,909 |
| `NetworkEstimator.cfg` | `TypeOK`, `LsqSeesNew`, `MeasurementsHaveStates`, `BadAmbiguitiesGo`, `SmoothsStepByStep`, `SmoothedIsLagged`, `EveryStepSmoothed`, `ArchiveBounded`, `NamesKept` | 701,706 |
| `SsrCorrections.cfg` | `TypeOK`, `PartsAreRecent`, `EveryoneServed`, `DecodedAsPublished`, `ImplementsService` | 309,979 |
| `NtripUploadRecovers.cfg`, `ChunkedStreamCut.cfg`, `EpochTwice.cfg`, `NetworkUnset.cfg` | a disagreement each, section 7 | until violated |

`CHECK_DEADLOCK FALSE` in all: every one of these systems really stops (the client is destroyed,
the input is at its end, the loop is left, the last epoch is over).

**Upload.** `MutexHandedOver`: the mutex is held exactly while one write is under way and each
write's handler is queued once. `NeverStranded`: no path through the handlers, with any
failures, drops the last thing that would reconnect. `SendReturns`: a lost
connection does not stop the epoch loop. `Reconnects`: from whatever state earlier failures
left, a stable network brings the client back to reading.
Bounds: two calls of `sendMessages`, two endpoints, three chains. A second chain needs a write
that fails while another attempt is under way, so two sends give at most three, and
a fourth slot was seen to change nothing; with three sends and four slots
(1.4 million states) the safety properties held as well. Failures, reconnects and peer resets
are not bounded. Everything is checked with TLS, whose handshake is one more operation of the chain
with the same two outcomes.

**Chunks.** Six messages, some of which look like headers or line ends, in reads that end anywhere; two
reconnections, anywhere. `EveryChunkDelivered`: as long as no read has ended where the lag can bite,
nothing is lost, damaged or counted as an error. The behaviours in which one has are in the run too
(`TypeOK` holds there as well), and `ChunkedStreamCut` shows what comes of them. Two parts and two reconnections are
enough to have an old length, an old rest and stale characters at the same time. Lengths are one digit; characters
are those that the parser tells apart, and an unset variable is a zero or a CR.

**Epochs.** `EpochFiles`: four RINEX files that begin and end at different epochs, two of
one station, no end conditions, and `start_epoch` taken from the data. `EpochJitter`: a caster
and an RTCM file whose epochs are up to two fifths of a second off either way, with two of one station
less than an epoch apart. (A tick is a fifth of a second there: with four ticks to a second an
observation at half a second is near both epochs at its sides and may be processed in either.) Two passes per epoch: what the second finds changed, a third
would too. One skipped epoch at a time. `Horizon` lies beyond every time of the inputs;
the model saturates there, where nothing can be found any more. `AllProcessed` excludes turns that
skipped an epoch or had no time for a pass (`rushed`), where the code gives up epochs on purpose.

**Network and user.** Six epochs of the network, of which it processes at most five and has
no observations for the second; a user with two epochs of input, `sync_epoch_offset` 1, one skipped
epoch at a time on either side, one restart. The offset makes the two numberings differ; the
restart makes `sync.tmp` hold a number larger than the network's next.
`UserMissesNothing` is claimed for the network's first run only: after a restart the user may
see a file that is being rewritten.

**Frames.** A timestamp and two epochs of two messages each, 34 bytes, in chunks of two or five, one
of which may be lost, at any place. Two is less than the header of a frame and five less than any
frame, so that every part of one can be missing or cut off. The preamble's value is 4 rather than
0xD3: as part of a length it then stands for a frame that fits into the stream, which is what makes a
false preamble dangerous; with 0xD3 a stream would have to be a hundred times longer. It also occurs
in one message and one checksum. With two chunks lost (up to 2.5 million states) the safety
properties held as well. Both exceptions the properties make were seen to occur: a frame hidden by
a false preamble, and observations of two epochs in one list (section 7).

**Network filter.** `LsqSeesNew`: a state without a variance reaches the least squares of its
epoch untouched by any noise. `BadAmbiguitiesGo`: counts kept per signal, reset in
three places, restart an ambiguity in time. `SmoothsStepByStep`, `SmoothedIsLagged`,
`EveryStepSmoothed`: whatever epochs were skipped or given up half-way, records that the smoother
combines belong to one step and fit, and it stops at the state it should: with a lag the `rts_lag`-th
newest, which lies `rts_lag` - 1 filter steps behind the newest, as the newest counts as the first. `NamesKept`: the
filter implements `NamedStates` through renumbering, removal and a restart.
Bounds: two stations that observe one satellite, five states: an ambiguity of each, the
satellite's clock with its rate, the other station's clock. One station is the reference
receiver, so that an epoch can be given up after its transition. An outage limit of 1 and a
rejection limit of 2 are the smallest that are not met at once; four epochs let
an ambiguity be lost, restarted and lost again; `rts_lag` takes -1 (all at the end), 0 (off) and 2; two runs.

**SSR.** `PartsAreRecent`: flags live on until the next update, and `canExport` a file that cannot be opened,
so a correction may be made of parts of different epochs; still none of them is older than the satellite's update before,
orbit and clock are relative to one ephemeris, and a smoothed clock, which lags behind its stamp, comes only when the filter
has run for longer than the lag. The orbit for the end of the interval is excepted (section 7).
`EveryoneServed`: neither the updates that publish nothing nor the satellites' own phases keep
one from being served. `DecodedAsPublished`: the time rebuilt from the time of the week is the one
published.
Bounds: two satellites in sight every other epoch, one with a gap in its precise ephemeris and
at times no broadcast ephemeris; updates every second epoch; five epochs, one skipped at a time, so that each
satellite comes to more than one update; `rts_lag` 4, so that the last epoch's clocks may be smoothed and those before
are not; updates are kept back by a file that cannot be opened for at most one epoch interval;
messages decoded up to three ticks late; corrections four ticks old are too old; a week of four
epochs, so that it turns within a message's interval and delay. `ConstantsAssumption`
says how short a week may be: real ones are far longer.


## 5. Fairness

* Upload, `Scheduling`: the io_service thread runs queued handlers; the main thread gets a free
  mutex (nobody else locks it); the timer expires; TCP takes or fails a write. These are weak.
* Upload, `CasterAnswers`: an operation of a connection attempt ends in some way. The
  code sets no timeouts, so that is up to the caster; reads of an established connection
  need never end.
* Upload, `StableNetwork`: not an assumption on the code but the premise of `Reconnects`: from some
  time on operations do not fail, the caster accepts what it gets, and handlers run before the next
  completion. Without it a client may be refused for ever.
* Epochs: the main thread goes on (`WF`). `SF` of `BeginPass`: a turn of the loop that had no
  time for a pass takes no time, while the end of the waiting time moves on by `wait_next_epoch`
  with each turn, so there is time for a pass again and again. With `EndWait` always possible, weak
  fairness would let the loop never look at its inputs.
* Frames: the epoch loop asks the stream again and again (`WF` of `GetData` and `ParseRTCM`). A
  timestamp becomes due as time goes by (`SF` of its `DecodeOther`). Nothing is assumed of the
  caster: `AllIsParsed` speaks of the behaviours in which it has sent all.
* Network and user: each process goes on by itself (`WF`). The restart is not fair. `UserFinishes`
  excuses a network whose last number could not be written, for good.
* Network filter and SSR: safety only, no fairness is assumed. `EveryoneServed` counts epochs instead.


## 6. Proofs

`tlapm` proves the following for every value of the constants that satisfies
`ConstantsAssumption` of the module, which TLC evaluates in every run.

| theorem | says |
|---|---|
| `NtripUploadProofs!TypeCorrect`, `MutexIsHandedOver`, `ClientIsNeverStranded`, `ClientImplementsChannel` | the four properties of `NtripUpload.cfg` |
| `ChunkedStreamProofs!TypeCorrect` | type correctness of the parser, wherever reads end |
| `ChunkedStreamProofs!ChunksAreDelivered` | `EveryChunkDelivered`, for any messages, reads and connections lost |
| `EpochSyncProofs!TypeCorrect` | type correctness of the loop |
| `EpochSyncProofs!LoopStopsOnTime` | `StopsOnTime` |
| `EpochSyncProofs!StationsAreOnTime`, `StationsAreExact` | `StationsOnTime`, where no two streams belong to one station; where all observations are at whole seconds |
| `EpochSyncProofs!ObsAreInOrder` | `ObsInOrder`, where no two streams belong to one station and epochs are more than twice the tolerance apart |
| `EpochSyncProofs!StationsAreOnce` | `EachStationOnce`, where all observations are at whole seconds |
| `EpochSyncProofs!NoStationOverlooked` | `NoneOverlooked`, for streams in order and an interval of at least a second |
| `EpochSyncProofs!FilesAreProcessed` | `AllProcessed`, for RINEX files without gaps of which none ends at the first epoch |
| `SyncFileProofs!Invariant`, `TypeCorrect`, `NeverAhead`, `NothingMissed` | `UserFollowsNetwork` and `UserMissesNothing` |
| `RtcmFramesProofs!TypeCorrect`, `FramesInOrder`, `FramesAreFound` | `DecodedInOrder` and `NoFrameSkipped`, for any stream and frames |
| `RtcmFramesProofs!EpochsAreWhole`, `EpochsKeptApart` | `EpochsWhole` and `EpochsApart`, for a caster that sends its epochs in order |
| `NetworkEstimatorProofs!TypeCorrect`, `NamesAreKept` | the filter implements `NamedStates`, for any states, rates and signals |
| `NetworkEstimatorProofs!NewStatesAwaitLeastSquares`, `MeasurementsAreUsed`, `AmbiguitiesAreReset` | `LsqSeesNew`, `MeasurementsHaveStates`, `BadAmbiguitiesGo` |
| `NetworkEstimatorProofs!SmootherFollowsFilter` | `SmoothsStepByStep`, for any lag |
| `NetworkEstimatorProofs!SmootherReachesLag`, `ReverseIsComplete`, `ArchiveIsBounded` | `SmoothedIsLagged`, `EveryStepSmoothed`, `ArchiveBounded`, for any lag |
| `SsrCorrectionsProofs!TypeCorrect`, `CorrectionsAreRecent`, `EveryoneIsServed`, `DecodingIsRight`, `UserGetsThePublished` | the five properties of `SsrCorrections.cfg` |

**Upload.** `TypeOK` is not inductive: that a chain has an operation exactly when it has a
status (`ChainsWellFormed`) is needed for the handlers, and `SendsLeft`, that a main thread waiting
for the mutex has not used up its sends, for the counter's bound. `MutexHandedOver` with these
is inductive. It needs lemmas on queues: what appending a handler, taking the head off and
concatenating the aborted handlers do to "is queued" and "is queued once"
(`AppendQueue`, `TailQueue`, `ConcatQueue`). `NeverStranded` is inductive by itself given the types:
each handler ends in `delayed_reconnect`, which arms the timer, or in a next operation; the
longest case is `Connect`, which ends other chains but starts one. The refinement
uses `MutexHandedOver`: without it a completed write could not be told from one that was never
started, and `LostChunks` would change twice.

**Chunks.** `ParserInv` says where the parser is: some number of chunks have been handed on, but for
messages of which a reconnection lost a part (`DeliveredTo`), and it is at the next header (`AtHeader`) or body
(`AtBody`). At a header the buffer holds line feeds that an earlier call wrote back and then the rest of
the stream; a call leaves it only while the header is not whole (`PartOfHeader`; `WholeHeader` says that
the first CR LF found is the header's). By how much the index will lag at the end of what has arrived is known in advance, one character for each header on the way;
`HeaderMargin` and `BodyMargin` say that in the chunk of which a part has arrived this leaves the header alone and that more of the body is
missing. A harmless read begins with such a margin (`ReadMargin`, which counts the headers of the read), and a header that is read
shifts one character from the headers to come to the lag. So what is read too much at a header lies behind the
last chunk, and these characters are line feeds, which `stoi` skips (`HeaderNumber`); and a body for which
`sz` is large enough has arrived whole (`BodyArrived`). Once a read was not harmless nothing is claimed
(`ParserInv` is conditional on `cutShort`): that is where delivery breaks (section 7).
The stream is given by the properties of a concatenation of chunks and the number of a header by a
function of its positions, so no recursion is reasoned about for more than one step.

**Epochs.** `TypeOK` needs `ArrivedInStream` and `TimesKnown`, which bound what is read and
what was parsed. `StopsOnTime` looks only at the processed epochs, so `CountInv` ties their number to
`epoch`, which never falls behind although skipped and empty epochs count too, and `EndInv` says of a
loop that has not ended that no processed epoch was past `end_epoch`. `StationsOnTime` needs
`HeldInv`: the observations a station was found with stay at the head of its stream's list and
are this epoch's. Nothing eats them while `tsync` does not change (`HeldHead`), the visit of another
stream does not touch them (`OthersHeld`), and a second visit in the same epoch finds the same.
The assumption `OneStreamEach` is needed: a second stream of the same station that has nothing
clears `rec.obsList` after the station was put on the list (`main.cpp:1244`). In `EpochFiles` two
files share a station, and `StationsOnTime` is not claimed there; but with all observations at whole
seconds it holds again (`StationsAreExact`).

The other theorems of the loop need more of its inputs than `ConstantsAssumption`; the hypotheses are
defined in `EpochSync`, and `MCEpochSync` assumes them of the streams of the runs, so that TLC
evaluates them.

* `ObsAreInOrder`: `OrderInv` says that the times of processed epochs are a `Step` apart at least
  (`EpochsSpaced`) and that each processed observation is within the tolerance of its epoch
  (`ObsOnTime`). `2 * Delta < Step` is needed: at an interval of one second an
  observation half a second off is near two epochs, and TLC finds it processed in both.
* `StationsAreOnce`: `SecondsInv` keeps `tsync` and all times on whole seconds, where the code's
  exact comparison and its tolerance agree: what a station was found with is `tsync` itself
  (`FoundExactly`), so a further pass sees that it already has observations. Without `OnSeconds`
  it is false (`EpochTwice`, section 7).
* `NoStationOverlooked`: `BufferInv` says that what a stream holds are the last epochs read from its
  input, in order; `StaleInv` that what a station has from an earlier epoch is older than `tsync`, so that
  only stations of this epoch are passed by as found; `LookedInv` that a stream visited without
  finding anything holds nothing, or only what is too young. `ObsAscend` makes the head of a list its oldest.
* `FilesAreProcessed`: `FilesInv` describes a loop that was never rushed: `tsync` goes on by one
  interval at a time (`Pace`), what a stream has eaten is old (`EatenOld`), a file is dead when its last
  epoch is over or found (`DeadInTime`) and goes on otherwise (`AliveGoOn`), another pass is only made for files that are
  not dead (`RepeatsForAlive`), and all that is over was processed (`OverProcessed`). The hypothesis `FilesGoOn` came out of the
  proof, and TLC finds the property violated without it: a file that ends with the epoch the
  loop begins with is read no further than that, and found dead only when the next epoch has nothing for
  it, which asks for another pass; if that epoch is the last of all other files, the second pass finds
  every stream dead, "Inputs finished" (`main.cpp:1211`) is set, and `main.cpp:1396` leaves the loop with the
  stations found in the first pass not processed (files of the epochs 16, 20 and of 8, 12, 16, the loop
  beginning with 16). Later in a run it cannot happen, as a stream reads one epoch ahead from then on.

**Network and user.** `IInv` adds to the two properties: the inputs bound the epoch
(`WithinInputs`); a number that is read was exported (`NumberExported`); a user past its wait has such
a number behind it (`WaitIsOver`); in the first run exported numbers lie behind the network's epoch
(`NumbersAscend`) and no file but that of the current epoch is open (`OneFileOpen`). From these a
file the user decodes is finished and is not opened again.

**Frames.** `DecodedInOrder` says nothing of what is still in the buffers, where a frame put back could
be found a second time. `OrderInv` adds that the bytes waiting in both buffers ascend and were
sent (`Waiting`), that every frame decoded lies before all that is still to be read
(`BehindFrames`), and that nothing counts as read between two calls (`ReadFromStart`). A step of the
parser only moves on (`ParseOn`); decoding a frame moves past its last byte, and its first
byte lay behind every frame decoded before, so frames that do not overlap come out in their order
(`ParseFrame`). The chunks, their losses and the content of the stream are arbitrary.

`NoFrameSkipped` adds in `SkipInv` that what arrived ascends (`DeliveredAscends`), that both buffers are the
end of it (`WaitingIsEnd`), so that a position of the parser is one in `delivered`, and what is known
of each frame whose preamble was passed, also in the middle of a call (`PassedFrames`). The parser passes a preamble in
four ways: as the one it finds, as part of a frame it decodes, which would overlap, as one of the two
bytes skipped behind a bad length or checksum, which is the exception, and not at all when it puts the frame back.

`EpochsWhole` holds while an epoch has no more observations than the limit at which all are dropped:
`WithinLimit(total)` says so by a count `total` of the observations up to each frame, as a sum is a recursion
over data. `EpochInv` bounds the list being collected by that count and says that all observations decoded of its epoch are in it.
`EpochsApart` needs `CollectedOfEpoch` (all collected is of one epoch, or else as the property allows) and
`CollectedIsLatest` (nothing decoded is of a later epoch than the last collected). `MCRtcmFrames` assumes the
hypotheses of its frames.

**Network filter.** `KFStateProofs` has the lemmas on the operators: what adding, removing and the
transition do to the keys and to the value of each. `StatesOf` reads the vector through the map of indices, so
the central fact is that a transition moves each element to its key's new index. `IInv` is
`Control` (what each place in the epoch implies), `Counts`, `Filters` (types, and keys that
transition and noise speak of), `Designs` (the states of the measurements are in the filter) and
`Archive`. `CountInv` ties the code's counts to the history: between the two epochs in which a
count is reset it is never below what the history says, so no limit is passed unseen.
`ChainInv` describes the archive: each record continues the one before it, a transition starting from the
states that the last filter had, `MINUS` and `PLUS` following the transition of their step. This holds
because an interrupted step is finished by the next transition; what the smoother holds is then the records
just behind the position it reads. The three theorems about how far it reads count records,
and counts are recursions over data; so they rest on `OrderInv`: the steps in the archive ascend, with
nothing more of a step behind its state, so that numbers of states are bounded by differences of steps. `LagInv` ties the smoother's lag to the step it has reached. `SizeInv` says that the archive has been
trimmed to the lag when an epoch begins, and that the epoch adds its own state and that of an
interrupted one; `SpanInv` that before there are enough epochs to smooth, no epoch has made more than
one step. That the archive has no more states than steps is an injection (`StatesCounted`). `BackInv`, for a
full reverse, says that the states written are those behind the position read, descending. `NewInv` follows a new state from its creation to the least squares.

**SSR.** `IInv` is `TypeOK`, `DecodedAsPublished` and the following.
`NetworkInv`, of the network alone: `PartsAreRecent`; what is set in `ssrOut` is newer than the satellite's last
update (`FlagsAreNew`), since an update clears it; a smoothed clock was output late enough (`ClocksAreOutput`); the stamps held for orbit and clock come
from one ephemeris (`OneEphemeris`); what waits with `canExport` set would make a recent correction still (`ExportIsFit`: an
update that publishes nothing leaves no flag, and a later one replaces it);
`PublishedOnce`: per satellite and reference time there is one correction, which makes an orbit and a clock
looked up separately, but of the same time, parts of one; and a wait is never longer than the count of
epochs since the update, which is what bounds it (`WaitIsCounted`).
`InTransit`: a message under way carries what was published, and is young enough for its
week to be found; `SetTimeRecovers` is the arithmetic behind it. `MapsAgree`: both maps of a satellite have the same times, so the two lookups
find the same one. `ReachedIsKnown`: the latest correction used is still in the map, so that a later lookup finds none that is older.

**Only model-checked.** The liveness properties (`SendReturns`, `Reconnects`, `Terminates`,
`UserFinishes`, `AllIsParsed`), as liveness under fairness is beyond the prover's reach, and ENABLED with it.
What a recursion over data computes is not proved for every input either: that the stream which
`MCChunkedStream` concatenates satisfies `ConstantsAssumption` is evaluated for the messages of the runs.


## 7. Where code and documentation disagree

Each with a run whose counterexample shows it:

1. `RecoversFromSocketErrors` (`NtripUploadRecovers.cfg`): two reconnects from one failure, and
   `set_option` on the closed new socket throws out of the io_service thread (`ntripSocket.cpp:328`).
2. `DeliveredInOrder` (`ChunkedStreamCut.cfg`): with reads that end anywhere, the lagging index lets the
   parser take a body whose last characters have not arrived (`ntripSocket.cpp:564`).
3. `EachStationOnce` (`EpochTwice.cfg`): observations that are not exactly on `tsync` are fetched again
   by each further pass, and the station is processed twice, in parallel (`main.cpp:1237`).
4. `UnsetAreSolved` (`NetworkUnset.cfg`): an epoch without the reference receiver returns between the
   transition that adds new states and the least squares that would give them a value; the next
   epoch's noise gives them a variance, and they are filtered from 0 (`networkEstimator.cpp:476`,
   `algebra.cpp:1039`).

Seen while modelling, without a run:

Streams and epochs:

* An RTCM file that ends within a frame is never dead, and the loop waits for it for ever
  (`acsStream.cpp:1371`).
* With inputs of equal length a user waits for a number that the network never writes, since
  only the next epoch's start would write it (`main.cpp:1364`).
* A successful connection may write an empty request, or the request twice: `delayed_reconnect`
  clears the buffer under a connection attempt that goes on, and `connect()` appends to it
  (`ntripSocket.cpp:32`). The server then closes the connection, and the client tries again.
* A good frame whose preamble is one of the two bytes behind a false one is lost, since the search
  goes on behind them (`acsStream.cpp:1402`); `NoFrameSkipped` excepts it.
* Observations of two epochs get into one list when the last message of one and all but the last
  of the next are lost, since a last message is added without looking at its time
  (`acsStream.cpp:1556`); `EpochsApart` excepts it.
* An aborted read writes an uninitialised character into the download buffer just cleared
  (`ntripSocket.cpp:508`; `ReadAborted` and `stray` model it).
* `stopBroadcast` destroys clients while handlers that hold their address are
  outstanding (`acsNtripBroadcast.cpp:9`).
* `numberValidChunks` of an upload client is incremented without a lock by both threads: by `sendMessages` after it has
  called `async_write` (`acsNtripBroadcast.cpp:117`), when `writeResponse` may have run already, and by the parser
  of what the caster answers (`ntripSocket.cpp:583`). It counts neither messages taken nor chunks received.
* The number of errored chunks is printed with its sign reversed (`acsNtripBroadcast.cpp:185`).
* A second stream of a station overwrites `rec.obsList` (`main.cpp:1244`).
* `isDead` looks at the position in the file first and drops epochs read ahead
  (`acsStream.hpp:362`): the last ones of an RTCM file, which is read up to three epochs ahead,
  and of a RINEX file the last one if it lies behind a gap.
* The fraction of `epoch_interval` is lost (`main.cpp:1157`); `start_epoch` itself is never
  processed, since `tsync` is advanced first.
* An epoch without observations passes by the tests for `end_epoch` and `max_epochs`
  (`main.cpp:1413`); an epoch without satellites hides the ones behind it (`acsStream.hpp:88`).
* Observations half a second from two epochs may be used in both, and data of two hertz or more is
  used up to half a second early.
* `wait_next_epoch` below a millisecond divides by zero (`main.cpp:1514`).
* A `sync.tmp` left by an earlier run lets the user go ahead at once (`acsStream.cpp:1945`).
* `MSM7_lock_time` is passed by value, so the lock times stored are lost (`acsStream.cpp:979`).
* `getSourceTable` locks a mutex twice and relies on another thread to unlock it
  (`ntripSourceTable.cpp:104`).
* The statistics of a stream are read and reset by the main thread while the handlers count
  (`acsStream.cpp:2119`).
* The configuration is parsed again every epoch, and a client is constructed for a label that is
  already known (`acsConfig.cpp:1598`).

Network filter:

* Outages are counted where the station has observations (`networkEstimator.cpp:169`); the
  manual (`docs/manual/kalman_filter.tex:283`) speaks of epochs in which a signal is not
  observed. An ambiguity of a station that was silent for a day is kept.
* Ambiguity resolution that applies minimum constraints to a copy of the filter writes into the
  same archive (`main.cpp:834`), between the steps of the original.
* Minimum constraints make a transition to no time at all and leave `rtsFilterInProgress` set
  (`minimumConstraints.cpp:150`); a step completed by the next transition carries that one's time
  (`algebra.cpp:325`).
* In an epoch without a filter step the smoother publishes the same smoothed epoch again; user
  mode does so without looking whether it has a time (`main.cpp:649`).
* The smoothed clocks are stamped with the present epoch and overwrite the filtered ones in
  `ssrOut` (`main.cpp:766`): such a correction has the orbits "at tsync" (`acsStream.cpp:1679`) with a clock of `rts_lag` - 1
  filter steps earlier. `SsrCorrections` has it.
* The archive of the ionosphere's filter is smoothed with a lag and never trimmed (`main.cpp:1112`).
* The file of persistent states is appended to, and the first record is read.
* `removeUnmeasuredAmbiguities` of the user's filter has no effect (`ppp_user.cpp:891`); with
  `max_filter_iter` 0 the state vector is left empty; the measurement of the last failed check is
  deweighted and not filtered again.

SSR:

* `isNextPreciseSet` and `isNextBroadcastSet` are never cleared (`acsStream.cpp:1798`): at the end or a gap of the
  precise orbits a rate is computed from a position of an earlier epoch.
* Within an update interval the clock or orbit of an earlier epoch is sent when this epoch has none.
* An orbit that is kept back since a file could not be opened gets the issue of data of the present ephemeris, not of
  the one it was computed with (`acsStream.cpp:1698`), and of two reference times that wait only the first is sent, before the flags of all
  are cleared (`rtcmEncoder.cpp:212`).
* When no satellite has both an orbit and a clock of the reference time found, the encoder reads the first
  element of an empty map (`rtcmEncoder.cpp:257`).
* A time of the week is completed with today's week (`acsStream.cpp:399`), which is wrong by
  a week when it is replayed on another day.
* Of two upload clients only the first one gets the corrections: encoding clears `canExport`.
* The issue of data of all messages is `masterIod`, always 0, so the check of it says nothing; the
  limit on the age of a correction does not apply to biases (`biasSINEXread.cpp:545`); the maps are
  never trimmed.
* `ARsol_ready` counts its calls and not epochs (`ARmain.cpp:576`).


## 8. What is left out

* Upload: the statistics written to the trace, with the counters they are made of; `read_content`, which only the source table uses;
  the data race on the shared pointers (a write and the replacement of the socket are atomic
  in the model); other clients on the same io_service, which share only the thread.
* Chunks: header extensions; a sign or a prefix of a length, which `stoi` takes; messages whose length has
  more than one digit (a header of more digits is parsed, as the rest of a cut message may look like one).
* Epochs: navigation streams and corrections, excluded stations, what processing computes, the clocks,
  and configuration changes during a run.
* Frames: the content of the messages but for time, number of observations and the multiple message
  bit; the statistics; recording; a checksum that is right by accident; the encoder.
* Network and user: the content of the corrections; a user that is killed; directories that hold
  files of earlier runs.
* Network filter: `filter_mode` LSQ (`networkEstimator.cpp:501`), which solves each epoch by least squares and has no
  filter step; values, covariances and noise beyond whether a variance is zero; the models
  of the observations; the chi-square tests and which measurement fails; the user's filter, which passes
  through the same operations of `KFState`; ambiguity resolution on a copy of the filter; the
  content of SINEX and trace files.
* SSR: code and phase biases, URA, high-rate clocks, several systems; the limit on the size of a correction; replayed streams. The two machines'
  clocks agree, as those of receivers do; the messages of one connection arrive in order.
* Source table and test caster: one request before the loop starts, whose wait is the
  hazard listed at `ntripSourceTable.cpp:104`; the test caster is never started.
* Ambiguity resolution: an integer search over real matrices; to the rest of the system it is
  an answer, for each satellite, whether a solution is ready, and `SsrCorrections` takes either.
* Ionosphere, loading, RTKLIB, SINEX and other formats, the POD, scripts and examples: numerical
  models, parsers and writers without concurrency or protocol. They are most of the
  repository's lines. Their results are real numbers, which neither TLC nor the provers can
  compute with, and a model without them would only say that functions call each other.
