# Verification of the IoT driver collection

The repository is a collection of about twenty independent device drivers
(`src/iot_driver_copilot/<driver>/`) and a few Kubernetes test manifests
(`src/shifudev/test/`). A driver is one process: it talks to one device (Modbus
RTU or TCP, Siemens S7, a UVC camera, an MQTT broker), keeps the last readings
in memory, and answers HTTP requests that read them, connect or disconnect the
device or change its configuration. No driver calls another one and nothing is
stored on disk, so no module composes two drivers: each driver has a module of
its own, or shares one with drivers of the same shape, whose initial state then
chooses the program. Within a driver, the interaction of request handlers, background
goroutines or threads, timeouts and the shutdown of `main` is what the modules
are about. Several drivers are written against the same device by different
programs, in Go, Python, Java, C++ and JavaScript, and make different mistakes
in the same places: the reconnection of a session, the replacement of a
background worker, the close of a port somebody reads, the answer that comes
after its request was given up.

Twelve programs are modelled, checked and proved about. The files of the project:

| file | what it is |
|---|---|
| `S7Driver.tla`, `S7Link.tla` | Siemens S7-1200 driver, and the link it promises its caller |
| `Xyz1000.tla` | XYZ-1000 Modbus RTU driver |
| `Ths200.tla` | THS-200 MQTT publisher |
| `IndustrialTest4.tla` | Industrial Test 4 Modbus RTU driver (Python) |
| `UvcCamera.tla`, `StreamControl.tla` | USB UVC camera driver (Go and C), and what it promises the callers of /stream/start and /stream/stop |
| `Daq.tla`, `SampleWindow.tla` | edge data acquisition module (Go), and the buffer its documents describe |
| `SerialPollers.tla` | three Modbus RTU pollers in Go: the THS-1000, the industrial temperature or humidity sensor, the ambient temperature and humidity sensor |
| `Sht3x.tla` | temperature and humidity sensor on an I2C bus (Go) |
| `ModbusCollectors.tla` | the second program of the edge data acquisition module (DAQ-2000), and edge module 11 |
| `*_proofs.tla` | the theorems about the module of that name; `Collectors_proofs` has those about `ModbusCollectors` and `Sht3x`, whose names differ so that one module can extend both |
| `*.cfg` | one TLC run each |
| `PROJECT.json` | components, runs, mutants, source map, findings, hazards, theorems |

A specification is instantiated by its `.cfg` alone: its parameters are sets of
identifiers and a few numbers, which a configuration file can write down, so no
separate MC modules are needed.

## Inventory

For each component: its state, its operations, what is hard about it, and what
makes it correct. The component rows of `PROJECT.json` name the source files and
what of each driver is left out.

### Modelled

**Siemens S7-1200** (`siemens_s_7_1200/main.go`). *State:* `Driver` behind `d.mu`
(desired, connected, client, stop channel, maintainerRun), the locals of
`maintainConnection` (backoff, tries), and the gos7 clients. *Operations:*
Connect, Disconnect, ReadDB/WriteDB, the maintainer's dial with a timeout, its
three waits. *Hard:* the maintainer works outside the mutex, a dial outlives its
timeout, a flag stands for a goroutine that may have ended. *Correct when:* there
is one maintainer, connected implies a live client, the retry limit backs off,
a desired session comes back, Disconnect stops what Connect started.

**XYZ-1000** (`xyz_1000_smart_sensor/driver.go`). *State:* the settings, the
open port, the connection state, retry count and delay, shouldRunCollector and
reconnectRequested, under `d.mu`; the files of the operating system. *Operations:*
`collectLoop`, `openPort`/`closePort`, POST /connect, PUT /config, Stop, main's
Shutdown. *Hard:* `openPort` locks twice, handlers open the port beside the
collector, reads use a copy of the port without the lock, requests are applied
half before they are refused, Shutdown gives up on handlers. *Correct when:* no
read uses a closed file, no file outlives the driver, the delays follow the
retries, polling goes on, the shutdown ends.

**THS-200** (`ths_200_temperature_and_humidity_sensor/main.go`). *State:* the
settings, the MQTT client, the cancel function and wait group of the publisher.
*Operations:* PUT /config/mqtt, `restartPublisher`/`stopPublisher`,
`runPublisher`, the start and the shutdown of main. *Hard:* restart releases the
lock between cancelling, waiting and starting, two callers overlap, the wait has
no timeout, MQTT reconnects on its own. *Correct when:* there is one publisher,
with the latest settings and a client of its own, a cancelled one returns, the
shutdown ends.

**Industrial Test 4** (`industrial_test_4/driver.py`, `modbus.py`). *State:*
`DriverState` (serial link, target, connected, poll thread, stop event, sample)
behind one lock. *Operations:* connect(), `_start_polling`/`_stop_polling`,
`_poll_loop`, `_poll_once`. *Hard:* connect() joins, holding the lock its poller
needs; a join that times out leaves the old thread beside the new one, and they
share the stop event. *Correct when:* /connect answers, an open link is polled,
samples belong to the current device, a link that works is sampled.

**USB UVC camera** (`usb_uvc_camera/driver.go`, `v4l2_cgo.go`). *State:* `Camera`
(streaming, configuration, two channels) behind `mu`, `c.dev` and the devices of
snapshots (opened, mapped, fd), one C array of mapped buffers, the kernel's
descriptors and who may set the format. *Operations:* Start, Stop, Configure,
Snapshot, the capture loop, every method of `v4l2Device`. *Hard:* `c.dev` is used
without the mutex, every device shares the C array, Stop waits unlocked.
An `InitMMap` may fail half way. *Correct when:* there is one capture goroutine, the
camera is released, frames come from mapped memory, the configuration of a running
stream stays, a stop answers, a started stream captures.

**Edge data acquisition module, Go** (`industrial_io_t_edge_data_acquisition_module/device.go`, `http_server.go`, `main.go`).
*State:* `Collector` (connected, running, last success) behind one lock,
`ringBuffer` behind another, the locals of `loop` (session, backoff).
*Operations:* dial, read, add, wait; GET /status; PUT /config/publish, which
writes a register over a session of its own; main's Shutdown and cancel. *Hard:*
the ring's indices at capacity, a status made of three looks, sessions on every
error path. *Correct when:* the ring holds the latest samples in order, a status
agrees with itself, no session is left behind, the delays follow the failures,
samples keep coming.

**Serial pollers** (`ambient_temp_humidity_sensor`, the THS-1000;
`industrial_emperature_r_humidity_sensor`; `ambient_temperature_and_humidity_sensor`).
*State:* the serial port or the goburrow handler, what is under way on the
line, the status, the values, and the error counters of the THS-1000.
*Operations:* the poller with its connects, requests, retries and closes; main
with its signal, its close of the port and its wait. *Hard:* an answer that comes
after its request was given up, on a port that stays open; `d.port` shared with
main without a lock; `wg.Add` called by the goroutine itself; a handler that is
never nil again; three orders of shutting down. *Correct when:* no late answer is
served, a driver that gives up is in step with the line again, the counters add up,
values keep coming, main ends.

**Temperature and humidity sensor, Go** (`temperature_and_humidity_sensor/main.go`).
*State:* the I2C address, the calibration offsets, the last reading and the
status behind `d.mu`; the backoff of `pollLoop`. *Operations:* a measurement of
three steps, PUT /i2c, PUT /calibration, main's cancel and the close of the bus.
*Hard:* the address is copied before a measurement and the reading stored after
it. *Correct when:* one reading of the old sensor at most is stored, settings
that stay take effect, the delay keeps its bounds.

**Modbus collectors** (`driver.go` of the edge data acquisition module, with one
collector over TCP and one over RTU; `..._module__11/collector.go`). *State:* each
collector's handler and whether it has a connection, the status of each link.
*Operations:* connect, the optional writes, poll, leave the loop, close; main's
signal and wait. *Hard:* a `break` that ends a select and not its loop, handlers
made anew on every turn, a library that connects by itself. *Correct when:* no
connection is left behind, what belongs to a connection is sent over each, values
keep coming.

### Not modelled

| component | what it does | why it is not modelled |
|---|---|---|
| Temperature and humidity sensor, Java | a poll thread with start and stop over HTTP | `stop()` gives up on its thread after 2 s and a `start()` may run beside the old one: the case of `IndustrialTest4`, where it is modelled; the rest is framing and JSON |
| Edge data acquisition module, Node; IoT data driver | timers and sockets of one event loop | callbacks never overlap; what is left is decoding |
| Edge module 1122 (Java) | a scheduled acquisition that publishes over MQTT | most of it is a hand-written MQTT encoding |
| yyyyyyyy device | one sampling goroutine, handlers that read | less happens than in any driver that is modelled |
| Industrial test, C++ and Python | one poll thread, connect and disconnect | the Python one has the shape of `IndustrialTest4`; in the C++ one a detached request thread that is still in a handler when main returns uses a destroyed `Driver` (`driver.cpp:829`), and what that does is not a matter of the program any more |
| Industrial test 2, sensor model X-100 (C++) | one poll thread that reopens the port after a failed read | the shape of `SerialPollers` |
| Industrial environmental sensor (C++) | one collector, one mutex | it locks itself out at its first successful open (`driver.cpp:454`): no behaviour is left behind that |
| Drivers with a Dockerfile only; Kubernetes manifests | nothing | no code |

## How the modules model the code

In all of them one action is what no other goroutine or thread can interrupt or
see half of: a critical section of the driver's mutex, a system call or a call
of the device or the broker, or one wait. What lies between two such points
in the source is in the action it follows. Program counters (`pc`, `mpc`, `hpc`,
...) name the place a goroutine has reached; handlers in flight and background
goroutines are identifiers from a constant set. An identifier of a session, file,
publisher or thread is reused when nothing refers to it any more, so the sets
bound how many exist at once, not how many a run creates. Time is the order of
events: a timer or timeout may fire whenever it is armed. Payloads, register
values, addresses, logging and the text of answers are left out, or reduced to
what another step depends on. Each operator that is a slightly wrong version of
the one after it (`NoWait`, `StaysOpen`, ...) is used by no specification:
`PROJECT.json` puts it in the place of the right one to see that the property
named there notices.

`S7Driver`. `Connect`, `Disconnect`, `EnsureConnected`/`GrabClient` (two locks in
the code, two actions here), `TransferDone`/`TransferFails`/`MarkDisconnected` are
the handlers; `Top`, `LookHealthy`, `Dial`, `DialSucceeds`, `Store`,
`DialRefused`, `DialTimeout`, `ArmWait`, `WaitElapses`, `WaitStopped` walk through
`maintainConnection`; `DialReturns`, `PlcDrops`, `Collect` are the goroutine that
dials, the PLC and the Go runtime. A stop channel is `mchan`, fetched when a
wait begins and possibly nil by then. A nil client that is called ends the process
(`crashed`). `S7Link` is what the callers of /plc/connect and /plc/disconnect are
promised, without lock, channels or clients: one worker keeps the link up, and
it retires only after a release.

`Xyz1000`. `CopySettings`/`OpenSucceeds`/`OpenFails`/`StorePort` are
`openPort`, which handlers and the collector run at the same time;
`ConnectPort` ... `ConnectAnswer` are POST /connect, field by field, with the
400 that leaves earlier fields applied; `ConfigBaud` ... `ConfigAnswer` are PUT
/config; `Top` ... `SleepEnds` are `collectLoop`; `Signal`, `Stop` are main. `held`
is the copy of the port a goroutine works with outside the lock.

`Ths200`. `Put`, `StartIfConfigured`, `Signal`, `Shutdown` are the callers;
`Cancel`, `Disconnect`, `Wait`, `MakeContext`, `Go` are the steps of
`stopPublisher`/`restartPublisher` between which the lock is free;
`NotDone`, `Connect`, `DialEnds`, `ConnectDone`, `Tick`, `Return`, ... are
`runPublisher`, and `AutoReconnect` and the loss of a connection are the paho
client's. `overlapped` remembers that two callers were between the first and
the last of those steps at once. A publisher's client has the identifier of the
publisher, and `mqttClient` is the one stored last.

`IndustrialTest4`. `Connect`, `Join`, `Close`, `OpenSucceeds`, `OpenFails`,
`Connected` are connect() under its lock, cut where an unlocked poller can see the
difference; `Loop` ... `Sleep` are `_poll_loop` and `_poll_once`, one read of a
register at a time. `abandoned` remembers that a join timed out.

`UvcCamera`. `Start`, `Stop`, `StopTwice`, `StopDone`, `Configure`,
`ApplyConfig`, `Save`, `Snapshot` are the critical sections of `mu` (and the one
look at `streaming` without it); `Loop` and `Capture` are the two loops of the
goroutine; `OpenBegins` ... `CloseEnds` are the methods of `v4l2Device`, which the
goroutine, /config and /snapshot share: `Open` and `Close` are two actions each,
as they test `opened`, make a system call and then set it. `Admitted` is the UVC
kernel driver, modelled from what the code relies on: one descriptor at a time
may set the format and own buffers, and its file lives until the descriptor is closed
and no memory is mapped from it (`Survivor`; `Lost` is the file that only memory
keeps). `memory` is what is mapped: all the buffers of the C array, or stray ones that
nobody knows of. `GivesUp` is an `InitMMap` that fails, before or after it has mapped
something (`InitMMapFails`). `raced` remembers that two actors were using `c.dev` at
once, `leaked` that an `InitMMap` failed half way. `StreamControl` leaves one worker, the three
phases of a stream and the stop that gets stuck: with it the camera is shown to be
streaming exactly from a start until its worker, asked by a stop, has gone.

`Daq`. `Top`, `DialSucceeds`, `DialFails`, `BackoffEnds`, `Poll`, `ReadSucceeds`,
`ReadFails`, `Reconnect`, `AddSample`, `RecordSuccess`, `WaitEnds` walk through
`loop`; `StatusBegins`, `StatusTimestamp`, `StatusLength`, `Answer` are GET /status
with the three looks it takes; `PublishBegins`, `PublishDial`, `PublishEnds` are PUT
/config/publish; `Signal`, `Cancel`, `Exit` are main, which returns, and ends the
process, right after the deferred cancel. `running` is left out, as it is set
before the goroutine starts and never again. `SampleWindow` is the buffer as a
sequence. `failures` remembers the dials that failed in a row.

`SerialPollers`. Modbus RTU numbers nothing, so `line` holds the answers not yet
read, each the sensor's `"own"` answer to the latest request, a `"late"` one to an
earlier request, or `"junk"`. A request makes every answer under way late
(`Requested`); the sensor may answer it or not (`Arrivals`); a driver takes the first
good frame for its answer (`Receives`) or fails (`Fails`), and a close loses the rest
(`Closes`). `Send` is goburrow's, which opens a port that is closed. `ThsTop` ...
`ThsWait`, `RhTop` ... `RhWait` and `AmbientStart` ... `AmbientWait` walk through the
three pollers, from one critical section of the status to the next. `Signal`,
`ThsDrained`, `ThsCheckPort`, `ThsMainCloses`, `AmbientMainCloses`, `MainUnmarks`,
`RhCancels`, `RhCloses` and `Waits` are the three ways main ends; a nil port that is
used ends the process (`crashed`). When ListenAndServe of the THS-1000 fails, its
context is cancelled and main goes on waiting for a signal (`ThsServerFails`).
`suspect` remembers that a request of the THS-1000 has failed since its poller last
gave up and closed the port.

`Sht3x`. `LookUpAddress` copies the address, `Command`, `Measure`, `Read` and
`ReadOnceFails` are `readOnce`, `SetReading` uses the offsets of that moment,
`SetDisconnected`, `BackoffEnds` and `WaitEnds` are the rest of `pollLoop`. `PutI2C` and `PutCalibration` may
come between any two of them. `oldReadings` counts the readings of another
address stored since the last PUT /i2c.

`ModbusCollectors`. `Collector(l)` is one turn of a collector's loops, from `Top`
over `Connects`, `Mark` and `Write` to `Reads`, `ReadFails`, `Failed` and `Close`. The
break of the DAQ-2000 program leads from `Close` back to the tick, that of edge
module 11 to its outer loop. `tried` remembers whether the writes were sent over
this connection.

## What the runs check

The type invariants, with the bounds the code keeps on its counters, are proved
for all constants (see below); that of `Sht3x`, which is about its delay, is in its run too.
The states are the distinct ones of the whole state space, which TLC exhausts.

| run | states | properties, and what they show |
|---|---|---|
| `s7_driver` | 25,017 | `SingleMaintainer`: one maintainer in any order of connects and exits. `ConnectedHasSession`: connected implies a client that is neither closed nor collected. `RetryLimitBacksOff`: the retry limit leaves the maximal delay in force. `LinkSpec`: the driver implements `S7Link`. `MaintainerReconnects`, `DisconnectStopsMaintainer`: liveness. |
| `xyz1000` | 75,968 | `ReadsOpenPort`: the file under a read is open. `ShutdownReleasesPort`: no file left after a shutdown that drained its handlers. `BackoffMatchesRetries`: delay = initial * 2^retries, capped. `CollectorPolls`, `ShutdownCompletes`: liveness. |
| `ths200` | 90,740 | `OnePublisher`, `LatestConfig`, `TicksOwnClient`: as long as restarts do not overlap, one publisher, with the latest settings, whose ticks find its own client. `CancelledReturns`, `Publishes`: liveness. |
| `industrial_test4` | 90,395 | `LinkIsPolled`: an open link has a live poller. `SamplesCurrentDevice`: a stored sample was read from the current device in full. `ConnectReturns`, `Polls`: liveness, the first in spite of the join under the lock. |
| `uvc_camera` | 71,743 | `ControlSpec`: the driver implements `StreamControl`. `DeviceReleased`: an idle driver holds no descriptor, and nothing mapped keeps the camera unless an `InitMMap` failed half way. `FramesMapped`: no copy from unmapped memory. `StopReturns`, `Streams`: liveness. |
| `daq` | 94,728 | `WindowSpec`: the ring implements `SampleWindow`. `StatusAgrees`: a status that is online has a last update and a length to show. `SessionsOwned`: the open sessions are those somebody holds. `BackoffFollowsFailures`: delay = initial * 2^failures, capped. `Acquires`: liveness. |
| `serial_pollers` | 44,880 | `ClosedLineAnswers`: the two drivers that close the port after a failure serve no late answer. `CountersAgree`: at any moment the error counters of the THS-1000 add up to its retries, but for the attempt under way. `GivingUpResyncs`: after the THS-1000 has given up and opened its port anew it takes no late answer until a request fails again. `Polls`, `ShutdownCompletes`: liveness. |
| `sht3x` | 7,752 | `ShtTypeOK`: the delay stays between its initial value and the maximum. `OldAddressOnce`: at most one reading of the old sensor after PUT /i2c. `SettingsTakeEffect`: liveness, with or without a sensor at the new address. |
| `modbus_collectors` | 1,639 | `NoneLeftOpen`: a collector makes a handler only when its last connection is closed, and the DAQ-2000 program ends with none open. `Acquires`: liveness. |

Three runs look for the violation of one sentence that a driver's documents,
comments or log state, and find it:

* `s7_reconnect`: connect, disconnect, connect leaves a driver that desires a
  session and will never dial (`main.go:156`: maintainerRun is set once).
* `ths200_shutdown`: a PUT that overlaps the restart of main's own start leaves a
  publisher that nothing can cancel (`main.go:57`), and a later shutdown, which finds
  every PUT answered, waits for it without end.
* `modbus_collectors_writes`: after a failed read the DAQ-2000 program goes on over
  a new connection without its "writes on connect" (`driver.go:199`), since the
  break behind the log line "reconnecting..." (`driver.go:230`) ends the select only.

The other findings of `PROJECT.json` have no run. Some are in a model, in the
action named in the finding, and the properties beside it are stated so that they
hold in spite of it:

* a dial under way during a disconnect of the S7 stores its session afterwards
  (`main.go:222`), and the maintainer leaves without closing it;
* after a PUT /config the collector of the XYZ-1000 reopens the port for ever and
  polls no more (`driver.go:136`: the request is never cleared);
* a PUT of the THS-200 that outlives Shutdown's timeout starts a publisher beside
  main's stopPublisher (`main.go:343`), which waits for it without end;
* after a /connect of Industrial Test 4 that failed, a /connect back to the old
  port is answered 200 without a link (`driver.py:83`);
* an `InitMMap` of the camera that fails after it has mapped a buffer
  (`v4l2_cgo.go:118`) leaves it mapped: the camera's file outlives the stop that was to
  release it, and no later stream can set a format;
* a /stream/stop that meets a second one never answers (usb_uvc_camera,
  `driver.go:94`);
* a /stream/start between Configure's look at `streaming` and its save changes the
  configuration under a running stream (usb_uvc_camera, `driver.go:313`);
* the THS-1000 takes a late answer for the answer to its next request
  (`modbus.go:91`), which may be for another register;
* the ambient temperature and humidity sensor is shown disconnected for good after
  one failed poll (`driver.go:179`: the handler is never nil again);
* the DAQ retries a failed read without a delay (`device.go:129`), and does not wait
  for the collector its cancel is said to close (`main.go:62`).

The rest holds on every path or lies in what is left out: the signal handler of
Industrial Test 4 waits for the loop it interrupted; the Industrial environmental
sensor locks a mutex it holds at its first successful open; the backoff of the
ambient sensor is reset by its only connect and never again (`driver.go:197`); the
industrial temperature or humidity sensor answers 200 after an error until its
value is stale (`driver.go:302`); and three directories do not build as committed:
the data acquisition module has two programs in one package, the THS-1000 two
packages and missing imports, the UVC driver missing imports and two C types that
do not exist. Two more probably do not build against the libraries they import,
which are not in the repository: the S7 driver calls `gos7.NewClient()` without a
handler and keeps a `*gos7.Client`, and edge module 11 sets promoted fields in a
composite literal (`collector.go:97`). The models take the names for what they plainly
mean.

A "what if" in a property is a known defect kept out of the way of the rest, not
an assumption about the code: `~overlapped` (Ths200), `abandoned`
(IndustrialTest4), `~raced` and `leaked` (UvcCamera) and `~suspect` (SerialPollers) are
history variables, `ClosedLineAnswers`
excepts the THS-1000 and `ReconnectShows` the ambient sensor, and the findings and
hazards name what goes wrong there.

### Bounds

* Handlers in flight: one for S7 (a transfer; Connect and Disconnect are single
  critical sections and need no identity), XYZ-1000 and THS-200, two for the
  camera. One handler races with the collector or publisher, main and the
  device, which covers the pairs the drivers' locks leave open; in Ths200 main is
  the second caller of restart. A handler of Daq shares nothing with another one.
  IndustrialTest4 needs one, as its lock admits one
  and the others only wait. The theorems hold for any number.
* Background goroutines: two identifiers where a second one could appear
  (maintainers, collectors, publishers, poll threads given up), and one in the
  camera, where `StreamControl` says that a second is never started.
* Sessions and files: as many as the actors can hold at the same time.
* Retry settings: delays 1 up to 4 with a limit of 2 (S7), 1 up to 3
  (XYZ-1000, a maximum that is not a power of two times the initial delay),
  2 attempts and 2 registers (IndustrialTest4): the limit, the cap and the reset
  are all reached. `RetryBound` stops the count of the XYZ-1000, which is
  unbounded in the code, where the delay no longer changes.
* The ring of Daq has three cells and two sample values: it fills, wraps around,
  and a cell overwritten in the wrong place shows. Its delays are 1 up to 3;
  `FailureBound` stops the count where the delay is at its maximum.
* `uvc_camera` uses one configuration, as only its use of the device matters, and
  two descriptors, `Fds = {3, 4}`, for `c.dev` and a snapshot beside it: a third open at
  the same time fails, as an open may at any time.
* `serial_pollers`: two attempts of the THS-1000, so that one is retried and the
  second gives up; counters that wrap around at 2 (the code's at 2^64, and
  `CountersAgree` is proved for any width); two answers under way (`LineBound`), one
  late and the one to the latest request. No bound on the number of polls.
* `sht3x`: waits of 2, 4 and 5, so that the delay doubles and is capped, both
  addresses the code allows, two pairs of offsets. Its initial delay is below the
  maximum; the theorem covers the other pairs.
* `modbus_collectors` has no bounds: the programs have one and two collectors.

### Fairness and deadlock

Weak fairness of the goroutines, threads and system calls of a driver: the
schedulers of Go and Python are fair to runnable threads, and every call modelled
has a deadline in the code or returns by itself. Nothing is assumed of clients:
requests may stop coming. Each run whose liveness needs the device adds an
assumption of its own, by strong fairness of the successful outcome: `PlcReachable`,
`DeviceAnswers` (XYZ-1000, IndustrialTest4, Daq), `BrokerReachable`, `CameraWorks`,
`SensorAnswers` (SerialPollers: an open that is tried for ever succeeds, and so does
the first attempt at each register), and the strong fairness of `Connects` and
`Reads` in ModbusCollectors. `Sht3x` assumes nothing of its sensor.
It says that what is tried again and again succeeds once, and its
properties are then about whether the driver goes on trying. `Return` of a
publisher is strongly fair because Go's select chooses at random between the
context and the ticker.

Deadlock is checked except in the runs of `Ths200` and `UvcCamera`: two overlapping
restarts leave callers that wait for ever, and a second /stream/stop panics with
the mutex locked. Both are real, and named among the findings and hazards.

## What is proved

The theorems are checked by TLAPS for every value of the constants that satisfies
the module's `ConstantsAssumption`: any number of handlers, goroutines, sessions,
files and targets, any retry settings. The assumptions say that identifiers of
different kinds differ and that settings are natural numbers (positive in Daq, whose
`LoadConfig` refuses others, and in SerialPollers, where `config.go:155` of the
THS-1000 makes RETRY_MAX at least 1); that of ModbusCollectors is `ProgramsAssumption`, that of Sht3x
`BackoffAssumption`; `Xyz1000` and `Daq` also assume that the bound on their
counts is reached only when the delay is at its maximum, and `Daq` that its bound
is positive.

* **S7Driver**: `TypeCorrect`, `SingleMaintainerTheorem`,
  `ConnectedHasSessionTheorem`, `RetryLimitTheorem`, and `Refinement`, the safety
  part and with it all of `S7Link`. `SingleMaintainer` alone is not inductive:
  `OneMaintainer` adds that no maintainer exists before `maintainerRun` is set.
  `ConnectedHasSession` needs `DialsOwned` (the session a maintainer dials is
  nobody else's, so a collected or refused one never becomes the client) and
  `ClientLive`; the retirement of the worker needs `StopsReleased` (a closed stop
  channel means a disconnect). `RetryInv` ties the count of tries to the history
  of failures.
* **Xyz1000**: `TypeCorrect`, `ReadsOpenPortTheorem`,
  `ShutdownReleasesPortTheorem`, `BackoffMatchesRetriesTheorem`. The invariant says that one collector runs
  (`OneCollector`), that between its open and its close the driver has a port
  (`CollectorHasPort`), that a port in the driver or in a read is open
  (`HeldOpen`), that a file being stored belongs to the one who opened it
  (`StoresOwn`), and that after Stop everybody is done (`Stopped`). For the delay,
  `BackoffInv` adds what it is before the first retry.
* **Ths200**: `TypeCorrect`, `OnePublisherTheorem`, `LatestConfigTheorem`,
  `TicksOwnClientTheorem`. The invariant follows a context from its making to
  the start of its goroutine (`StartsOwn`, `MadeIsStarted`), says that only one
  caller is at work while `overlapped` is false (`Serial`), that every publisher
  counted is the one d.pubCancel stops (`Cancellable`), that a new one is made
  only when all others are gone (`MakesAfterAll`) and that it is up to date
  unless a caller is about to replace it (`UpToDate`). `TicksOwnClient` is inductive in
  its company: a publisher stores its client when it is the only one counted.
* **Daq**: `TypeCorrect`, `Refinement` (every step is an `Add` of `SampleWindow` or
  a stutter, for every capacity), `StatusCorrect`, `SessionsCorrect`,
  `RunningCorrect` (acquisition is not reported as running while the collector dials;
  no run checks this one), `BackoffTheorem`. `NextIndex` and `Wrap` say what the indices modulo the capacity
  are; `AddWindow` follows one add through the ring, once while it fills and once
  when it is full. `StatusInv` needs that the newest cell of a ring that is not
  empty holds a sample and that each look found what the earlier ones imply;
  `SessionInv` that a session is held by one actor, in the places where that
  actor will close it; `BackoffInv` that the local backoff counts one failure less than
  there were while it is slept, and all of them elsewhere.
* **IndustrialTest4**: `TypeCorrect`, `LinkIsPolledTheorem`,
  `SamplesCurrentDeviceTheorem`. The invariant says where a request is and what
  it has left undone (`InFlight`), that the stop event is set only during a
  request and that a thread not told to stop is alive (`Polled`), that the link
  and the target agree (`LinkIsTarget`), and, until a thread is given up, that there
  is one and that it has read only from the target (`OneThread`, `ReadsTarget`).
* **UvcCamera**: `TypeCorrect`, `StreamerEndedTheorem`, `DeviceReleasedTheorem`,
  `FramesMappedTheorem`, and `Refinement` (every step is one of `StreamControl` or a
  stutter). `TypeInv` gives each actor its `Role` (which device it
  works on and what follows). `EndedInv` says that stoppedCh is closed only
  when the goroutine is off; `ControlInv` that one stop at most is waiting, while the
  camera still streams, and that the goroutine heads for its end only when asked,
  without which a stop could reset a stream it did not stop. `HeldUnlessRaced` says that, while nobody raced, each
  device has one actor at work (`Alone`), the actor that holds a descriptor has
  it open (`Open`), of its own (`Distinct`), every descriptor and every opened device
  has such an actor (`Owned`, `Worked`), and the one C array belongs to the one
  device that is mapped, whose descriptor the kernel has admitted (`Mapped`), and what is
  mapped beyond that was left by an `InitMMap` that failed half way (`Memory`).
* **SerialPollers**: `TypeCorrect`, `ClosedLineTheorem`, `GivingUpResyncsTheorem`,
  `CountersAgreeTheorem`, `ReconnectShowsTheorem` (a poll that has just succeeded is
  shown connected, except in the ambient sensor; no run checks this one).
  `PollInv` says what was read at each place; `LineInv` that outside the THS-1000
  the line is empty except before a close, so `FreshAnswer` makes every answer the
  request's own; `ResyncInv` that while no request of the THS-1000 is suspect its line is
  empty between requests and its poll holds own answers only, which needs that a closed
  port has an empty line and that a poll begins with nothing read; `CountInv` that the counters differ from the retries and the
  attempt under way by whole turns; `ShownInv` what the status shows at each place.
* **ModbusCollectors**: `TypeCorrect`, `NoneLeftOpenTheorem`, `OkHasConnectionTheorem`
  (a link shown connected has a connection or its collector has ended; no run
  checks this one). `LinkInv` says where a collector has a connection; `EndsAlone`
  that the DAQ-2000 program waited for its collectors.
* **Sht3x** (in `Collectors_proofs`): `ShtTypeCorrect`, with the bounds of the delay for
  any two settings, and `ShtOldAddressOnce`. `OldAddressOnce` is not inductive:
  `ShtOldInv` adds that, once a reading of an old address was stored, the measurement
  under way is of the address that is set.

The two theorems about delays are about `initial * 2^n`. The prover has no induction
over numbers, and a power is a recursive function; but the library of theorems
about finite sets knows 2^n as the number of subsets of a set of n elements. So
`PowerDoubles` adds one element and counts: the subsets without it, and the same ones
with it, by a bijection. From 2^(n+1) = 2 * 2^n follows that one doubling and one
cap lead from the delay after n failures to the one after n + 1 (`NextDelay`,
`NextDelays`), and that at the bound of the count the delay stays (`LastDelay`). The
lemmas on powers are in both modules, since a proof module extends one driver.

Each proof goes the same way: the invariant holds initially, one lemma per group
of actions shows that it is kept, `InvInductive` or `InvNext` puts them together,
and each theorem follows from the invariant by PTL. TLC checked the invariants
first, on the models of the runs.

Only model-checked: the liveness properties, since fairness and ENABLED are out of
the prover's reach. Every other property of a passing run is the statement of a
theorem.

## What is left out, and why

Within the modelled drivers: the Modbus and S7 frames, CRCs and register values
(data), the viewers of /stream and the status
answers (they read and change nothing), `SetConfig` of the S7 driver, the
MQTT status callbacks of the THS-200, autostart and shutdown of the camera, the
process exit of the S7 driver, both MQTT clients of the data acquisition module
and the age of its last success; the delays, time stamps, register values and
scaling of `SerialPollers`, `Sht3x` and `ModbusCollectors`, the staleness of values,
the count of reconnects, the log.Fatalf of the ambient sensor's server, the
counters of edge module 11. In `Xyz1000` a handler's late setState may overwrite the
collector's: /measurement then answers 503 although polling works. The variable
is in the model, and no document promises that it agrees with the collector, so no
property says so. In `IndustrialTest4` a read under the old slave id on a new
port (between `driver.py:83` and `86`) can only be made by an abandoned poller.

## The order of the work, and what remains

The modules were written in the order of the weight of their concurrency: the S7
driver and its link, XYZ-1000, THS-200, Industrial Test 4, the camera, the data
acquisition module and its window; then the drivers that repeat one shape (one
collector and a reading under a lock), three and two to a module, and the I2C
sensor, whose settings change during a measurement. What remains repeats what is
there: the Java poller and the two Industrial test drivers would be variants of
`IndustrialTest4`, the other C++ drivers of `SerialPollers`. The numeric helpers (sign
extension, register assembly, CRCs) would be operators over bounded inputs in
modules of their own; the unit of work there is a function, which a test reaches.
