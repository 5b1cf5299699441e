------------------------------ MODULE UvcCamera ------------------------------
(***************************************************************************)
(* The USB UVC camera driver, usb_uvc_camera/driver.go and v4l2_cgo.go:    *)
(* /stream/start, /stream/stop, PUT /config and /snapshot against the      *)
(* capture goroutine.                                                      *)
(*                                                                         *)
(* Camera.mu guards streaming, the channels and the configuration, not the *)
(* device c.dev, which the capture goroutine and ApplyConfig both use.  A  *)
(* snapshot has a device of its own, and all of them share one C array of  *)
(* mapped buffers.  One action is one critical section of mu or one call   *)
(* of a device method; Open and Close, which test a flag, make a system    *)
(* call and then set the flag, are two.                                    *)
(*                                                                         *)
(* The kernel lets one open file at a time set the format and own the      *)
(* buffers.  The file lives until its descriptor is closed and no memory   *)
(* is mapped from it: one whose descriptor was closed while memory was     *)
(* still mapped is Lost, but keeps every other file out.  Frames, their    *)
(* number and the viewers of /stream, backoff delays and the shutdown of   *)
(* main are left out.                                                      *)
(***************************************************************************)
EXTENDS Naturals, FiniteSets

CONSTANTS
  Handlers,      \* requests in flight at the same time
  Streamer,      \* the capture goroutine
  Fds,           \* file descriptors; an open that finds none free fails
  NoFd,
  Lost,          \* the file without a descriptor that mapped memory keeps alive
  Camera,        \* the device c.dev
  Configs

ASSUME ConstantsAssumption ==
  /\ Streamer \notin Handlers
  /\ Camera \notin Handlers
  /\ Fds \subseteq Nat
  /\ NoFd \notin Fds /\ Lost \notin Fds /\ NoFd # Lost
  /\ Configs # {}

Actors == Handlers \cup {Streamer}
Devices == Handlers \cup {Camera}

VARIABLES
  \* fields of Camera
  panicked,      \* mu was left locked by a Stop that panicked
  cfg,
  streaming,
  stopCh,        \* open or closed
  stoppedCh,
  \* fields of each v4l2Device
  opened,
  mapped,
  fd,
  \* the actors
  job,
  pc,
  then,          \* what follows the close of the device
  newCfg,
  \* the kernel and the C array
  fds,           \* the descriptors open
  privileged,    \* the file that may set the format and own buffers
  memory,        \* what is mapped from it: nothing, the n_buffers buffers of the
                 \* array, or some ("stray") that n_buffers does not count
  \* history
  crashed,       \* a frame was copied from memory no longer mapped
  raced,         \* two actors were using c.dev at once
  leaked         \* an InitMMap failed after it had mapped memory

camera == <<panicked, cfg, streaming, stopCh, stoppedCh>>
device == <<opened, mapped, fd>>
actors == <<job, pc, then, newCfg>>
kernel == <<fds, privileged, memory>>
history == <<crashed, raced, leaked>>
vars == <<camera, device, actors, kernel, history>>

DevicePC ==
  {"open", "opening", "configure", "init", "start", "dequeue", "copy", "enqueue",
   "stop", "close", "closing"}
StreamerPC == {"off", "loop", "capture"} \cup DevicePC
HandlerPC == {"idle", "stopWait", "apply", "save"} \cup DevicePC

TypeOK ==
  /\ panicked \in BOOLEAN
  /\ cfg \in Configs
  /\ streaming \in BOOLEAN
  /\ stopCh \in {"open", "closed"}
  /\ stoppedCh \in {"open", "closed"}
  /\ opened \in [Devices -> BOOLEAN]
  /\ mapped \in [Devices -> BOOLEAN]
  /\ fd \in [Devices -> Fds \cup {NoFd}]
  /\ job \in [Actors -> {"none", "stream", "config", "snapshot"}]
  /\ \A h \in Handlers : pc[h] \in HandlerPC
  /\ pc[Streamer] \in StreamerPC
  /\ then \in [Actors -> {"idle", "save", "loop", "off"}]
  /\ newCfg \in [Actors -> Configs]
  /\ fds \subseteq Fds
  /\ privileged \in fds \cup {NoFd, Lost}
  /\ memory \in {"none", "array", "stray"}
  /\ memory # "none" => privileged # NoFd
  /\ crashed \in BOOLEAN
  /\ raced \in BOOLEAN
  /\ leaked \in BOOLEAN
  /\ \A d \in Devices : opened[d] => fd[d] \in Fds

\* What an actor does next when it has closed the device after an error.
Usually(a) == IF a = Streamer THEN "loop" ELSE "idle"

Init ==
  /\ panicked = FALSE
  /\ cfg \in Configs
  /\ streaming = FALSE
  /\ stopCh = "closed"
  /\ stoppedCh = "closed"
  /\ opened = [d \in Devices |-> FALSE]
  /\ mapped = [d \in Devices |-> FALSE]
  /\ fd = [d \in Devices |-> NoFd]
  /\ job = [a \in Actors |-> IF a = Streamer THEN "stream" ELSE "none"]
  /\ pc = [a \in Actors |-> IF a = Streamer THEN "off" ELSE "idle"]
  /\ then = [a \in Actors |-> Usually(a)]
  /\ newCfg = [a \in Actors |-> cfg]
  /\ fds = {}
  /\ privileged = NoFd
  /\ memory = "none"
  /\ crashed = FALSE
  /\ raced = FALSE
  /\ leaked = FALSE

At(a, l) == pc[a] = l
Goto(a, l) == pc' = [pc EXCEPT ![a] = l]

Answer(h) == Goto(h, "idle") /\ job' = [job EXCEPT ![h] = "none"]

DevShared(a) == Camera

\* The device an actor works on, and whether a PUT /config is working on c.dev.
Dev(a) == IF job[a] = "snapshot" THEN a ELSE Camera
OnCamera(a) == job[a] = "config" /\ pc[a] \in DevicePC

-----------------------------------------------------------------------------
(* The critical sections of mu.                                            *)

\* Start does nothing while streaming.  The goroutine it spawns begins unlocked.
Start(h) ==
  /\ At(h, "idle")
  /\ ~panicked
  /\ ~streaming
  /\ streaming' = TRUE
  /\ stopCh' = "open"
  /\ stoppedCh' = "open"
  /\ raced' = (raced \/ \E i \in Handlers : OnCamera(i))
  /\ Goto(Streamer, "loop")
  /\ UNCHANGED <<panicked, cfg, device, job, then, newCfg, kernel, crashed, leaked>>

StopUnsynced(h) ==
  /\ At(h, "idle")
  /\ ~panicked
  /\ streaming
  /\ stopCh = "open"
  /\ stopCh' = "closed"
  /\ streaming' = FALSE
  /\ Goto(h, "stopWait")
  /\ UNCHANGED <<panicked, cfg, stoppedCh, device, job, then, newCfg, kernel, history>>

Stop(h) ==
  /\ At(h, "idle")
  /\ ~panicked
  /\ streaming
  /\ stopCh = "open"
  /\ stopCh' = "closed"
  /\ Goto(h, "stopWait")
  /\ UNCHANGED <<panicked, cfg, streaming, stoppedCh, device, job, then, newCfg, kernel,
                 history>>

\* A second Stop closes the channel again, panics, and net/http recovers.
StopTwice(h) ==
  /\ At(h, "idle")
  /\ ~panicked
  /\ streaming
  /\ stopCh = "closed"
  /\ panicked' = TRUE
  /\ UNCHANGED <<cfg, streaming, stopCh, stoppedCh, device, actors, kernel, history>>

\* Stop has waited for the goroutine and takes the mutex again.
StopDone(h) ==
  /\ At(h, "stopWait")
  /\ stoppedCh = "closed"
  /\ ~panicked
  /\ streaming' = FALSE
  /\ Goto(h, "idle")
  /\ UNCHANGED <<panicked, cfg, stopCh, stoppedCh, device, job, then, newCfg, kernel,
                 history>>

\* Configure refuses while streaming; ApplyConfig looks again, unlocked.
Configure(h, k) ==
  /\ At(h, "idle")
  /\ ~panicked
  /\ ~streaming
  /\ job' = [job EXCEPT ![h] = "config"]
  /\ newCfg' = [newCfg EXCEPT ![h] = k]
  /\ Goto(h, "apply")
  /\ UNCHANGED <<camera, device, then, kernel, history>>

ApplyConfig(h) ==
  /\ At(h, "apply")
  /\ IF streaming
     THEN Answer(h) /\ UNCHANGED raced
     ELSE /\ Goto(h, "open")
          /\ raced' = (raced \/ \E i \in Handlers : OnCamera(i))
          /\ UNCHANGED job
  /\ UNCHANGED <<camera, device, then, newCfg, kernel, crashed, leaked>>

Save(h) ==
  /\ At(h, "save")
  /\ ~panicked
  /\ cfg' = newCfg[h]
  /\ Answer(h)
  /\ UNCHANGED <<panicked, streaming, stopCh, stoppedCh, device, then, newCfg, kernel,
                 history>>

\* A snapshot of a camera that is streaming only loads the last frame.
Snapshot(h) ==
  /\ At(h, "idle")
  /\ ~panicked
  /\ ~streaming
  /\ job' = [job EXCEPT ![h] = "snapshot"]
  /\ Goto(h, "open")
  /\ UNCHANGED <<camera, device, then, newCfg, kernel, history>>

-----------------------------------------------------------------------------
(* The loops of runStreaming between the calls of the device.              *)

\* A stop that was asked for ends the goroutine.
End == Goto(Streamer, "stop") /\ then' = [then EXCEPT ![Streamer] = "off"]

Loop ==
  /\ At(Streamer, "loop")
  /\ IF stopCh = "closed" THEN End ELSE Goto(Streamer, "open") /\ UNCHANGED then
  /\ UNCHANGED <<camera, device, job, newCfg, kernel, history>>

CaptureIgnoresStop ==
  /\ At(Streamer, "capture")
  /\ Goto(Streamer, "dequeue")
  /\ UNCHANGED <<camera, device, job, then, newCfg, kernel, history>>

Capture ==
  /\ At(Streamer, "capture")
  /\ IF stopCh = "closed" THEN End ELSE Goto(Streamer, "dequeue") /\ UNCHANGED then
  /\ UNCHANGED <<camera, device, job, newCfg, kernel, history>>

-----------------------------------------------------------------------------
(* The device, as the goroutine, ApplyConfig and Snapshot call it.  Every  *)
(* error leads them to close it and, the goroutine, to start again.        *)

\* The device is done with: a snapshot drops it, a goroutine that ends closes
\* stoppedCh.
Finish(a) ==
  /\ Goto(a, then[a])
  /\ then' = [then EXCEPT ![a] = Usually(a)]
  /\ job' = [job EXCEPT ![a] = IF then[a] = "idle" THEN "none" ELSE @]
  /\ fd' = IF job[a] = "snapshot" THEN [fd EXCEPT ![a] = NoFd] ELSE fd
  /\ stoppedCh' = IF then[a] = "off" THEN "closed" ELSE stoppedCh

OpenBegins(a) ==
  /\ At(a, "open")
  /\ Goto(a, IF opened[Dev(a)] THEN "configure" ELSE "opening")
  /\ UNCHANGED <<camera, device, job, then, newCfg, kernel, history>>

\* open(2) returns the lowest descriptor that is free.
OpenSucceeds(a) ==
  /\ At(a, "opening")
  /\ \E f \in Fds \ fds :
       /\ \A e \in Fds \ fds : f <= e
       /\ fds' = fds \cup {f}
       /\ fd' = [fd EXCEPT ![Dev(a)] = f]
  /\ opened' = [opened EXCEPT ![Dev(a)] = TRUE]
  /\ Goto(a, "configure")
  /\ UNCHANGED <<camera, mapped, job, then, newCfg, privileged, memory, history>>

OpenFails(a) ==
  /\ At(a, "opening")
  /\ Finish(a)
  /\ UNCHANGED <<panicked, cfg, streaming, stopCh, opened, mapped, newCfg, kernel,
                 history>>

\* The kernel serves a descriptor that is open, while no other file is privileged.
Admitted(a) ==
  /\ opened[Dev(a)]
  /\ fd[Dev(a)] \in fds
  /\ privileged \in {NoFd, fd[Dev(a)]}

ConfigureSucceeds(a) ==
  /\ At(a, "configure")
  /\ Admitted(a)
  /\ memory = "none"
  /\ privileged' = fd[Dev(a)]
  /\ IF job[a] = "config"
     THEN Goto(a, "close") /\ then' = [then EXCEPT ![a] = "save"]
     ELSE Goto(a, "init") /\ UNCHANGED then
  /\ UNCHANGED <<camera, device, job, newCfg, fds, memory, history>>

\* VIDIOC_S_FMT may succeed and VIDIOC_S_PARM fail.
ConfigureFails(a) ==
  /\ At(a, "configure")
  /\ privileged' \in {privileged} \cup (IF Admitted(a) THEN {fd[Dev(a)]} ELSE {})
  /\ Goto(a, "close")
  /\ UNCHANGED <<camera, device, job, then, newCfg, fds, memory, history>>

InitMMapSucceeds(a) ==
  /\ At(a, "init")
  /\ Admitted(a)
  /\ memory = "none"
  /\ privileged' = fd[Dev(a)]
  /\ memory' = "array"
  /\ mapped' = [mapped EXCEPT ![Dev(a)] = TRUE]
  /\ Goto(a, "start")
  /\ UNCHANGED <<camera, opened, fd, job, then, newCfg, fds, history>>

\* uvc_init_mmap gives up at once; or after VIDIOC_REQBUFS, with no buffer or
\* some of them mapped and n_buffers not set yet; or, in VIDIOC_QBUF, with all of
\* them.  It unmaps none, and d.mapped is not set.
GivesUp(a) ==
  \/ UNCHANGED <<kernel, leaked>>
  \/ /\ Admitted(a)
     /\ memory = "none"
     /\ privileged' = fd[Dev(a)]
     /\ memory' \in {"none", "stray", "array"}
     /\ leaked' = (leaked \/ memory' # "none")
     /\ UNCHANGED fds

InitMMapFails(a) ==
  /\ At(a, "init")
  /\ GivesUp(a)
  /\ Goto(a, "close")
  /\ UNCHANGED <<camera, device, job, then, newCfg, crashed, raced>>

StartSucceeds(a) ==
  /\ At(a, "start")
  /\ Admitted(a)
  /\ Goto(a, IF job[a] = "stream" THEN "capture" ELSE "dequeue")
  /\ UNCHANGED <<camera, device, job, then, newCfg, kernel, history>>

\* The goroutine stops the device first, a snapshot only closes it.
StartFails(a) ==
  /\ At(a, "start")
  /\ Goto(a, IF job[a] = "stream" THEN "stop" ELSE "close")
  /\ UNCHANGED <<camera, device, job, then, newCfg, kernel, history>>

DequeueTimesOut ==
  /\ At(Streamer, "dequeue")
  /\ opened[Camera]
  /\ Goto(Streamer, "capture")
  /\ UNCHANGED <<camera, device, job, then, newCfg, kernel, history>>

\* An error, or the deadline of the snapshot.
DequeueFails(a) ==
  /\ At(a, "dequeue")
  /\ Goto(a, "stop")
  /\ UNCHANGED <<camera, device, job, then, newCfg, kernel, history>>

DequeueSucceeds(a) ==
  /\ At(a, "dequeue")
  /\ Admitted(a)
  /\ memory = "array"
  /\ Goto(a, "copy")
  /\ UNCHANGED <<camera, device, job, then, newCfg, kernel, history>>

Copy(a) ==
  /\ At(a, "copy")
  /\ crashed' = (crashed \/ memory # "array" \/ privileged # fd[Dev(a)])
  /\ Goto(a, "enqueue")
  /\ UNCHANGED <<camera, device, job, then, newCfg, kernel, raced, leaked>>

\* A snapshot has its frame and does not look at the result.
Enqueue(a) ==
  /\ At(a, "enqueue")
  /\ \/ job[a] = "stream" /\ Goto(a, "capture")
     \/ Goto(a, "stop")
  /\ UNCHANGED <<camera, device, job, then, newCfg, kernel, history>>

\* uvc_uninit_mmap unmaps the array, whichever device it was mapped for.
Unmap(a, condition) ==
  /\ memory' = IF condition /\ memory = "array" THEN "none" ELSE memory
  /\ mapped' = [mapped EXCEPT ![Dev(a)] = @ /\ ~condition]

\* What becomes of the privileged file when f is closed: without a descriptor it
\* lives as long as memory is mapped from it.
Survivor(f) ==
  IF privileged \notin {f, Lost} THEN privileged
  ELSE IF memory' = "none" THEN NoFd ELSE Lost

StopDevice(a) ==
  /\ At(a, "stop")
  /\ Unmap(a, opened[Dev(a)])
  /\ privileged' = Survivor(Lost)
  /\ Goto(a, "close")
  /\ UNCHANGED <<camera, opened, fd, job, then, newCfg, fds, history>>

CloseNothing(a) ==
  /\ At(a, "close")
  /\ ~opened[Dev(a)]
  /\ Finish(a)
  /\ UNCHANGED <<panicked, cfg, streaming, stopCh, opened, mapped, newCfg, kernel,
                 history>>

CloseBegins(a) ==
  /\ At(a, "close")
  /\ opened[Dev(a)]
  /\ fd[Dev(a)] \in fds
  /\ Unmap(a, mapped[Dev(a)])
  /\ fds' = fds \ {fd[Dev(a)]}
  /\ privileged' = Survivor(fd[Dev(a)])
  /\ Goto(a, "closing")
  /\ UNCHANGED <<camera, opened, fd, job, then, newCfg, history>>

\* The descriptor was closed by another: the flag stays set.
CloseFails(a) ==
  /\ At(a, "close")
  /\ opened[Dev(a)]
  /\ fd[Dev(a)] \notin fds
  /\ Unmap(a, mapped[Dev(a)])
  /\ privileged' = Survivor(Lost)
  /\ opened' = [opened EXCEPT ![Dev(a)] = job[a] # "snapshot"]
  /\ Finish(a)
  /\ UNCHANGED <<panicked, cfg, streaming, stopCh, newCfg, fds, history>>

CloseForgotten(a) ==
  /\ At(a, "closing")
  /\ Finish(a)
  /\ UNCHANGED <<panicked, cfg, streaming, stopCh, opened, mapped, newCfg, kernel,
                 history>>

CloseEnds(a) ==
  /\ At(a, "closing")
  /\ opened' = [opened EXCEPT ![Dev(a)] = FALSE]
  /\ Finish(a)
  /\ UNCHANGED <<panicked, cfg, streaming, stopCh, mapped, newCfg, kernel, history>>

-----------------------------------------------------------------------------
DeviceCall(a) ==
  \/ OpenBegins(a) \/ OpenSucceeds(a) \/ OpenFails(a)
  \/ ConfigureSucceeds(a) \/ ConfigureFails(a)
  \/ InitMMapSucceeds(a) \/ InitMMapFails(a) \/ StartSucceeds(a) \/ StartFails(a)
  \/ DequeueSucceeds(a) \/ DequeueFails(a) \/ Copy(a) \/ Enqueue(a) \/ StopDevice(a)
  \/ CloseNothing(a) \/ CloseBegins(a) \/ CloseFails(a) \/ CloseEnds(a)

Request(h) ==
  \/ Start(h) \/ Stop(h) \/ StopTwice(h) \/ Snapshot(h)
  \/ \E k \in Configs : Configure(h, k)

Handler(h) == StopDone(h) \/ ApplyConfig(h) \/ Save(h)

Stream == Loop \/ Capture \/ DequeueTimesOut

Next ==
  \/ \E h \in Handlers : Request(h) \/ Handler(h)
  \/ Stream
  \/ \E a \in Actors : DeviceCall(a)

Spec == Init /\ [][Next]_vars

\* Goroutines run, and every call of the device returns.
Fairness ==
  /\ \A h \in Handlers : WF_vars(Handler(h) \/ DeviceCall(h))
  /\ WF_vars(Stream \/ DeviceCall(Streamer))

\* The camera works: a call repeated for ever succeeds.
CameraWorks ==
  /\ SF_vars(OpenSucceeds(Streamer))
  /\ SF_vars(ConfigureSucceeds(Streamer))
  /\ SF_vars(InitMMapSucceeds(Streamer))
  /\ SF_vars(StartSucceeds(Streamer))
  /\ SF_vars(DequeueSucceeds(Streamer))

WorkingSpec == Spec /\ Fairness /\ CameraWorks

-----------------------------------------------------------------------------
(* Properties.                                                             *)

\* However starts and stops overlap and whatever the camera does, the capture
\* goroutine lives from a start to the stop that asks it to end, and streaming
\* is reset only when it has ended: what StreamControl promises.
Phase ==
  IF ~streaming THEN "idle"
  ELSE IF stopCh = "open" THEN "streaming" ELSE "stopping"
Worker == IF At(Streamer, "off") THEN "gone" ELSE "alive"

Control == INSTANCE StreamControl
             WITH phase <- Phase, worker <- Worker, stuck <- panicked
ControlSpec == Control!Spec

\* In particular Start never spawns a second capture goroutine.
StreamerEnded == ~streaming => At(Streamer, "off")

\* Unless two actors were at c.dev at once, a driver that does nothing has the
\* device closed and no descriptor open, whatever failed before; and unless an
\* InitMMap failed half way, no file of the camera is kept by mapped memory.
DeviceReleased ==
  (~raced /\ ~streaming /\ \A h \in Handlers : At(h, "idle")) =>
    /\ fds = {} /\ ~opened[Camera]
    /\ leaked \/ (privileged = NoFd /\ memory = "none")

\* ... and no frame is copied from memory that is no longer mapped, although
\* snapshots and the stream share one array of buffers.
FramesMapped == ~raced => ~crashed

\* A /stream/stop that is not met by a second one answers.
StopReturns ==
  \A h \in Handlers : At(h, "stopWait") ~> (At(h, "idle") \/ panicked)

\* A started stream captures frames from a camera that works, whatever snapshot
\* it found under way, unless it is stopped, meets a configuration change or
\* an InitMMap, its own or a snapshot's, has failed half way.
Streams ==
  (streaming /\ stopCh = "open") ~>
    (stopCh = "closed" \/ raced \/ leaked \/ At(Streamer, "enqueue"))
=============================================================================
