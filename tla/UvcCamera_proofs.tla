------------------------- MODULE UvcCamera_proofs --------------------------
(***************************************************************************)
(* Proofs about UvcCamera for any number of requests in flight and any     *)
(* set of descriptors.                                                     *)
(***************************************************************************)
EXTENDS UvcCamera, TLAPS

PCs == StreamerPC \cup HandlerPC
Jobs == {"none", "stream", "config", "snapshot"}
Thens == {"idle", "save", "loop", "off"}

(* What an actor may be doing: the capture goroutine works on c.dev, and a *)
(* handler on the device of its request.                                   *)
Role(a) ==
  IF a = Streamer
  THEN job[a] = "stream" /\ pc[a] \in StreamerPC /\ then[a] \in {"loop", "off"}
  ELSE /\ pc[a] \in HandlerPC
       /\ job[a] \in {"none", "config", "snapshot"}
       /\ then[a] \in {"idle", "save"}
       /\ then[a] = "save" => job[a] = "config" /\ pc[a] \in DevicePC
       /\ pc[a] \in {"idle", "stopWait"} => job[a] = "none"
       /\ pc[a] \in {"apply", "save"} => job[a] = "config"
       /\ pc[a] \in DevicePC => job[a] \in {"config", "snapshot"}
       /\ job[a] = "snapshot" /\ pc[a] = "opening" => ~opened[a]

CameraOK ==
  /\ panicked \in BOOLEAN /\ cfg \in Configs /\ streaming \in BOOLEAN
  /\ stopCh \in {"open", "closed"} /\ stoppedCh \in {"open", "closed"}
DeviceOK ==
  /\ opened \in [Devices -> BOOLEAN]
  /\ mapped \in [Devices -> BOOLEAN]
  /\ fd \in [Devices -> Fds \cup {NoFd}]
  /\ \A d \in Devices : opened[d] => fd[d] \in Fds
ActorsOK ==
  /\ pc \in [Actors -> PCs]
  /\ job \in [Actors -> Jobs]
  /\ then \in [Actors -> Thens]
  /\ newCfg \in [Actors -> Configs]
KernelOK ==
  /\ fds \subseteq Fds
  /\ privileged \in fds \cup {NoFd, Lost}
  /\ memory \in {"none", "array", "stray"}
  /\ memory # "none" => privileged # NoFd
HistoryOK == crashed \in BOOLEAN /\ raced \in BOOLEAN /\ leaked \in BOOLEAN

TypeInv ==
  /\ CameraOK /\ DeviceOK /\ ActorsOK /\ KernelOK /\ HistoryOK
  /\ \A a \in Actors : Role(a)

LEMMA TypeInvType == TypeInv => TypeOK
  BY ConstantsAssumption
     DEF TypeInv, CameraOK, DeviceOK, ActorsOK, KernelOK, HistoryOK, TypeOK, Role, Actors, Jobs,
     Thens

LEMMA NextCases ==
  ASSUME [Next]_vars
  PROVE  \/ \E h \in Handlers : Request(h) \/ Handler(h)
         \/ Stream
         \/ \E a \in Actors : DeviceCall(a)
         \/ UNCHANGED vars
  BY DEF Next

LEMMA DevOK ==
  ASSUME TypeInv, NEW a \in Actors
  PROVE  Dev(a) \in Devices /\ (a = Streamer => Dev(a) = Camera)
  BY ConstantsAssumption DEF TypeInv, Role, Dev, Actors, Devices

(* The role of an actor that takes no part in a step. *)
LEMMA Bystander ==
  ASSUME NEW b \in Actors, Role(b), pc'[b] = pc[b], job'[b] = job[b], then'[b] = then[b],
         b \in Handlers /\ job[b] = "snapshot" => opened'[b] = opened[b]
  PROVE  Role(b)'
  BY DEF Role, Actors

LEMMA TypeDeviceCall ==
  ASSUME TypeInv, NEW a \in Actors, DeviceCall(a)
  PROVE  TypeInv'
<1>1. Dev(a) \in Devices /\ Role(a)
  BY DevOK DEF TypeInv
<1>2. ActorsOK'
  <2> USE DEF TypeInv, ActorsOK, Role, Goto, At
  <2>1. CASE OpenBegins(a) \/ OpenSucceeds(a) \/ ConfigureSucceeds(a) \/ ConfigureFails(a)
    BY <1>1, <2>1 DEF OpenBegins, OpenSucceeds, ConfigureSucceeds, ConfigureFails, PCs, StreamerPC,
          HandlerPC, DevicePC, Thens, device
  <2>2. CASE InitMMapSucceeds(a) \/ InitMMapFails(a) \/ StartSucceeds(a) \/ StartFails(a)
    BY <1>1, <2>2 DEF InitMMapSucceeds, InitMMapFails, StartSucceeds, StartFails, PCs, StreamerPC,
          HandlerPC, DevicePC
  <2>3. CASE DequeueSucceeds(a) \/ DequeueFails(a) \/ Copy(a) \/ Enqueue(a) \/ StopDevice(a)
    BY <1>1, <2>3 DEF DequeueSucceeds, DequeueFails, Copy, Enqueue, StopDevice, PCs, StreamerPC,
          HandlerPC, DevicePC
  <2>4. CASE OpenFails(a) \/ CloseNothing(a) \/ CloseFails(a) \/ CloseEnds(a)
    BY <1>1, <2>4 DEF OpenFails, CloseNothing, CloseFails, CloseEnds, Finish, Usually, PCs,
          StreamerPC, HandlerPC, DevicePC, Jobs, Thens
  <2>5. CASE CloseBegins(a)
    BY <1>1, <2>5 DEF CloseBegins, PCs, StreamerPC, HandlerPC, DevicePC
  <2>6. QED
    BY <2>1, <2>2, <2>3, <2>4, <2>5 DEF DeviceCall
<1>3. \A b \in Actors : b # a => pc'[b] = pc[b] /\ job'[b] = job[b] /\ then'[b] = then[b]
  <2> USE DEF TypeInv, ActorsOK, Goto
  <2>1. CASE OpenBegins(a) \/ OpenSucceeds(a) \/ ConfigureSucceeds(a) \/ ConfigureFails(a)
    BY <2>1 DEF OpenBegins, OpenSucceeds, ConfigureSucceeds, ConfigureFails
  <2>2. CASE InitMMapSucceeds(a) \/ InitMMapFails(a) \/ StartSucceeds(a) \/ StartFails(a)
    BY <2>2 DEF InitMMapSucceeds, InitMMapFails, StartSucceeds, StartFails
  <2>3. CASE DequeueSucceeds(a) \/ DequeueFails(a) \/ Copy(a) \/ Enqueue(a) \/ StopDevice(a)
    BY <2>3 DEF DequeueSucceeds, DequeueFails, Copy, Enqueue, StopDevice
  <2>4. CASE OpenFails(a) \/ CloseNothing(a) \/ CloseFails(a) \/ CloseEnds(a)
    BY <2>4 DEF OpenFails, CloseNothing, CloseFails, CloseEnds, Finish
  <2>5. CASE CloseBegins(a)
    BY <2>5 DEF CloseBegins
  <2>6. QED
    BY <2>1, <2>2, <2>3, <2>4, <2>5 DEF DeviceCall
<1>4. \A d \in Devices : d # Dev(a) => opened'[d] = opened[d]
  BY DEF TypeInv, DeviceOK, DeviceCall, OpenBegins, OpenSucceeds, OpenFails, ConfigureSucceeds,
         ConfigureFails, InitMMapSucceeds, InitMMapFails, StartSucceeds, StartFails,
         DequeueSucceeds,
         DequeueFails, Copy, Enqueue, StopDevice, CloseNothing, CloseBegins, CloseFails, CloseEnds,
         device
<1>5. Role(a)'
  <2> USE DEF TypeInv, ActorsOK, DeviceOK, Role, Goto, At
  <2>1. CASE OpenBegins(a)
    BY <1>1, <2>1 DEF OpenBegins, Dev, Actors, StreamerPC, HandlerPC, DevicePC, device
  <2>2. CASE OpenSucceeds(a) \/ ConfigureFails(a)
    BY <1>1, <2>2 DEF OpenSucceeds, ConfigureFails, StreamerPC, HandlerPC, DevicePC
  <2>3. CASE ConfigureSucceeds(a)
    BY <1>1, <2>3 DEF ConfigureSucceeds, StreamerPC, HandlerPC, DevicePC
  <2>4. CASE InitMMapSucceeds(a) \/ InitMMapFails(a) \/ StartSucceeds(a) \/ StartFails(a)
    BY <1>1, <2>4 DEF InitMMapSucceeds, InitMMapFails, StartSucceeds, StartFails, StreamerPC,
          HandlerPC, DevicePC
  <2>5. CASE DequeueSucceeds(a) \/ DequeueFails(a) \/ Copy(a) \/ Enqueue(a) \/ StopDevice(a)
    BY <1>1, <2>5 DEF DequeueSucceeds, DequeueFails, Copy, Enqueue, StopDevice, StreamerPC,
          HandlerPC, DevicePC
  <2>6. CASE OpenFails(a) \/ CloseNothing(a) \/ CloseFails(a) \/ CloseEnds(a)
    BY <1>1, <2>6 DEF OpenFails, CloseNothing, CloseFails, CloseEnds, Finish, Usually,
          StreamerPC, HandlerPC, DevicePC
  <2>7. CASE CloseBegins(a)
    BY <1>1, <2>7 DEF CloseBegins, StreamerPC, HandlerPC, DevicePC
  <2>8. QED
    BY <2>1, <2>2, <2>3, <2>4, <2>5, <2>6, <2>7 DEF DeviceCall
<1>6. \A b \in Actors : Role(b)'
  <2> SUFFICES ASSUME NEW b \in Actors, b # a PROVE Role(b)'
    BY <1>5
  <2>1. b \in Handlers /\ job[b] = "snapshot" => b \in Devices /\ b # Dev(a)
    BY ConstantsAssumption DEF Dev, Devices
  <2>2. QED
    BY <1>3, <1>4, <2>1, Bystander DEF TypeInv
<1>7. CameraOK' /\ HistoryOK'
  <2>1. UNCHANGED <<panicked, cfg, streaming, stopCh, raced>>
    BY DEF DeviceCall, OpenBegins, OpenSucceeds, OpenFails, ConfigureSucceeds,
         ConfigureFails, InitMMapSucceeds, InitMMapFails, StartSucceeds, StartFails,
         DequeueSucceeds,
         DequeueFails, Copy, Enqueue, StopDevice, CloseNothing, CloseBegins, CloseFails, CloseEnds,
         camera, history
  <2>2. stoppedCh' \in {stoppedCh, "closed"}
    BY DEF DeviceCall, OpenBegins, OpenSucceeds, OpenFails, ConfigureSucceeds,
         ConfigureFails, InitMMapSucceeds, InitMMapFails, StartSucceeds, StartFails,
         DequeueSucceeds,
         DequeueFails, Copy, Enqueue, StopDevice, CloseNothing, CloseBegins, CloseFails, CloseEnds,
         Finish, camera
  <2>3. crashed' \in BOOLEAN /\ leaked' \in BOOLEAN
    BY DEF TypeInv, history, GivesUp, HistoryOK, DeviceCall, OpenBegins, OpenSucceeds, OpenFails,
       ConfigureSucceeds,
         ConfigureFails, InitMMapSucceeds, InitMMapFails, StartSucceeds, StartFails,
         DequeueSucceeds,
         DequeueFails, Copy, Enqueue, StopDevice, CloseNothing, CloseBegins, CloseFails, CloseEnds
  <2>4. QED
    BY <2>1, <2>2, <2>3 DEF TypeInv, CameraOK, HistoryOK
<1>8. DeviceOK'
  <2> USE DEF TypeInv, DeviceOK
  <2>1. CASE UNCHANGED device
    BY <2>1 DEF device
  <2>2. CASE OpenSucceeds(a)
    BY <1>1, <2>2 DEF OpenSucceeds, KernelOK
  <2>3. CASE InitMMapSucceeds(a)
    BY <1>1, <2>3 DEF InitMMapSucceeds
  <2>4. CASE StopDevice(a)
    BY <1>1, <2>4 DEF StopDevice, Unmap
  <2>5. CASE OpenFails(a)
    BY <1>1, <2>5 DEF OpenFails, Finish, Role, At, Dev, DevicePC
  <2>6. CASE CloseNothing(a)
    BY <1>1, <2>6 DEF CloseNothing, Finish, Dev
  <2>7. CASE CloseBegins(a)
    BY <1>1, <2>7 DEF CloseBegins, Unmap
  <2>8. CASE CloseFails(a)
    <3>1. /\ opened' = [opened EXCEPT ![Dev(a)] = job[a] # "snapshot"]
          /\ mapped' = [mapped EXCEPT ![Dev(a)] = @ /\ ~mapped[Dev(a)]]
          /\ fd' = IF job[a] = "snapshot" THEN [fd EXCEPT ![a] = NoFd] ELSE fd
          /\ opened[Dev(a)]
      BY <2>8 DEF CloseFails, Finish, Unmap
    <3>2. job[a] = "snapshot" => Dev(a) = a
      BY DEF Dev
    <3>3. QED
      BY <1>1, <3>1, <3>2
  <2>9. CASE CloseEnds(a)
    BY <1>1, <2>9 DEF CloseEnds, Finish, Dev
  <2>10. QED
    BY <2>1, <2>2, <2>3, <2>4, <2>5, <2>6, <2>7, <2>8, <2>9
       DEF DeviceCall, OpenBegins, ConfigureSucceeds, ConfigureFails, InitMMapFails, StartSucceeds,
           StartFails, DequeueSucceeds, DequeueFails, Copy, Enqueue
<1>9. KernelOK'
  <2> USE DEF TypeInv, KernelOK
  <2>1. CASE UNCHANGED kernel
    BY <2>1 DEF kernel
  <2>2. CASE OpenSucceeds(a)
    BY <2>2 DEF OpenSucceeds
  <2>3. CASE ConfigureSucceeds(a) \/ ConfigureFails(a)
    BY <2>3, ConstantsAssumption DEF ConfigureSucceeds, ConfigureFails, Admitted
  <2>4. CASE InitMMapSucceeds(a)
    BY <2>4, ConstantsAssumption DEF InitMMapSucceeds, Admitted
  <2>5. CASE StopDevice(a) \/ CloseFails(a)
    BY <2>5, ConstantsAssumption DEF StopDevice, CloseFails, Unmap, Survivor
  <2>6. CASE CloseBegins(a)
    BY <2>6, ConstantsAssumption DEF CloseBegins, Unmap, Survivor
  <2>7. CASE InitMMapFails(a)
    BY <2>7, ConstantsAssumption DEF InitMMapFails, GivesUp, Admitted, kernel
  <2>8. QED
    BY <2>1, <2>2, <2>3, <2>4, <2>5, <2>6, <2>7
       DEF DeviceCall, OpenBegins, OpenFails, StartSucceeds, StartFails, DequeueSucceeds,
       DequeueFails, Copy, Enqueue, CloseNothing, CloseEnds
<1>10. QED
  BY <1>2, <1>6, <1>7, <1>8, <1>9 DEF TypeInv

LEMMA TypeRequest ==
  ASSUME TypeInv, NEW h \in Handlers, Request(h) \/ Handler(h)
  PROVE  TypeInv'
<1> USE DEF TypeInv
<1>1. h \in Actors /\ Streamer \in Actors /\ h # Streamer /\ Role(h) /\ Role(Streamer)
  BY ConstantsAssumption DEF Actors
<1>2. CASE Start(h)
  <2>1. /\ pc' = [pc EXCEPT ![Streamer] = "loop"]
        /\ UNCHANGED <<panicked, cfg, device, job, then, newCfg, kernel, crashed, leaked>>
        /\ streaming' = TRUE /\ stopCh' = "open" /\ stoppedCh' = "open"
        /\ raced' = (raced \/ \E i \in Handlers : OnCamera(i))
    BY <1>2 DEF Start, Goto
  <2>2. CameraOK' /\ DeviceOK' /\ KernelOK' /\ HistoryOK'
    BY <2>1 DEF CameraOK, DeviceOK, KernelOK, HistoryOK, device, kernel
  <2>3. ActorsOK'
    BY <1>1, <2>1 DEF ActorsOK, PCs, StreamerPC
  <2>4. Role(Streamer)'
    BY <1>1, <2>1 DEF ActorsOK, Role, StreamerPC
  <2>5. \A b \in Actors : b # Streamer => Role(b)'
    BY <1>1, <2>1, Bystander DEF ActorsOK, device
  <2>6. QED
    BY <2>2, <2>3, <2>4, <2>5
<1>3. CASE ~Start(h)
  <2>1. \A b \in Actors : b # h => pc'[b] = pc[b] /\ job'[b] = job[b] /\ then'[b] = then[b]
    BY <1>3 DEF ActorsOK, Request, Handler, Stop, StopTwice, StopDone, Configure, ApplyConfig, Save,
           Snapshot, Answer, Goto, actors
  <2>2. UNCHANGED <<device, kernel, crashed, leaked>>
    BY <1>3 DEF history, Request, Handler, Stop, StopTwice, StopDone, Configure, ApplyConfig,
       Save, Snapshot
  <2>3. DeviceOK' /\ KernelOK'
    BY <2>2 DEF DeviceOK, KernelOK, device, kernel
  <2>4. CameraOK'
    BY <1>1, <1>3
       DEF CameraOK, ActorsOK, Request, Handler, Stop, StopTwice, StopDone, Configure, ApplyConfig,
           Save, Snapshot, camera
  <2>5. HistoryOK'
    BY <1>3, <2>2
       DEF HistoryOK, history, Request, Handler, Stop, StopTwice, StopDone, Configure, ApplyConfig,
           Save, Snapshot
  <2>6. ActorsOK'
    BY <1>1, <1>3
       DEF ActorsOK, PCs, HandlerPC, DevicePC, Jobs, Request, Handler, Stop, StopTwice, StopDone,
           Configure, ApplyConfig, Save, Snapshot, Answer, Goto, actors
  <2>7. Role(h)'
    <3> USE <1>1 DEF ActorsOK, Role, Goto, At
    <3>1. CASE Stop(h) \/ StopTwice(h) \/ StopDone(h)
      BY <3>1 DEF Stop, StopTwice, StopDone, HandlerPC, DevicePC, actors, device
    <3>2. CASE \E k \in Configs : Configure(h, k)
      BY <3>2 DEF Configure, HandlerPC, DevicePC
    <3>3. CASE ApplyConfig(h)
      BY <3>3 DEF ApplyConfig, Answer, HandlerPC, DevicePC
    <3>4. CASE Save(h)
      BY <3>4 DEF Save, Answer, HandlerPC, DevicePC
    <3>5. CASE Snapshot(h)
      BY <3>5 DEF Snapshot, HandlerPC, DevicePC
    <3>6. QED
      BY <1>3, <3>1, <3>2, <3>3, <3>4, <3>5 DEF Request, Handler
  <2>8. \A b \in Actors : Role(b)'
    BY <2>1, <2>2, <2>7, Bystander DEF device
  <2>9. QED
    BY <2>3, <2>4, <2>5, <2>6, <2>8
<1>4. QED
  BY <1>2, <1>3

LEMMA TypeStream ==
  ASSUME TypeInv, Stream
  PROVE  TypeInv'
<1> USE DEF TypeInv
<1>1. Streamer \in Actors /\ Role(Streamer)
  BY DEF Actors
<1>2. UNCHANGED <<camera, device, job, newCfg, kernel, crashed, raced, leaked>>
  BY DEF history, Stream, Loop, Capture, DequeueTimesOut
<1>3. CameraOK' /\ DeviceOK' /\ KernelOK' /\ HistoryOK'
  BY <1>2 DEF CameraOK, DeviceOK, KernelOK, HistoryOK, camera, device, kernel
<1>4. ActorsOK'
  BY <1>1, <1>2 DEF ActorsOK, Stream, Loop, Capture, DequeueTimesOut, End, Goto, PCs, StreamerPC,
        DevicePC, Thens
<1>5. Role(Streamer)'
  BY <1>1, <1>2 DEF ActorsOK, Role, Stream, Loop, Capture, DequeueTimesOut, End, Goto, StreamerPC,
        DevicePC
<1>6. \A b \in Actors : b # Streamer => pc'[b] = pc[b] /\ then'[b] = then[b]
  BY <1>1 DEF ActorsOK, Stream, Loop, Capture, DequeueTimesOut, End, Goto
<1>7. \A b \in Actors : Role(b)'
  BY <1>2, <1>5, <1>6, Bystander DEF device
<1>8. QED
  BY <1>3, <1>4, <1>7

LEMMA TypeInit ==
  ASSUME Init
  PROVE  TypeInv
<1>1. CameraOK /\ HistoryOK /\ KernelOK
  BY DEF Init, CameraOK, HistoryOK, KernelOK
<1>2. DeviceOK
  BY DEF Init, DeviceOK
<1>3. ActorsOK
  BY DEF Init, ActorsOK, PCs, StreamerPC, HandlerPC, Jobs, Thens, Usually
<1>4. \A a \in Actors : Role(a)
  BY DEF Init, Role, StreamerPC, HandlerPC, DevicePC, Usually
<1>5. QED
  BY <1>1, <1>2, <1>3, <1>4 DEF TypeInv

LEMMA TypeInductive ==
  ASSUME TypeInv, [Next]_vars
  PROVE  TypeInv'
<1>1. CASE UNCHANGED vars
  BY <1>1 DEF TypeInv, CameraOK, DeviceOK, ActorsOK, KernelOK, HistoryOK, Role, vars, camera,
         device, actors, kernel, history
<1>2. QED
  BY <1>1, NextCases, TypeRequest, TypeStream, TypeDeviceCall

(* Every variable stays within its type; a device that is open has a       *)
(* descriptor, and the kernel serves one that is open (v4l2_cgo.go).       *)
THEOREM TypeCorrect == Spec => []TypeOK
<1>1. Init => TypeInv
  BY TypeInit
<1>2. TypeInv /\ [Next]_vars => TypeInv'
  BY TypeInductive
<1>3. QED
  BY <1>1, <1>2, TypeInvType, PTL DEF Spec

-----------------------------------------------------------------------------
(* The capture goroutine: stoppedCh is closed only when it has ended, and  *)
(* streaming is reset only when stoppedCh is closed.                       *)
EndedInv ==
  /\ StreamerEnded
  /\ stoppedCh = "closed" => pc[Streamer] = "off"

LEMMA EndedInductive ==
  ASSUME TypeInv, EndedInv, [Next]_vars
  PROVE  EndedInv'
<1> USE DEF EndedInv, StreamerEnded, At
<1>1. Streamer \in Actors /\ pc \in [Actors -> PCs] /\ Streamer \notin Handlers
  BY ConstantsAssumption DEF TypeInv, ActorsOK, Actors
<1>2. ASSUME NEW h \in Handlers, Request(h) \/ Handler(h)
      PROVE  EndedInv'
  <2>1. CASE Start(h)
    BY <1>1, <2>1 DEF Start, Goto
  <2>2. CASE ~Start(h)
    <3>1. pc'[Streamer] = pc[Streamer] /\ stoppedCh' = stoppedCh
      BY <1>1, <1>2, <2>2 DEF Request, Handler, Stop, StopTwice, StopDone, Configure, ApplyConfig,
             Save, Snapshot, Answer, Goto, actors, camera
    <3>2. streaming' = streaming \/ stoppedCh = "closed"
      BY <1>2, <2>2 DEF Request, Handler, Stop, StopTwice, StopDone, Configure, ApplyConfig,
             Save, Snapshot, camera
    <3>3. QED
      BY <3>1, <3>2
  <2>3. QED
    BY <2>1, <2>2
<1>3. CASE Stream
  BY <1>1, <1>3 DEF Stream, Loop, Capture, DequeueTimesOut, camera
<1>4. ASSUME NEW a \in Actors, DeviceCall(a)
      PROVE  EndedInv'
  <2>1. streaming' = streaming
    BY <1>4 DEF DeviceCall, OpenBegins, OpenSucceeds, OpenFails, ConfigureSucceeds,
         ConfigureFails, InitMMapSucceeds, InitMMapFails, StartSucceeds, StartFails,
         DequeueSucceeds,
         DequeueFails, Copy, Enqueue, StopDevice, CloseNothing, CloseBegins, CloseFails, CloseEnds,
         camera
  <2>2. pc[a] # "off"
    BY <1>4 DEF DeviceCall, OpenBegins, OpenSucceeds, OpenFails, ConfigureSucceeds,
         ConfigureFails, InitMMapSucceeds, InitMMapFails, StartSucceeds, StartFails,
         DequeueSucceeds,
         DequeueFails, Copy, Enqueue, StopDevice, CloseNothing, CloseBegins, CloseFails, CloseEnds
  <2>3. CASE a # Streamer
    <3>1. pc'[Streamer] = pc[Streamer]
      BY <1>1, <1>4, <2>3 DEF DeviceCall, OpenBegins, OpenSucceeds, OpenFails, ConfigureSucceeds,
         ConfigureFails, InitMMapSucceeds, InitMMapFails, StartSucceeds, StartFails,
         DequeueSucceeds,
         DequeueFails, Copy, Enqueue, StopDevice, CloseNothing, CloseBegins, CloseFails, CloseEnds,
         Finish, Goto
    <3>2. then[a] # "off"
      BY <2>3 DEF TypeInv, Role
    <3>3. stoppedCh' = stoppedCh
      BY <1>4, <3>2 DEF DeviceCall, OpenBegins, OpenSucceeds, OpenFails, ConfigureSucceeds,
         ConfigureFails, InitMMapSucceeds, InitMMapFails, StartSucceeds, StartFails,
         DequeueSucceeds,
         DequeueFails, Copy, Enqueue, StopDevice, CloseNothing, CloseBegins, CloseFails, CloseEnds,
         Finish, camera
    <3>4. QED
      BY <2>1, <3>1, <3>3
  <2>4. CASE a = Streamer
    <3>1. streaming /\ stoppedCh = "open"
      BY <2>2, <2>4 DEF TypeInv, CameraOK
    <3>2. stoppedCh' = "closed" => pc'[Streamer] = "off"
      BY <1>1, <1>4, <2>4, <3>1
         DEF DeviceCall, OpenBegins, OpenSucceeds, OpenFails, ConfigureSucceeds,
         ConfigureFails, InitMMapSucceeds, InitMMapFails, StartSucceeds, StartFails,
         DequeueSucceeds,
         DequeueFails, Copy, Enqueue, StopDevice, CloseNothing, CloseBegins, CloseFails, CloseEnds,
         Finish, Goto, camera
    <3>3. QED
      BY <2>1, <3>1, <3>2
  <2>5. QED
    BY <2>3, <2>4
<1>5. CASE UNCHANGED vars
  BY <1>5 DEF vars, camera, actors
<1>6. QED
  BY <1>2, <1>3, <1>4, <1>5, NextCases

(* However starts and stops overlap, a camera that is not streaming has no *)
(* capture goroutine left, so Start never spawns a second one (Start, Stop *)
(* and runStreaming of driver.go).                                         *)
THEOREM StreamerEndedTheorem == Spec => []StreamerEnded
<1>1. Init => TypeInv /\ EndedInv
  BY TypeInit DEF Init, EndedInv, StreamerEnded, At, Actors
<1>2. TypeInv /\ EndedInv /\ [Next]_vars => (TypeInv /\ EndedInv)'
  BY TypeInductive, EndedInductive
<1>3. EndedInv => StreamerEnded
  BY DEF EndedInv
<1>4. QED
  BY <1>1, <1>2, <1>3, PTL DEF Spec

-----------------------------------------------------------------------------
(* The device.  Unless two actors were at c.dev at once, each device has   *)
(* one actor working on it; the one that holds a descriptor has its device *)
(* open on a descriptor of its own; every descriptor has such a holder,    *)
(* and so has all mapped memory but what a failed InitMMap left behind.    *)
Works(a) == pc[a] \in DevicePC \cup {"loop", "capture"}
Holds(a) ==
  \/ pc[a] \in {"configure", "init", "start", "capture", "dequeue", "copy", "enqueue"}
  \/ pc[a] \in {"stop", "close"} /\ opened[Dev(a)]
Maps(a) ==
  \/ pc[a] \in {"start", "capture", "dequeue", "copy", "enqueue"}
  \/ pc[a] = "stop" /\ opened[Dev(a)]

Alone == \A a, b \in Actors : Works(a) /\ Works(b) /\ Dev(a) = Dev(b) => a = b
Open == \A a \in Actors : Holds(a) => opened[Dev(a)] /\ fd[Dev(a)] \in fds
Distinct ==
  \A a, b \in Actors : Holds(a) /\ Holds(b) /\ fd[Dev(a)] = fd[Dev(b)] => a = b
Owned == \A f \in fds : \E a \in Actors : Holds(a) /\ fd[Dev(a)] = f
Worked ==
  \A d \in Devices : opened[d] =>
    \E a \in Actors : Dev(a) = d /\ (Holds(a) \/ pc[a] = "closing")
Mapped ==
  \A d \in Devices : mapped[d] =>
    /\ memory = "array" /\ privileged = fd[d]
    /\ \E a \in Actors : Dev(a) = d /\ Holds(a)
Memory ==
  /\ \A a \in Actors : Maps(a) => mapped[Dev(a)]
  /\ memory # "none" => leaked \/ \E d \in Devices : mapped[d]
  /\ privileged = Lost => leaked

HeldInv == Alone /\ Open /\ Distinct /\ Owned /\ Worked /\ Mapped /\ Memory /\ ~crashed
HeldUnlessRaced == raced \/ HeldInv

(* A call of a device leaves the other actors and the other devices alone. *)
LEMMA CallFrame ==
  ASSUME TypeInv, NEW a \in Actors, DeviceCall(a)
  PROVE  /\ \A b \in Actors : b # a => pc'[b] = pc[b] /\ job'[b] = job[b] /\ then'[b] = then[b]
         /\ \A d \in Devices : d # Dev(a) =>
              opened'[d] = opened[d] /\ mapped'[d] = mapped[d] /\ fd'[d] = fd[d]
<1> USE DEF TypeInv, ActorsOK, DeviceOK, Goto, device
<1>1. CASE OpenBegins(a) \/ OpenSucceeds(a) \/ ConfigureSucceeds(a) \/ ConfigureFails(a)
  BY <1>1 DEF OpenBegins, OpenSucceeds, ConfigureSucceeds, ConfigureFails
<1>2. CASE InitMMapSucceeds(a) \/ InitMMapFails(a) \/ StartSucceeds(a) \/ StartFails(a)
  BY <1>2 DEF InitMMapSucceeds, InitMMapFails, StartSucceeds, StartFails
<1>3. CASE DequeueSucceeds(a) \/ DequeueFails(a) \/ Copy(a) \/ Enqueue(a) \/ StopDevice(a)
  BY <1>3 DEF DequeueSucceeds, DequeueFails, Copy, Enqueue, StopDevice, Unmap
<1>4. CASE OpenFails(a) \/ CloseNothing(a) \/ CloseFails(a) \/ CloseEnds(a)
  BY <1>4 DEF OpenFails, CloseNothing, CloseFails, CloseEnds, Finish, Unmap, Dev
<1>5. CASE CloseBegins(a)
  BY <1>5 DEF CloseBegins, Unmap
<1>6. QED
  BY <1>1, <1>2, <1>3, <1>4, <1>5 DEF DeviceCall

(* An actor that begins to work on a device nobody works on, or does not begin. *)
LEMMA JoinHeld ==
  ASSUME TypeInv, HeldInv, NEW a \in Actors, ~Works(a),
         UNCHANGED <<opened, mapped, fd, fds, privileged, memory, crashed, leaked>>,
         \A b \in Actors : b # a => pc'[b] = pc[b] /\ job'[b] = job[b],
         pc'[a] \in {"loop", "open"} \/ ~Works(a)',
         Works(a)' => \A b \in Actors : b # a /\ Works(b) => Dev(b) # Dev(a)'
  PROVE  HeldInv'
<1>1. ~Holds(a) /\ ~Maps(a) /\ pc[a] # "closing" /\ ~Holds(a)' /\ ~Maps(a)' /\ pc'[a] # "closing"
  BY DEF Works, Holds, Maps, DevicePC
<1>2. \A b \in Actors : b # a =>
        /\ Dev(b)' = Dev(b)
        /\ Works(b)' = Works(b) /\ Holds(b)' = Holds(b) /\ Maps(b)' = Maps(b)
  BY DEF Dev, Works, Holds, Maps
<1>3. Alone'
  BY <1>2 DEF HeldInv, Alone
<1>4. Open' /\ Distinct'
  BY <1>1, <1>2 DEF HeldInv, Open, Distinct
<1>5. Owned'
  BY <1>1, <1>2 DEF HeldInv, Owned
<1>6. Worked'
  BY <1>1, <1>2 DEF HeldInv, Worked
<1>7. Mapped'
  BY <1>1, <1>2 DEF HeldInv, Mapped
<1>8. Memory'
  BY <1>1, <1>2 DEF HeldInv, Memory
<1>9. QED
  BY <1>3, <1>4, <1>5, <1>6, <1>7, <1>8 DEF HeldInv

(* A step of an actor from one place to another that leaves the devices as *)
(* they are, but may become the privileged one.                            *)
LEMMA QuietHeld ==
  ASSUME TypeInv, HeldInv, NEW a \in Actors, Works(a), Works(a)',
         UNCHANGED <<opened, mapped, fd, job, fds, memory, crashed, leaked>>,
         \A b \in Actors : b # a => pc'[b] = pc[b],
         Holds(a)' <=> Holds(a), Maps(a)' => Maps(a), pc[a] # "closing",
         privileged' = privileged \/ (Admitted(a) /\ privileged' = fd[Dev(a)])
  PROVE  HeldInv'
<1>1. \A b \in Actors :
        /\ Dev(b)' = Dev(b)
        /\ Works(b)' = Works(b) /\ Holds(b)' = Holds(b)
        /\ Maps(b)' => Maps(b)
        /\ pc[b] = "closing" => pc'[b] = "closing"
  BY DEF Dev, Works, Holds, Maps
<1>2. Alone' /\ Open' /\ Distinct' /\ Owned' /\ Worked' /\ Memory'
  <2>1. Alone'
    BY <1>1 DEF HeldInv, Alone
  <2>2. Open' /\ Distinct'
    BY <1>1 DEF HeldInv, Open, Distinct
  <2>3. Owned'
    BY <1>1 DEF HeldInv, Owned
  <2>4. Worked'
    BY <1>1 DEF HeldInv, Worked
  <2>5. Memory'
    BY <1>1, ConstantsAssumption DEF HeldInv, Memory, Admitted, TypeInv, KernelOK
  <2>6. QED
    BY <2>1, <2>2, <2>3, <2>4, <2>5
<1>3. Mapped'
  <2> SUFFICES ASSUME NEW d \in Devices, mapped[d]
               PROVE  /\ memory = "array" /\ privileged' = fd[d]
                      /\ \E b \in Actors : Dev(b)' = d /\ Holds(b)'
    BY DEF Mapped
  <2>1. /\ memory = "array" /\ privileged = fd[d]
        /\ \E b \in Actors : Dev(b) = d /\ Holds(b)
    BY DEF HeldInv, Mapped
  <2>2. privileged \in Fds
    BY <2>1 DEF HeldInv, Open, TypeInv, KernelOK
  <2>3. privileged' = privileged
    BY <2>2, ConstantsAssumption DEF Admitted
  <2>4. QED
    BY <1>1, <2>1, <2>3
<1>4. QED
  BY <1>2, <1>3 DEF HeldInv

(* A device that is closed by now is done with. *)
LEMMA FinishHeld ==
  ASSUME TypeInv, HeldInv, NEW a \in Actors, Works(a), ~Holds(a), Finish(a),
         \A b \in Actors : b # a => pc'[b] = pc[b] /\ job'[b] = job[b],
         \A d \in Devices : opened'[d] = (opened[d] /\ d # Dev(a)),
         UNCHANGED <<mapped, fds, privileged, memory, crashed, leaked>>
  PROVE  HeldInv'
<1>1. /\ pc'[a] = then[a] /\ job[Streamer] = "stream"
      /\ then[a] \in {"idle", "save", "loop", "off"}
      /\ a # Streamer => then[a] \in {"idle", "save"}
      /\ a = Streamer => job'[a] = job[a]
      /\ Dev(a) \in Devices
  BY DevOK DEF TypeInv, ActorsOK, Role, Finish, Goto, Actors, Thens
<1>2. ~Holds(a)' /\ ~Maps(a) /\ ~Maps(a)' /\ pc'[a] # "closing" /\ (Works(a)' => Dev(a)' = Dev(a))
  BY <1>1 DEF Works, Holds, Maps, DevicePC, Dev
<1>3. \A b \in Actors : b # a => Works(b)' = Works(b) /\ Dev(b)' = Dev(b)
  BY DEF Works, Dev
<1>4. \A b \in Actors : b # a /\ Works(b) => Dev(b) # Dev(a) /\ Dev(b) \in Devices
  BY DevOK DEF HeldInv, Alone
<1>5. \A b \in Actors : b # a =>
        /\ Holds(b)' = Holds(b) /\ Maps(b)' = Maps(b)
        /\ Works(b) => fd'[Dev(b)] = fd[Dev(b)]
  <2> SUFFICES ASSUME NEW b \in Actors, b # a
               PROVE  /\ Holds(b)' = Holds(b) /\ Maps(b)' = Maps(b)
                      /\ Works(b) => fd'[Dev(b)] = fd[Dev(b)]
    OBVIOUS
  <2>1. CASE Works(b)
    <3>1. opened'[Dev(b)] = opened[Dev(b)]
      BY <1>4, <2>1 DEF TypeInv, DeviceOK
    <3>2. fd'[Dev(b)] = fd[Dev(b)]
      <4>1. CASE job[a] = "snapshot"
        BY <1>4, <2>1, <4>1 DEF Finish, Dev, TypeInv, DeviceOK
      <4>2. CASE job[a] # "snapshot"
        BY <4>2 DEF Finish
      <4>3. QED
        BY <4>1, <4>2
    <3>3. QED
      BY <1>3, <3>1, <3>2 DEF Holds, Maps
  <2>2. CASE ~Works(b)
    BY <2>2 DEF Works, Holds, Maps, DevicePC
  <2>3. QED
    BY <2>1, <2>2
<1>6. \A b \in Actors : Holds(b) => Works(b) /\ b # a
  BY DEF Holds, Works, DevicePC
<1>7. Alone'
  BY <1>2, <1>3 DEF HeldInv, Alone
<1>8. Open' /\ Distinct'
  <2>1. Open'
    BY <1>2, <1>3, <1>4, <1>5, <1>6 DEF HeldInv, Open
  <2>2. Distinct'
    BY <1>2, <1>3, <1>5, <1>6 DEF HeldInv, Distinct
  <2>3. QED
    BY <2>1, <2>2
<1>9. Owned'
  BY <1>3, <1>5, <1>6 DEF HeldInv, Owned
<1>10. Worked'
  BY <1>3, <1>5, <1>6 DEF HeldInv, Worked
<1>11. Mapped'
  <2> SUFFICES ASSUME NEW d \in Devices, mapped[d]
               PROVE  /\ memory = "array" /\ privileged = fd'[d]
                      /\ \E b \in Actors : Dev(b)' = d /\ Holds(b)'
    BY DEF Mapped
  <2>1. PICK b \in Actors : Dev(b) = d /\ Holds(b)
    BY DEF HeldInv, Mapped
  <2>2. memory = "array" /\ privileged = fd[d]
    BY DEF HeldInv, Mapped
  <2>3. QED
    BY <1>3, <1>5, <1>6, <2>1, <2>2
<1>12. Memory'
  <2>1. \A b \in Actors : Maps(b)' => mapped[Dev(b)']
    BY <1>2, <1>3, <1>5 DEF HeldInv, Memory
  <2>2. QED
    BY <2>1 DEF HeldInv, Memory
<1>13. QED
  BY <1>7, <1>8, <1>9, <1>10, <1>11, <1>12 DEF HeldInv

(* What an actor that is at a call of its device knows about it. *)
LEMMA Caller ==
  ASSUME TypeInv, HeldInv, NEW a \in Actors, DeviceCall(a)
  PROVE  /\ Works(a)
         /\ Dev(a) \in Devices
         /\ Holds(a) => opened[Dev(a)] /\ fd[Dev(a)] \in fds /\ fd[Dev(a)] \in Fds
         /\ ~Holds(a) /\ pc[a] # "closing" => ~opened[Dev(a)]
         /\ ~Holds(a) => ~mapped[Dev(a)]
<1>1. Works(a)
  BY DEF DeviceCall, OpenBegins, OpenSucceeds, OpenFails, ConfigureSucceeds, ConfigureFails,
         InitMMapSucceeds, InitMMapFails, StartSucceeds, StartFails, DequeueSucceeds, DequeueFails,
         Copy, Enqueue, StopDevice, CloseNothing, CloseBegins, CloseFails, CloseEnds, At, Works,
         DevicePC
<1>2. Dev(a) \in Devices
  BY DevOK
<1>3. Holds(a) => opened[Dev(a)] /\ fd[Dev(a)] \in fds /\ fd[Dev(a)] \in Fds
  BY <1>2 DEF HeldInv, Open, TypeInv, KernelOK
<1>4. \A b \in Actors : Dev(b) = Dev(a) /\ (Holds(b) \/ pc[b] = "closing") => b = a
  BY <1>1 DEF HeldInv, Alone, Works, Holds, DevicePC
<1>5. QED
  BY <1>1, <1>2, <1>3, <1>4 DEF HeldInv, Worked, Mapped

LEMMA HeldOpen ==
  ASSUME TypeInv, HeldInv, NEW a \in Actors, OpenBegins(a) \/ OpenSucceeds(a) \/ OpenFails(a)
  PROVE  HeldInv'
<1>1. /\ DeviceCall(a) /\ Works(a) /\ Dev(a) \in Devices
      /\ ~Holds(a) /\ ~Maps(a) /\ pc[a] # "closing"
      /\ ~opened[Dev(a)] /\ ~mapped[Dev(a)]
      /\ pc \in [Actors -> PCs]
  <2>1. DeviceCall(a)
    BY DEF DeviceCall
  <2>2. ~Holds(a) /\ ~Maps(a) /\ pc[a] # "closing"
    BY DEF OpenBegins, OpenSucceeds, OpenFails, At, Holds, Maps
  <2>3. QED
    BY <2>1, <2>2, Caller DEF TypeInv, ActorsOK
<1>2. CASE OpenBegins(a)
  <2>1. pc'[a] = "opening" /\ \A b \in Actors : b # a => pc'[b] = pc[b]
    BY <1>1, <1>2 DEF OpenBegins, Goto
  <2>2. /\ UNCHANGED <<opened, mapped, fd, job, fds, privileged, memory, crashed, leaked>>
        /\ Works(a)' /\ ~Holds(a)' /\ ~Maps(a)'
    BY <1>2, <2>1 DEF OpenBegins, device, kernel, history, Works, Holds, Maps, DevicePC
  <2>3. QED
    BY <1>1, <2>1, <2>2, QuietHeld
<1>3. CASE OpenFails(a)
  <2>1. \A b \in Actors : b # a => pc'[b] = pc[b] /\ job'[b] = job[b]
    BY <1>1, CallFrame
  <2>2. \A d \in Devices : opened'[d] = (opened[d] /\ d # Dev(a))
    BY <1>1, <1>3 DEF OpenFails, TypeInv, DeviceOK
  <2>3. Finish(a) /\ UNCHANGED <<mapped, fds, privileged, memory, crashed, leaked>>
    BY <1>3 DEF OpenFails, kernel, history
  <2>4. QED
    BY <1>1, <2>1, <2>2, <2>3, FinishHeld
<1>4. CASE OpenSucceeds(a)
  <2>1. PICK f \in Fds \ fds :
          /\ fds' = fds \cup {f} /\ fd'[Dev(a)] = f
          /\ pc'[a] = "configure" /\ opened'[Dev(a)] = TRUE
    BY <1>1, <1>4 DEF OpenSucceeds, Goto, TypeInv, DeviceOK
  <2>2. UNCHANGED <<job, mapped, privileged, memory, crashed, leaked>>
    BY <1>4 DEF OpenSucceeds, history
  <2>3. Works(a)' /\ Holds(a)' /\ ~Maps(a)' /\ Dev(a)' = Dev(a)
    BY <2>1, <2>2 DEF Works, Holds, Maps, DevicePC, Dev
  <2>4. \A b \in Actors : b # a =>
          /\ pc'[b] = pc[b] /\ Dev(b)' = Dev(b) /\ Works(b)' = Works(b)
          /\ Works(b) => Dev(b) \in Devices /\ Dev(b) # Dev(a)
    BY <1>1, <2>2, CallFrame, DevOK DEF Dev, Works, HeldInv, Alone
  <2>5. \A b \in Actors : b # a =>
          /\ Holds(b)' = Holds(b) /\ Maps(b)' = Maps(b)
          /\ Works(b) => opened'[Dev(b)] = opened[Dev(b)] /\ fd'[Dev(b)] = fd[Dev(b)]
    BY <1>1, <2>4, CallFrame DEF Holds, Maps, Works, DevicePC
  <2>6. \A b \in Actors : Holds(b) => Works(b) /\ b # a /\ fd[Dev(b)] \in fds
    BY <1>1 DEF Holds, Works, DevicePC, HeldInv, Open
  <2>7. Alone'
    BY <1>1, <2>3, <2>4 DEF HeldInv, Alone
  <2>8. Open'
    BY <2>1, <2>3, <2>4, <2>5, <2>6 DEF HeldInv, Open
  <2>9. Distinct'
    BY <2>1, <2>3, <2>4, <2>5, <2>6 DEF HeldInv, Distinct
  <2>10. Owned'
    BY <2>1, <2>3, <2>4, <2>5, <2>6 DEF HeldInv, Owned
  <2>11. Worked'
    <3> SUFFICES ASSUME NEW d \in Devices, opened'[d], d # Dev(a)
                 PROVE  \E b \in Actors : Dev(b)' = d /\ (Holds(b)' \/ pc'[b] = "closing")
      BY <2>3 DEF Worked
    <3>1. opened[d]
      BY <1>1, CallFrame
    <3>2. PICK b \in Actors : Dev(b) = d /\ (Holds(b) \/ pc[b] = "closing")
      BY <3>1 DEF HeldInv, Worked
    <3>3. QED
      BY <2>4, <2>5, <3>2
  <2>12. Mapped'
    <3> SUFFICES ASSUME NEW d \in Devices, mapped[d]
                 PROVE  /\ memory = "array" /\ privileged = fd'[d]
                        /\ \E b \in Actors : Dev(b)' = d /\ Holds(b)'
      BY <2>2 DEF Mapped
    <3>1. PICK b \in Actors : Dev(b) = d /\ Holds(b)
      BY DEF HeldInv, Mapped
    <3>2. memory = "array" /\ privileged = fd[d]
      BY DEF HeldInv, Mapped
    <3>3. QED
      BY <2>4, <2>5, <2>6, <3>1, <3>2
  <2>13. Memory'
    BY <2>2, <2>3, <2>4, <2>5 DEF HeldInv, Memory
  <2>14. QED
    BY <2>2, <2>7, <2>8, <2>9, <2>10, <2>11, <2>12, <2>13 DEF HeldInv
<1>5. QED
  BY <1>2, <1>3, <1>4

LEMMA HeldQuiet ==
  ASSUME TypeInv, HeldInv, NEW a \in Actors,
         \/ ConfigureSucceeds(a) \/ ConfigureFails(a) \/ StartSucceeds(a) \/ StartFails(a)
         \/ DequeueSucceeds(a) \/ DequeueFails(a) \/ Copy(a) \/ Enqueue(a)
  PROVE  HeldInv'
<1>1. DeviceCall(a)
  BY DEF DeviceCall
<1>2. /\ Works(a) /\ Holds(a) /\ opened[Dev(a)] /\ pc[a] # "closing"
      /\ pc \in [Actors -> PCs]
  <2>1. Holds(a) /\ pc[a] # "closing"
    BY DEF ConfigureSucceeds, ConfigureFails, StartSucceeds, StartFails,
           DequeueSucceeds, DequeueFails, Copy, Enqueue, At, Holds
  <2>2. QED
    BY <1>1, <2>1, Caller DEF TypeInv, ActorsOK
<1>3. UNCHANGED <<opened, mapped, fd, job, fds, memory, leaked>>
  BY DEF ConfigureSucceeds, ConfigureFails, StartSucceeds, StartFails,
         DequeueSucceeds, DequeueFails, Copy, Enqueue, device, kernel, history
<1>4. \A b \in Actors : b # a => pc'[b] = pc[b]
  BY <1>1, CallFrame
<1>5. /\ pc'[a] \in {"init", "start", "capture", "dequeue", "copy", "enqueue", "stop", "close"}
      /\ pc'[a] \notin {"init", "close"} => pc[a] \in {"start", "dequeue", "copy", "enqueue"}
  BY <1>2 DEF ConfigureSucceeds, ConfigureFails, StartSucceeds, StartFails,
         DequeueSucceeds, DequeueFails, Copy, Enqueue, At, Goto
<1>6. Works(a)' /\ Holds(a)' /\ (Maps(a)' => Maps(a))
  BY <1>2, <1>3, <1>5 DEF Works, Holds, Maps, DevicePC, Dev
<1>7. crashed' = crashed
  <2>1. CASE Copy(a)
    <3>1. Maps(a)
      BY <2>1 DEF Copy, At, Maps
    <3>2. mapped[Dev(a)] /\ Dev(a) \in Devices
      BY <3>1, DevOK DEF HeldInv, Memory
    <3>3. memory = "array" /\ privileged = fd[Dev(a)]
      BY <3>2 DEF HeldInv, Mapped
    <3>4. QED
      BY <2>1, <3>3 DEF Copy, TypeInv, HistoryOK
  <2>2. CASE ~Copy(a)
    BY <2>2 DEF ConfigureSucceeds, ConfigureFails, StartSucceeds, StartFails,
         DequeueSucceeds, DequeueFails, Enqueue, history
  <2>3. QED
    BY <2>1, <2>2
<1>8. privileged' = privileged \/ (Admitted(a) /\ privileged' = fd[Dev(a)])
  BY DEF ConfigureSucceeds, ConfigureFails, StartSucceeds, StartFails,
         DequeueSucceeds, DequeueFails, Copy, Enqueue, kernel
<1>9. QED
  BY <1>2, <1>3, <1>4, <1>6, <1>7, <1>8, QuietHeld

LEMMA SoleMapping ==
  ASSUME TypeInv, HeldInv, NEW d \in Devices, NEW e \in Devices, mapped[d], mapped[e]
  PROVE  d = e
  BY DEF HeldInv, Mapped, Distinct

(* The facts a call that changes the mapping or the descriptors starts from. *)
LEMMA HolderFrame ==
  ASSUME TypeInv, HeldInv, NEW a \in Actors, DeviceCall(a), UNCHANGED <<opened, fd, job>>
  PROVE  \A b \in Actors : b # a =>
           /\ pc'[b] = pc[b] /\ Dev(b)' = Dev(b) /\ Works(b)' = Works(b)
           /\ Holds(b)' = Holds(b) /\ Maps(b)' = Maps(b)
           /\ Works(b) => Dev(b) \in Devices /\ Dev(b) # Dev(a)
<1>1. \A b \in Actors : b # a => pc'[b] = pc[b] /\ Dev(b)' = Dev(b)
  BY CallFrame DEF Dev
<1>2. \A b \in Actors : b # a =>
        /\ Works(b)' = Works(b) /\ Holds(b)' = Holds(b) /\ Maps(b)' = Maps(b)
  BY <1>1 DEF Works, Holds, Maps
<1>3. Works(a)
  BY Caller
<1>4. QED
  BY <1>1, <1>2, <1>3, DevOK DEF HeldInv, Alone

(* A failed InitMMap: where it mapped memory, nothing was mapped before, so *)
(* that the array belongs to no device afterwards.                         *)
LEMMA HeldGivesUp ==
  ASSUME TypeInv, HeldInv, NEW a \in Actors, InitMMapFails(a)
  PROVE  HeldInv'
<1>1. DeviceCall(a)
  BY DEF DeviceCall
<1>2. /\ UNCHANGED <<opened, fd, job, mapped, fds, crashed>>
      /\ pc[a] = "init" /\ pc'[a] = "close"
  BY DEF InitMMapFails, GivesUp, kernel, device, At, Goto, TypeInv, ActorsOK
<1>3. Works(a) /\ Holds(a) /\ opened[Dev(a)] /\ Dev(a) \in Devices /\ ~Maps(a)
      /\ fd[Dev(a)] \in Fds
  BY <1>1, <1>2, Caller DEF Holds, Maps
<1>4. Dev(a)' = Dev(a) /\ Works(a)' /\ Holds(a)' /\ ~Maps(a)'
  BY <1>2, <1>3 DEF Dev, Works, Holds, Maps, DevicePC
<1>5. \A b \in Actors : b # a =>
        /\ pc'[b] = pc[b] /\ Dev(b)' = Dev(b) /\ Works(b)' = Works(b)
        /\ Holds(b)' = Holds(b) /\ Maps(b)' = Maps(b)
  BY <1>1, <1>2, HolderFrame
<1>6. Alone' /\ Open' /\ Distinct' /\ Owned' /\ Worked'
  <2>1. Alone' /\ Open' /\ Distinct'
    BY <1>2, <1>3, <1>4, <1>5 DEF HeldInv, Alone, Open, Distinct
  <2>2. Owned'
    BY <1>2, <1>3, <1>4, <1>5 DEF HeldInv, Owned
  <2>3. Worked'
    BY <1>2, <1>3, <1>4, <1>5 DEF HeldInv, Worked
  <2>4. QED
    BY <2>1, <2>2, <2>3
<1>7. CASE UNCHANGED <<privileged, memory, leaked>>
  <2>1. Mapped'
    BY <1>2, <1>3, <1>4, <1>5, <1>7 DEF HeldInv, Mapped
  <2>2. Memory'
    BY <1>2, <1>4, <1>5, <1>7 DEF HeldInv, Memory
  <2>3. QED
    BY <1>2, <1>6, <2>1, <2>2 DEF HeldInv
<1>8. CASE memory = "none" /\ privileged' = fd[Dev(a)] /\ leaked' = (leaked \/ memory' # "none")
  <2>1. \A d \in Devices : ~mapped[d]
    BY <1>8 DEF HeldInv, Mapped
  <2>2. \A b \in Actors : ~Maps(b)
    <3> SUFFICES ASSUME NEW b \in Actors, Maps(b) PROVE FALSE
      OBVIOUS
    <3>1. mapped[Dev(b)] /\ Dev(b) \in Devices
      BY DevOK DEF HeldInv, Memory
    <3>2. QED
      BY <2>1, <3>1
  <2>3. Mapped'
    BY <1>2, <2>1 DEF Mapped
  <2>4. Memory'
    BY <1>3, <1>4, <1>5, <1>8, <2>2, ConstantsAssumption DEF Memory
  <2>5. QED
    BY <1>2, <1>6, <2>3, <2>4 DEF HeldInv
<1>9. QED
  BY <1>7, <1>8 DEF InitMMapFails, GivesUp, kernel

LEMMA HeldMapping ==
  ASSUME TypeInv, HeldInv, NEW a \in Actors, InitMMapSucceeds(a) \/ StopDevice(a)
  PROVE  HeldInv'
<1>1. DeviceCall(a)
  BY DEF DeviceCall
<1>2. /\ UNCHANGED <<opened, fd, job, fds, crashed, leaked>>
      /\ pc \in [Actors -> PCs] /\ mapped \in [Devices -> BOOLEAN]
  BY DEF history, InitMMapSucceeds, StopDevice, TypeInv, ActorsOK, DeviceOK
<1>3. Works(a) /\ Dev(a) \in Devices /\ pc[a] # "closing"
  BY <1>1, Caller DEF InitMMapSucceeds, StopDevice, At
<1>4. pc'[a] \in {"start", "close"} /\ Dev(a)' = Dev(a) /\ Works(a)' /\ Holds(a)' = Holds(a)
  <2>1. Dev(a)' = Dev(a)
    BY <1>2 DEF Dev
  <2>2. CASE InitMMapSucceeds(a)
    BY <1>2, <2>1, <2>2 DEF InitMMapSucceeds, Goto, At, Works, Holds, DevicePC
  <2>3. CASE StopDevice(a)
    BY <1>2, <2>1, <2>3 DEF StopDevice, Goto, At, Works, Holds, DevicePC
  <2>4. QED
    BY <2>1, <2>2, <2>3
<1>5. \A b \in Actors : b # a =>
        /\ pc'[b] = pc[b] /\ Dev(b)' = Dev(b) /\ Works(b)' = Works(b)
        /\ Holds(b)' = Holds(b) /\ Maps(b)' = Maps(b)
        /\ Works(b) => Dev(b) \in Devices /\ Dev(b) # Dev(a)
  BY <1>1, <1>2, HolderFrame
<1>6. Alone' /\ Open' /\ Distinct' /\ Owned' /\ Worked'
  <2>1. Alone'
    BY <1>3, <1>4, <1>5 DEF HeldInv, Alone
  <2>2. Open' /\ Distinct'
    BY <1>2, <1>4, <1>5 DEF HeldInv, Open, Distinct
  <2>3. Owned'
    BY <1>2, <1>4, <1>5 DEF HeldInv, Owned
  <2>4. Worked'
    BY <1>2, <1>3, <1>4, <1>5 DEF HeldInv, Worked
  <2>5. QED
    BY <2>1, <2>2, <2>3, <2>4
<1>7. CASE InitMMapSucceeds(a)
  <2>1. /\ privileged' = fd[Dev(a)] /\ memory' = "array"
        /\ mapped' = [mapped EXCEPT ![Dev(a)] = TRUE]
        /\ memory = "none" /\ Holds(a) /\ fd[Dev(a)] # Lost
    BY <1>1, <1>7, Caller, ConstantsAssumption DEF InitMMapSucceeds, At, Holds
  <2>2. \A d \in Devices : ~mapped[d]
    BY <2>1 DEF HeldInv, Mapped
  <2>3. Mapped'
    BY <1>2, <1>3, <1>4, <2>1, <2>2 DEF Mapped
  <2>4. Memory'
    BY <1>2, <1>3, <1>4, <1>5, <2>1, <2>2 DEF HeldInv, Memory, Maps, Works, DevicePC
  <2>5. QED
    BY <1>2, <1>6, <2>3, <2>4 DEF HeldInv
<1>8. CASE StopDevice(a)
  <2>1. /\ pc[a] = "stop" /\ pc'[a] = "close"
        /\ privileged' = privileged \/ (privileged = Lost /\ privileged' \in {NoFd, Lost})
    BY <1>2, <1>8 DEF StopDevice, Survivor, At, Goto
  <2>2. CASE opened[Dev(a)]
    <3>1. mapped[Dev(a)]
      BY <2>1, <2>2 DEF HeldInv, Memory, Maps
    <3>2. memory' = "none" /\ mapped' = [mapped EXCEPT ![Dev(a)] = FALSE]
      BY <1>2, <1>3, <1>8, <2>2, <3>1 DEF StopDevice, Unmap, HeldInv, Mapped
    <3>3. \A d \in Devices : ~mapped'[d]
      BY <1>2, <1>3, <3>1, <3>2, SoleMapping
    <3>4. \A b \in Actors : b # a => ~Maps(b)
      <4> SUFFICES ASSUME NEW b \in Actors, b # a, Maps(b) PROVE FALSE
        OBVIOUS
      <4>1. Works(b)
        BY DEF Maps, Works, DevicePC
      <4>2. mapped[Dev(b)] /\ Dev(b) \in Devices /\ Dev(b) # Dev(a)
        BY <1>5, <4>1 DEF HeldInv, Memory
      <4>3. QED
        BY <1>3, <3>1, <4>2, SoleMapping
    <3>5. Mapped' /\ Memory'
      BY <1>2, <1>5, <2>1, <3>2, <3>3, <3>4, ConstantsAssumption
         DEF HeldInv, Mapped, Memory, Maps
    <3>6. QED
      BY <1>2, <1>6, <3>5 DEF HeldInv
  <2>3. CASE ~opened[Dev(a)]
    <3>1. memory' = memory /\ mapped' = mapped
      BY <1>2, <1>3, <1>8, <2>3 DEF StopDevice, Unmap
    <3>2. Mapped'
      <4> SUFFICES ASSUME NEW d \in Devices, mapped[d]
                   PROVE  /\ memory = "array" /\ privileged' = fd[d]
                          /\ \E b \in Actors : Dev(b)' = d /\ Holds(b)'
        BY <1>2, <3>1 DEF Mapped
      <4>1. memory = "array" /\ privileged = fd[d] /\ fd[d] \in Fds \cup {NoFd}
        BY DEF HeldInv, Mapped, TypeInv, DeviceOK
      <4>2. PICK b \in Actors : Dev(b) = d /\ Holds(b)
        BY DEF HeldInv, Mapped
      <4>3. QED
        BY <1>4, <1>5, <2>1, <4>1, <4>2, ConstantsAssumption
    <3>3. Memory'
      BY <1>2, <1>5, <2>1, <2>3, <3>1, ConstantsAssumption DEF HeldInv, Memory, Maps
    <3>4. QED
      BY <1>2, <1>6, <3>2, <3>3 DEF HeldInv
  <2>4. QED
    BY <2>2, <2>3
<1>9. QED
  BY <1>7, <1>8

LEMMA HeldCloseBegins ==
  ASSUME TypeInv, HeldInv, NEW a \in Actors, CloseBegins(a)
  PROVE  HeldInv'
<1>1. DeviceCall(a)
  BY DEF DeviceCall
<1>2. /\ UNCHANGED <<opened, fd, job, crashed, leaked>>
      /\ pc \in [Actors -> PCs] /\ mapped \in [Devices -> BOOLEAN]
      /\ opened[Dev(a)] /\ pc[a] = "close" /\ pc'[a] = "closing"
      /\ fds' = fds \ {fd[Dev(a)]}
      /\ privileged' = Survivor(fd[Dev(a)])
      /\ memory' = IF mapped[Dev(a)] /\ memory = "array" THEN "none" ELSE memory
      /\ mapped' = [mapped EXCEPT ![Dev(a)] = FALSE]
  BY DEF CloseBegins, TypeInv, ActorsOK, DeviceOK, At, Goto, Unmap, history
<1>3. Works(a) /\ Holds(a) /\ Dev(a) \in Devices /\ Works(a)' /\ ~Holds(a)' /\ ~Maps(a)' /\ ~Maps(a)
      /\ Dev(a)' = Dev(a)
  BY <1>1, <1>2, Caller DEF Works, Holds, Maps, DevicePC, Dev
<1>4. \A b \in Actors : b # a =>
        /\ pc'[b] = pc[b] /\ Dev(b)' = Dev(b) /\ Works(b)' = Works(b)
        /\ Holds(b)' = Holds(b) /\ Maps(b)' = Maps(b)
        /\ Works(b) => Dev(b) \in Devices /\ Dev(b) # Dev(a)
  BY <1>1, <1>2, HolderFrame
<1>5. \A b \in Actors : Holds(b) /\ b # a => Works(b) /\ fd[Dev(b)] # fd[Dev(a)]
  BY <1>3 DEF HeldInv, Distinct, Holds, Works, DevicePC
<1>6. Alone'
  BY <1>3, <1>4 DEF HeldInv, Alone
<1>7. Open' /\ Distinct'
  BY <1>2, <1>3, <1>4, <1>5 DEF HeldInv, Open, Distinct
<1>8. Owned'
  BY <1>2, <1>3, <1>4, <1>5 DEF HeldInv, Owned
<1>9. Worked'
  BY <1>2, <1>3, <1>4 DEF HeldInv, Worked
<1>10. Mapped'
  <2> SUFFICES ASSUME NEW d \in Devices, mapped'[d]
               PROVE  /\ memory' = "array" /\ privileged' = fd[d]
                      /\ \E b \in Actors : Dev(b)' = d /\ Holds(b)'
    BY <1>2 DEF Mapped
  <2>1. mapped[d] /\ d # Dev(a)
    BY <1>2, <1>3
  <2>2. ~mapped[Dev(a)]
    BY <1>3, <2>1, SoleMapping
  <2>3. memory = "array" /\ privileged = fd[d]
    BY <2>1 DEF HeldInv, Mapped
  <2>4. PICK b \in Actors : Dev(b) = d /\ Holds(b)
    BY <2>1 DEF HeldInv, Mapped
  <2>5. b # a /\ fd[d] # fd[Dev(a)]
    BY <1>5, <2>1, <2>4
  <2>6. fd[d] # Lost
    BY ConstantsAssumption DEF TypeInv, DeviceOK
  <2>7. QED
    BY <1>2, <1>4, <2>2, <2>3, <2>4, <2>5, <2>6 DEF Survivor
<1>11. Memory'
  <2>1. ASSUME NEW b \in Actors, Maps(b)'
        PROVE  mapped'[Dev(b)']
    <3>1. b # a /\ Maps(b)
      BY <1>3, <1>4, <2>1
    <3>2. Works(b)
      BY <3>1 DEF Maps, Works, DevicePC
    <3>3. mapped[Dev(b)] /\ Dev(b) \in Devices /\ Dev(b) # Dev(a) /\ Dev(b)' = Dev(b)
      BY <1>4, <3>1, <3>2 DEF HeldInv, Memory
    <3>4. QED
      BY <1>2, <3>3
  <2>2. memory' # "none" => ~mapped[Dev(a)]
    BY <1>2, <1>3 DEF HeldInv, Mapped
  <2>3. memory' # "none" => leaked \/ \E d \in Devices : mapped'[d]
    BY <1>2, <1>3, <2>2 DEF HeldInv, Memory
  <2>4. memory' # "none" /\ privileged = fd[Dev(a)] => leaked
    <3> SUFFICES ASSUME memory' # "none", privileged = fd[Dev(a)], ~leaked PROVE FALSE
      OBVIOUS
    <3>1. PICK d \in Devices : mapped[d]
      BY <1>2, <2>2 DEF HeldInv, Memory
    <3>2. PICK b \in Actors : Dev(b) = d /\ Holds(b)
      BY <3>1 DEF HeldInv, Mapped
    <3>3. fd[d] = fd[Dev(a)]
      BY <3>1 DEF HeldInv, Mapped
    <3>4. QED
      BY <1>5, <2>2, <3>1, <3>2, <3>3
  <2>5. privileged' = Lost => leaked
    BY <1>2, <2>4, ConstantsAssumption DEF HeldInv, Memory, Survivor
  <2>6. QED
    BY <1>2, <2>1, <2>3, <2>5 DEF Memory
<1>12. QED
  BY <1>2, <1>6, <1>7, <1>8, <1>9, <1>10, <1>11 DEF HeldInv

LEMMA HeldCloseEnds ==
  ASSUME TypeInv, HeldInv, NEW a \in Actors, CloseNothing(a) \/ CloseFails(a) \/ CloseEnds(a)
  PROVE  HeldInv'
<1>1. DeviceCall(a)
  BY DEF DeviceCall
<1>2. ~CloseFails(a)
  <2>1. ASSUME CloseFails(a) PROVE Holds(a) /\ fd[Dev(a)] \notin fds
    BY <2>1 DEF CloseFails, At, Holds
  <2>2. QED
    BY <1>1, <2>1, Caller
<1>3. Works(a) /\ ~Holds(a) /\ Dev(a) \in Devices
  BY <1>1, <1>2, Caller DEF CloseNothing, CloseEnds, At, Holds
<1>4. \A b \in Actors : b # a => pc'[b] = pc[b] /\ job'[b] = job[b]
  BY <1>1, CallFrame
<1>5. \A d \in Devices : opened'[d] = (opened[d] /\ d # Dev(a))
  BY <1>2, <1>3 DEF CloseNothing, CloseEnds, TypeInv, DeviceOK
<1>6. Finish(a) /\ UNCHANGED <<mapped, fds, privileged, memory, crashed, leaked>>
  BY <1>2 DEF CloseNothing, CloseEnds, kernel, history
<1>7. QED
  BY <1>3, <1>4, <1>5, <1>6, FinishHeld

LEMMA HeldRequest ==
  ASSUME TypeInv, EndedInv, HeldInv, ~raced', NEW h \in Handlers, Request(h) \/ Handler(h)
  PROVE  HeldInv'
<1>1. /\ h \in Actors /\ Streamer \in Actors /\ h # Streamer
      /\ pc \in [Actors -> PCs] /\ job \in [Actors -> Jobs] /\ Role(h)
  BY ConstantsAssumption DEF Actors, TypeInv, ActorsOK
<1>2. UNCHANGED <<opened, mapped, fd, fds, privileged, memory, crashed, leaked>>
  BY DEF Request, Handler, Start, Stop, StopTwice, StopDone, Configure, ApplyConfig, Save, Snapshot,
         device, kernel, history
<1>3. \A b \in Actors : Works(b) /\ b # Streamer /\ Dev(b) = Camera => OnCamera(b) /\ b \in Handlers
  BY ConstantsAssumption DEF TypeInv, Role, Works, DevicePC, HandlerPC, Dev, OnCamera, Actors
<1>4. CASE Start(h)
  <2>1. pc'[Streamer] = "loop" /\ \A b \in Actors : b # Streamer => pc'[b] = pc[b]
    BY <1>1, <1>4 DEF Start, Goto
  <2>2. job' = job /\ \A i \in Handlers : ~OnCamera(i)
    BY <1>4 DEF Start
  <2>3. ~Works(Streamer)
    BY <1>4 DEF Start, EndedInv, StreamerEnded, At, Works, DevicePC
  <2>4. Dev(Streamer)' = Camera
    BY <1>1, <2>2, DevOK DEF Dev
  <2>5. QED
    BY <1>1, <1>2, <1>3, <2>1, <2>2, <2>3, <2>4, JoinHeld
<1>5. CASE ~Start(h)
  <2>1. \A b \in Actors : b # h => pc'[b] = pc[b] /\ job'[b] = job[b]
    BY <1>1, <1>5 DEF Request, Handler, Stop, StopTwice, StopDone, Configure, ApplyConfig, Save,
           Snapshot, Answer, Goto, actors
  <2>2. ~Works(h)
    BY <1>5 DEF Request, Handler, Stop, StopTwice, StopDone, Configure, ApplyConfig, Save, Snapshot,
           At, Works, DevicePC
  <2>3. CASE ApplyConfig(h) /\ ~streaming
    <3>1. pc'[h] = "open" /\ job'[h] = job[h] /\ \A i \in Handlers : ~OnCamera(i)
      BY <1>1, <2>3 DEF ApplyConfig, Goto
    <3>2. ~Works(Streamer)
      BY <2>3 DEF EndedInv, StreamerEnded, At, Works, DevicePC
    <3>3. Dev(h)' = Camera
      BY <1>1, <2>3, <3>1 DEF ApplyConfig, At, Role, Dev
    <3>4. QED
      BY <1>1, <1>2, <1>3, <2>1, <2>2, <3>1, <3>2, <3>3, JoinHeld
  <2>4. CASE Snapshot(h)
    <3>1. pc'[h] = "open" /\ Dev(h)' = h
      BY <1>1, <2>4 DEF Snapshot, Goto, Dev
    <3>2. \A b \in Actors : b # h => Dev(b) # h
      BY ConstantsAssumption DEF Dev
    <3>3. QED
      BY <1>1, <1>2, <2>1, <2>2, <3>1, <3>2, JoinHeld
  <2>5. CASE ~Snapshot(h) /\ ~(ApplyConfig(h) /\ ~streaming)
    <3>1. pc'[h] \in {"idle", "stopWait", "apply"}
      BY <1>1, <1>5, <2>5 DEF Request, Handler, Stop, StopTwice, StopDone, Configure, ApplyConfig,
             Save, Answer, Goto, At, actors
    <3>2. ~Works(h)'
      BY <3>1 DEF Works, DevicePC
    <3>3. QED
      BY <1>1, <1>2, <2>1, <2>2, <3>2, JoinHeld
  <2>6. QED
    BY <2>3, <2>4, <2>5
<1>6. QED
  BY <1>4, <1>5

LEMMA HeldStream ==
  ASSUME TypeInv, HeldInv, Stream
  PROVE  HeldInv'
<1>1. Streamer \in Actors /\ pc \in [Actors -> PCs] /\ Dev(Streamer) = Camera
      /\ Camera \in Devices
  BY DevOK DEF Actors, TypeInv, ActorsOK, Devices
<1>2. /\ UNCHANGED <<opened, mapped, fd, job, fds, privileged, memory, crashed, leaked>>
      /\ \A b \in Actors : b # Streamer => pc'[b] = pc[b]
  BY <1>1 DEF Stream, Loop, Capture, DequeueTimesOut, End, Goto, device, kernel,
         history
<1>3. Dev(Streamer)' = Camera
  BY <1>1, <1>2 DEF Dev
<1>4. CASE Loop
  <2>1. pc[Streamer] = "loop" /\ pc'[Streamer] \in {"stop", "open"}
    BY <1>1, <1>4 DEF Loop, End, Goto, At
  <2>2. Works(Streamer) /\ Works(Streamer)'
    BY <2>1 DEF Works, DevicePC
  <2>3. ~opened[Camera]
    <3> SUFFICES ASSUME opened[Camera] PROVE FALSE
      OBVIOUS
    <3>1. PICK b \in Actors : Dev(b) = Camera /\ (Holds(b) \/ pc[b] = "closing")
      BY <1>1 DEF HeldInv, Worked
    <3>2. Works(b)
      BY <3>1 DEF Holds, Works, DevicePC
    <3>3. b = Streamer
      BY <1>1, <2>2, <3>1, <3>2 DEF HeldInv, Alone
    <3>4. QED
      BY <2>1, <3>1, <3>3 DEF Holds
  <2>4. ~Holds(Streamer) /\ ~Holds(Streamer)' /\ ~Maps(Streamer)'
    BY <1>2, <1>3, <2>1, <2>3 DEF Holds, Maps
  <2>5. QED
    BY <1>1, <1>2, <2>1, <2>2, <2>4, QuietHeld
<1>5. CASE Capture \/ DequeueTimesOut
  <2>1. /\ pc[Streamer] \in {"capture", "dequeue"}
        /\ pc'[Streamer] \in {"capture", "dequeue", "stop"}
    BY <1>1, <1>5 DEF Capture, DequeueTimesOut, End, Goto, At
  <2>2. Works(Streamer) /\ Works(Streamer)' /\ Holds(Streamer) /\ Maps(Streamer)
    BY <2>1 DEF Works, Holds, Maps, DevicePC
  <2>3. Holds(Streamer)'
    BY <1>1, <1>2, <1>3, <2>1, <2>2 DEF HeldInv, Open, Holds
  <2>4. QED
    BY <1>1, <1>2, <2>1, <2>2, <2>3, QuietHeld
<1>6. QED
  BY <1>4, <1>5 DEF Stream

LEMMA HeldInductive ==
  ASSUME TypeInv, EndedInv, HeldUnlessRaced, [Next]_vars
  PROVE  HeldUnlessRaced'
<1>1. raced => raced'
  BY DEF Next, Request, Handler, Stream, DeviceCall, Start, Stop, StopTwice, StopDone, Configure,
         ApplyConfig, Save, Snapshot, Loop, Capture, DequeueTimesOut, OpenBegins, OpenSucceeds,
         OpenFails, ConfigureSucceeds, ConfigureFails, InitMMapSucceeds, InitMMapFails,
         StartSucceeds, StartFails, DequeueSucceeds, DequeueFails, Copy, Enqueue, StopDevice,
         CloseNothing, CloseBegins, CloseFails, CloseEnds, vars, history
<1> SUFFICES ASSUME ~raced', HeldInv PROVE HeldInv'
  BY <1>1 DEF HeldUnlessRaced
<1>2. ASSUME NEW a \in Actors, DeviceCall(a) PROVE HeldInv'
  BY <1>2, HeldOpen, HeldQuiet, HeldGivesUp, HeldMapping, HeldCloseBegins, HeldCloseEnds
     DEF DeviceCall
<1>3. CASE UNCHANGED vars
  BY <1>3
     DEF HeldInv, Alone, Open, Distinct, Owned, Worked, Mapped, Memory, Works, Holds, Maps, Dev,
         vars, device, actors, kernel, history
<1>4. QED
  BY <1>2, <1>3, NextCases, HeldRequest, HeldStream

LEMMA HeldInit ==
  ASSUME Init
  PROVE  HeldInv
<1>1. \A a \in Actors : ~Works(a) /\ ~Holds(a) /\ ~Maps(a)
  BY DEF Init, Works, Holds, Maps, DevicePC
<1>2. \A d \in Devices : ~opened[d] /\ ~mapped[d]
  BY DEF Init
<1>3. QED
  BY <1>1, <1>2, ConstantsAssumption
     DEF Init, HeldInv, Alone, Open, Distinct, Owned, Worked, Mapped, Memory

LEMMA SafelyHeld == Spec => [](TypeInv /\ EndedInv /\ HeldUnlessRaced)
<1>1. Init => TypeInv /\ EndedInv /\ HeldUnlessRaced
  BY TypeInit, HeldInit DEF Init, EndedInv, StreamerEnded, At, Actors, HeldUnlessRaced
<1>2. TypeInv /\ EndedInv /\ HeldUnlessRaced /\ [Next]_vars
        => (TypeInv /\ EndedInv /\ HeldUnlessRaced)'
  BY TypeInductive, EndedInductive, HeldInductive
<1>3. QED
  BY <1>1, <1>2, PTL DEF Spec

(* A driver that does nothing has released the camera, unless two actors   *)
(* were at c.dev at once; and if no InitMMap has failed half way, no file  *)
(* of it is kept by mapped memory (ApplyConfig, v4l2Device.Close and       *)
(* uvc_init_mmap).                                                         *)
THEOREM DeviceReleasedTheorem == Spec => []DeviceReleased
<1>1. TypeInv /\ EndedInv /\ HeldUnlessRaced => DeviceReleased
  <2> SUFFICES ASSUME TypeInv, EndedInv, HeldInv, ~streaming, \A h \in Handlers : At(h, "idle")
               PROVE  /\ fds = {} /\ ~opened[Camera]
                      /\ leaked \/ (privileged = NoFd /\ memory = "none")
    BY DEF HeldUnlessRaced, DeviceReleased
  <2>1. \A a \in Actors : ~Holds(a) /\ pc[a] # "closing"
    BY DEF EndedInv, StreamerEnded, At, Actors, Holds
  <2>2. fds = {} /\ \A d \in Devices : ~opened[d] /\ ~mapped[d]
    BY <2>1 DEF HeldInv, Owned, Worked, Mapped
  <2>3. ~leaked => memory = "none" /\ privileged = NoFd
    BY <2>2 DEF HeldInv, Memory, TypeInv, KernelOK
  <2>4. QED
    BY <2>2, <2>3 DEF Devices
<1>2. QED
  BY <1>1, SafelyHeld, PTL

(* ... and with the same exception no frame is copied from memory that is  *)
(* no longer mapped (runStreaming and Snapshot of driver.go).              *)
THEOREM FramesMappedTheorem == Spec => []FramesMapped
<1>1. HeldUnlessRaced => FramesMapped
  BY DEF HeldUnlessRaced, HeldInv, FramesMapped
<1>2. QED
  BY <1>1, SafelyHeld, PTL

-----------------------------------------------------------------------------
(* The camera implements StreamControl.  A stop that waits is the one that *)
(* asked, so the camera is still streaming when its wait is over; and the  *)
(* goroutine heads for its end only when a stop has asked.                 *)
ControlInv ==
  /\ \A h \in Handlers : pc[h] = "stopWait" => streaming /\ stopCh = "closed"
  /\ \A h, i \in Handlers : pc[h] = "stopWait" /\ pc[i] = "stopWait" => h = i
  /\ then[Streamer] = "off" => streaming /\ stopCh = "closed" /\ pc[Streamer] # "off"
  /\ streaming /\ stopCh = "open" => pc[Streamer] # "off"

(* A call of the device leaves the streaming state alone; it ends the      *)
(* goroutine only where that was decided before.                           *)
LEMMA ControlCall ==
  ASSUME TypeInv, NEW a \in Actors, DeviceCall(a)
  PROVE  /\ UNCHANGED <<panicked, streaming, stopCh>>
         /\ \A h \in Handlers : pc'[h] = "stopWait" => pc[h] = "stopWait"
         /\ pc'[Streamer] = "off" =>
              \/ pc[Streamer] = "off" /\ then'[Streamer] = then[Streamer]
              \/ then[Streamer] = "off" /\ then'[Streamer] # "off"
         /\ pc[Streamer] = "off" => pc'[Streamer] = "off"
         /\ then'[Streamer] = "off" => then[Streamer] = "off"
<1> USE DEF TypeInv, ActorsOK, Goto
<1>1. Streamer \in Actors /\ Streamer \notin Handlers /\ Handlers \subseteq Actors /\ Role(a)
  BY ConstantsAssumption DEF Actors
<1>2. \A b \in Actors : b # a => pc'[b] = pc[b] /\ then'[b] = then[b]
  BY CallFrame
<1>3. UNCHANGED <<panicked, streaming, stopCh>>
  BY Zenon DEF DeviceCall, OpenBegins, OpenSucceeds, OpenFails, ConfigureSucceeds,
       ConfigureFails, InitMMapSucceeds, InitMMapFails, StartSucceeds, StartFails,
       DequeueSucceeds, DequeueFails, Copy, Enqueue, StopDevice, CloseNothing, CloseBegins,
       CloseFails, CloseEnds, camera
<1>4. pc[a] \in DevicePC
  BY DEF DeviceCall, OpenBegins, OpenSucceeds, OpenFails, ConfigureSucceeds,
       ConfigureFails, InitMMapSucceeds, InitMMapFails, StartSucceeds, StartFails,
       DequeueSucceeds, DequeueFails, Copy, Enqueue, StopDevice, CloseNothing, CloseBegins,
       CloseFails, CloseEnds, At, DevicePC
<1>5. /\ \/ pc'[a] \in DevicePC \cup {"capture"}
         \/ pc'[a] = then[a] /\ then'[a] = Usually(a)
      /\ then'[a] \in {then[a], Usually(a)} \/ a # Streamer
  <2> USE DEF DevicePC
  <2>1. CASE OpenBegins(a) \/ OpenSucceeds(a) \/ ConfigureSucceeds(a) \/ ConfigureFails(a)
    BY <1>1, <2>1 DEF Role, OpenBegins, OpenSucceeds, ConfigureSucceeds, ConfigureFails
  <2>2. CASE InitMMapSucceeds(a) \/ InitMMapFails(a) \/ StartSucceeds(a) \/ StartFails(a)
    BY <2>2 DEF InitMMapSucceeds, InitMMapFails, StartSucceeds, StartFails
  <2>3. CASE DequeueSucceeds(a) \/ DequeueFails(a) \/ Copy(a) \/ Enqueue(a) \/ StopDevice(a)
    BY <2>3 DEF DequeueSucceeds, DequeueFails, Copy, Enqueue, StopDevice
  <2>4. CASE OpenFails(a) \/ CloseNothing(a) \/ CloseFails(a) \/ CloseEnds(a)
    BY <2>4 DEF OpenFails, CloseNothing, CloseFails, CloseEnds, Finish
  <2>5. CASE CloseBegins(a)
    BY <2>5 DEF CloseBegins
  <2>6. QED
    BY <2>1, <2>2, <2>3, <2>4, <2>5 DEF DeviceCall
<1>6. CASE a = Streamer
  BY <1>1, <1>2, <1>3, <1>4, <1>5, <1>6 DEF Usually, DevicePC
<1>7. CASE a # Streamer
  <2>1. pc'[Streamer] = pc[Streamer] /\ then'[Streamer] = then[Streamer]
    BY <1>1, <1>2, <1>7
  <2>2. pc'[a] # "stopWait"
    BY <1>1, <1>5, <1>7 DEF Role, DevicePC
  <2>3. QED
    BY <1>1, <1>2, <1>3, <2>1, <2>2
<1>8. QED
  BY <1>6, <1>7

(* Every step of a handler outside the device is one of StreamControl's,   *)
(* or none of its concern.                                                 *)
LEMMA ControlRequest ==
  ASSUME TypeInv, EndedInv, ControlInv, NEW h \in Handlers, Request(h) \/ Handler(h)
  PROVE  ControlInv' /\ (Control!Next \/ UNCHANGED <<Phase, Worker, panicked>>)
<1> USE DEF TypeInv, ActorsOK, Goto, At, Phase, Worker
<1>1. Streamer \in Actors /\ Streamer # h /\ Handlers \subseteq Actors /\ Streamer \notin Handlers
  BY ConstantsAssumption DEF Actors
<1>2. CASE Start(h)
  <2>1. /\ pc' = [pc EXCEPT ![Streamer] = "loop"] /\ ~panicked /\ ~streaming
        /\ UNCHANGED <<panicked, then>> /\ streaming' = TRUE /\ stopCh' = "open"
    BY <1>2 DEF Start
  <2>2. pc[Streamer] = "off" /\ then[Streamer] # "off"
    BY <2>1 DEF EndedInv, StreamerEnded, ControlInv
  <2>3. ControlInv'
    BY <1>1, <2>1, <2>2 DEF ControlInv
  <2>4. Control!Start
    BY <1>1, <2>1, <2>2 DEF Control!Start
  <2>5. QED
    BY <2>3, <2>4 DEF Control!Next
<1>3. CASE Stop(h)
  <2>1. /\ pc' = [pc EXCEPT ![h] = "stopWait"] /\ ~panicked /\ streaming /\ stopCh = "open"
        /\ UNCHANGED <<panicked, then, streaming>> /\ stopCh' = "closed"
    BY <1>3 DEF Stop
  <2>2. ControlInv'
    BY <1>1, <2>1 DEF ControlInv
  <2>3. Control!Stop
    BY <1>1, <2>1 DEF Control!Stop
  <2>4. QED
    BY <2>2, <2>3 DEF Control!Next
<1>4. CASE StopTwice(h)
  <2>1. /\ UNCHANGED <<pc, then, streaming, stopCh>> /\ panicked' = TRUE
        /\ ~panicked /\ streaming /\ stopCh = "closed"
    BY <1>4 DEF StopTwice, actors
  <2>2. ControlInv'
    BY <2>1 DEF ControlInv
  <2>3. Control!StopAgain
    BY <2>1 DEF Control!StopAgain
  <2>4. QED
    BY <2>2, <2>3 DEF Control!Next
<1>5. CASE StopDone(h)
  <2>1. /\ pc' = [pc EXCEPT ![h] = "idle"] /\ pc[h] = "stopWait" /\ ~panicked
        /\ stoppedCh = "closed" /\ UNCHANGED <<panicked, then, stopCh>> /\ streaming' = FALSE
    BY <1>5 DEF StopDone
  <2>2. /\ streaming /\ stopCh = "closed" /\ pc[Streamer] = "off"
        /\ \A i \in Handlers : pc[i] = "stopWait" => i = h
    BY <2>1 DEF ControlInv, EndedInv
  <2>3. then[Streamer] # "off"
    BY <2>2 DEF ControlInv
  <2>4. ControlInv'
    BY <1>1, <2>1, <2>2, <2>3 DEF ControlInv
  <2>5. Control!Stopped
    BY <1>1, <2>1, <2>2 DEF Control!Stopped
  <2>6. QED
    BY <2>4, <2>5 DEF Control!Next
<1>6. CASE ApplyConfig(h) \/ Save(h) \/ Snapshot(h) \/ \E k \in Configs : Configure(h, k)
  <2>1. UNCHANGED <<panicked, streaming, stopCh, then>>
    BY <1>6, Zenon DEF ApplyConfig, Save, Snapshot, Configure, camera
  <2>2. \E l \in {"idle", "apply", "open"} : pc' = [pc EXCEPT ![h] = l]
    BY <1>6, Zenon DEF ApplyConfig, Save, Snapshot, Configure, Answer
  <2>3. QED
    BY <1>1, <2>1, <2>2 DEF ControlInv
<1>7. QED
  BY <1>2, <1>3, <1>4, <1>5, <1>6 DEF Request, Handler

LEMMA ControlStep ==
  ASSUME TypeInv, EndedInv, ControlInv, [Next]_vars
  PROVE  ControlInv' /\ (Control!Next \/ UNCHANGED <<Phase, Worker, panicked>>)
<1>1. Streamer \in Actors /\ Streamer \notin Handlers /\ Handlers \subseteq Actors
      /\ pc \in [Actors -> PCs]
  BY ConstantsAssumption DEF TypeInv, ActorsOK, Actors
<1>2. ASSUME NEW a \in Actors, DeviceCall(a)
      PROVE  ControlInv' /\ (Control!Next \/ UNCHANGED <<Phase, Worker, panicked>>)
  <2>1. ControlInv'
    BY <1>2, ControlCall DEF ControlInv
  <2>2. CASE pc[Streamer] # "off" /\ pc'[Streamer] = "off"
    <3>1. Control!Go
      BY <1>2, <2>2, ControlCall DEF ControlInv, Control!Go, Phase, Worker, At
    <3>2. QED
      BY <2>1, <3>1 DEF Control!Next
  <2>3. CASE pc[Streamer] = "off" <=> pc'[Streamer] = "off"
    BY <1>2, <2>1, <2>3, ControlCall DEF Phase, Worker, At
  <2>4. QED
    BY <1>2, <2>2, <2>3, ControlCall
<1>3. CASE Stream
  <2>1. UNCHANGED <<panicked, streaming, stopCh>> /\ pc[Streamer] # "off"
    BY <1>3 DEF Stream, Loop, Capture, DequeueTimesOut, At, camera
  <2>2. \E l \in {"stop", "open", "dequeue", "capture"} : pc' = [pc EXCEPT ![Streamer] = l]
    BY <1>3 DEF Stream, Loop, Capture, DequeueTimesOut, End, Goto
  <2>3. then'[Streamer] = "off" => then[Streamer] = "off" \/ stopCh = "closed"
    BY <1>3 DEF Stream, Loop, Capture, DequeueTimesOut, End
  <2>4. streaming
    BY <2>1 DEF EndedInv, StreamerEnded, At
  <2>5. ControlInv'
    BY <1>1, <2>1, <2>2, <2>3, <2>4 DEF ControlInv
  <2>6. QED
    BY <1>1, <2>1, <2>2, <2>5 DEF Phase, Worker, At
<1>4. CASE UNCHANGED vars
  BY <1>4 DEF vars, camera, actors, ControlInv, Phase, Worker, At
<1>5. QED
  BY <1>2, <1>3, <1>4, ControlRequest, NextCases

(* UvcCamera implements StreamControl, for any number of requests: the     *)
(* capture goroutine lives from a start to the stop that asks, and the     *)
(* camera is streaming until it has ended (Start, Stop and runStreaming    *)
(* of driver.go).                                                          *)
THEOREM Refinement == Spec => ControlSpec
<1>1. Init => TypeInv /\ EndedInv /\ ControlInv
  BY ConstantsAssumption, TypeInit
     DEF Init, EndedInv, StreamerEnded, ControlInv, At, Actors, Usually
<1>2. Init => Control!Init
  BY DEF Init, Control!Init, Phase, Worker, At, Actors
<1>3. TypeInv /\ EndedInv /\ ControlInv /\ [Next]_vars => (TypeInv /\ EndedInv /\ ControlInv)'
  BY TypeInductive, EndedInductive, ControlStep
<1>4. TypeInv /\ EndedInv /\ ControlInv /\ [Next]_vars => [Control!Next]_(Control!vars)
  BY ControlStep DEF Control!vars
<1>5. QED
  BY <1>1, <1>2, <1>3, <1>4, PTL DEF Spec, ControlSpec, Control!Spec
=============================================================================
