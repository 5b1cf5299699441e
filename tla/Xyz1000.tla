------------------------------ MODULE Xyz1000 ------------------------------
(***************************************************************************)
(* The XYZ-1000 Modbus RTU driver, xyz_1000_smart_sensor/driver.go: the    *)
(* Driver record behind d.mu, collectLoop, the handlers of POST /connect   *)
(* and PUT /config, which change that record while the loop runs, and the  *)
(* graceful shutdown of main.                                              *)
(*                                                                         *)
(* One action is one critical section of d.mu, one call of the operating   *)
(* system or one wait, so openPort, which locks twice, can interleave with *)
(* itself.  A port identifier stands for one open file; it is reused once  *)
(* nothing refers to it.  A reading is abstracted to whether it succeeded, *)
(* the device address to whether a request changes it, and what a handler  *)
(* answers is left out: no other step depends on any of them.              *)
(***************************************************************************)
EXTENDS Naturals, FiniteSets

CONSTANTS
  Collectors,      \* goroutines that can run collectLoop
  Requests,        \* HTTP handlers in flight at the same time
  Ports,           \* identifiers of open files
  NoPort,          \* a nil port
  Bauds,           \* baud rates within 9600..115200
  BadBaud,         \* any other, which only the environment can set
  RetryInitial,    \* IOT_RETRY_INITIAL_MS
  RetryMax,        \* IOT_RETRY_MAX_MS
  RetryBound       \* bound of this model on retryCount

ASSUME ConstantsAssumption ==
  /\ Collectors \cap Requests = {}
  /\ NoPort \notin Ports
  /\ BadBaud \notin Bauds
  /\ RetryInitial \in Nat
  /\ RetryMax \in Nat
  /\ RetryBound \in Nat
  /\ RetryInitial > 0 => RetryInitial * 2 ^ RetryBound >= RetryMax

Actors == Collectors \cup Requests

VARIABLES
  \* fields of Driver, under d.mu
  portNamed,           \* portName is not the empty string
  baudRate,
  port,
  connectionState,
  retryCount,
  backoffDelay,
  shouldRunCollector,
  reconnectRequested,
  \* goroutines
  pc,
  held,                \* the port an actor has in a local variable
  applied,             \* handleConfig's flag
  \* the files, and the process
  file,
  main                 \* where main is

settings == <<portNamed, baudRate>>
retries == <<retryCount, backoffDelay>>
flags == <<shouldRunCollector, reconnectRequested>>
vars == <<settings, port, connectionState, retries, flags, pc, held, applied,
          file, main>>

CollectorPC ==
  {"off", "top", "connecting", "settings", "open", "store", "up", "reset",
   "reconfigured", "poll", "read", "pollStatus", "readStatus", "sampled",
   "close", "fail", "sleep", "backoff", "exited"}
RequestPC ==
  {"idle", "baud", "address", "start", "check", "settings", "open", "store",
   "up", "fail", "newAddress", "request", "announce"}

Smaller(a, b) == IF a < b THEN a ELSE b
Larger(a, b) == IF a < b THEN b ELSE a

Running(c) == pc[c] \notin {"off", "exited"}

TypeOK ==
  /\ portNamed \in BOOLEAN
  /\ baudRate \in Bauds \cup {BadBaud}
  /\ port \in Ports \cup {NoPort}
  /\ connectionState \in {"connected", "connecting", "reconnecting", "disconnected"}
  /\ retryCount \in 0 .. RetryBound
  /\ backoffDelay \in 0 .. Larger(RetryInitial, RetryMax)
  /\ shouldRunCollector \in BOOLEAN
  /\ reconnectRequested \in BOOLEAN
  /\ pc \in [Actors -> CollectorPC \cup RequestPC]
  /\ \A c \in Collectors : pc[c] \in CollectorPC
  /\ \A r \in Requests : pc[r] \in RequestPC
  /\ held \in [Actors -> Ports \cup {NoPort}]
  /\ applied \in [Requests -> BOOLEAN]
  /\ file \in [Ports -> {"open", "closed"}]
  /\ main \in {"serving", "draining", "waiting", "closing", "exited"}

Init ==
  /\ portNamed \in BOOLEAN
  /\ baudRate \in Bauds \cup {BadBaud}
  /\ port = NoPort
  /\ connectionState = "disconnected"
  /\ retryCount = 0
  /\ backoffDelay = RetryInitial
  /\ shouldRunCollector = FALSE
  /\ reconnectRequested = FALSE
  /\ pc = [a \in Actors |-> IF a \in Collectors THEN "off" ELSE "idle"]
  /\ held = [a \in Actors |-> NoPort]
  /\ applied = [r \in Requests |-> FALSE]
  /\ file = [p \in Ports |-> "closed"]
  /\ main = "serving"

At(a, l) == pc[a] = l
Goto(a, l) == pc' = [pc EXCEPT ![a] = l]

\* d.ctx.Done() is closed.
CtxDone == main \in {"waiting", "closing", "exited"}

SetState(s) == connectionState' = s

-----------------------------------------------------------------------------
(* openPort, called by the loop and by handleConnect.                      *)

\* Its first critical section copies the settings, which it then checks.
CopySettings(a) ==
  /\ At(a, "settings")
  /\ Goto(a, IF portNamed /\ baudRate # BadBaud THEN "open" ELSE "fail")
  /\ UNCHANGED <<settings, port, connectionState, retries, flags, held, applied,
                 file, main>>

\* A file nothing refers to is closed by its finalizer, so its identifier
\* stands for a new one.
Referenced(p) == port = p \/ \E a \in Actors : held[a] = p

OpenSucceeds(a) ==
  /\ At(a, "open")
  /\ \E p \in Ports :
       /\ ~Referenced(p)
       /\ file' = [file EXCEPT ![p] = "open"]
       /\ held' = [held EXCEPT ![a] = p]
  /\ Goto(a, "store")
  /\ UNCHANGED <<settings, port, connectionState, retries, flags, applied, main>>

\* handleConnect leaves the state alone if the error says busy or timeout.
OpenFails(a) ==
  /\ At(a, "open")
  /\ \E l \in {"fail"} \cup (IF a \in Requests THEN {"idle"} ELSE {}) : Goto(a, l)
  /\ UNCHANGED <<settings, port, connectionState, retries, flags, held, applied,
                 file, main>>

\* A port stored by somebody else since the check is overwritten.
StoreClosingOld(a) ==
  /\ At(a, "store")
  /\ port' = held[a]
  /\ held' = [held EXCEPT ![a] = NoPort]
  /\ file' = [p \in Ports |-> IF p = port THEN "closed" ELSE file[p]]
  /\ Goto(a, "up")
  /\ UNCHANGED <<settings, connectionState, retries, flags, applied, main>>

StorePort(a) ==
  /\ At(a, "store")
  /\ port' = held[a]
  /\ held' = [held EXCEPT ![a] = NoPort]
  /\ Goto(a, "up")
  /\ UNCHANGED <<settings, connectionState, retries, flags, applied, file, main>>

OpenPort(a) ==
  CopySettings(a) \/ OpenSucceeds(a) \/ OpenFails(a) \/ StorePort(a)

-----------------------------------------------------------------------------
(* POST /connect.  Every field of the request is applied before the next   *)
(* one is checked.                                                         *)

Accepting(r) == At(r, "idle") /\ main = "serving"

ConnectPort(r) ==
  /\ Accepting(r)
  /\ \E given \in BOOLEAN : portNamed' = (portNamed \/ given)
  /\ Goto(r, "baud")
  /\ UNCHANGED <<baudRate, port, connectionState, retries, flags,
                 held, applied, file, main>>

\* 400 for a rate out of range ends the request.
ConnectBaud(r) ==
  /\ At(r, "baud")
  /\ \/ /\ baudRate' \in Bauds \cup {baudRate}
        /\ Goto(r, "address")
     \/ /\ Goto(r, "idle")
        /\ UNCHANGED baudRate
  /\ UNCHANGED <<portNamed, port, connectionState, retries, flags,
                 held, applied, file, main>>

ConnectAddress(r) ==
  /\ At(r, "address")
  /\ Goto(r, "start") \/ Goto(r, "idle")
  /\ UNCHANGED <<settings, port, connectionState, retries, flags,
                 held, applied, file, main>>

StartAnother(r) ==
  /\ At(r, "start")
  /\ shouldRunCollector' = TRUE
  /\ \E c \in Collectors :
       /\ At(c, "off")
       /\ pc' = [pc EXCEPT ![c] = "top", ![r] = "check"]
  /\ UNCHANGED <<settings, port, connectionState, retries, reconnectRequested,
                 held, applied, file, main>>

\* StartCollector.
Start(r) ==
  /\ At(r, "start")
  /\ shouldRunCollector' = TRUE
  /\ IF shouldRunCollector
     THEN Goto(r, "check")
     ELSE \E c \in Collectors :
            /\ At(c, "off")
            /\ pc' = [pc EXCEPT ![c] = "top", ![r] = "check"]
  /\ UNCHANGED <<settings, port, connectionState, retries, reconnectRequested,
                 held, applied, file, main>>

ConnectCheck(r) ==
  /\ At(r, "check")
  /\ Goto(r, IF port # NoPort THEN "idle" ELSE "settings")
  /\ UNCHANGED <<settings, port, connectionState, retries, flags, held, applied,
                 file, main>>

ConnectAnswer(r) ==
  /\ \/ At(r, "up") /\ SetState("connected")
     \/ At(r, "fail") /\ SetState("reconnecting")
  /\ Goto(r, "idle")
  /\ UNCHANGED <<settings, port, retries, flags, held, applied, file, main>>

-----------------------------------------------------------------------------
(* PUT /config.                                                            *)

ConfigBaud(r) ==
  /\ Accepting(r)
  /\ baudRate' \in Bauds \cup {baudRate}
  /\ applied' = [applied EXCEPT ![r] = baudRate' # baudRate]
  /\ Goto(r, "newAddress")
  /\ UNCHANGED <<portNamed, port, connectionState, retries, flags,
                 held, file, main>>

\* The address is absent, out of range, the present one or a new one.  Out of
\* range answers 400 and leaves a new baud rate in place without asking for
\* the reconnection it needs.
ConfigAddress(r) ==
  /\ At(r, "newAddress")
  /\ \/ \E new \in BOOLEAN :
          Goto(r, IF applied[r] \/ new THEN "request" ELSE "idle")
     \/ Goto(r, "idle")
  /\ applied' = [applied EXCEPT ![r] = FALSE]
  /\ UNCHANGED <<settings, port, connectionState, retries, flags,
                 held, file, main>>

ConfigReconnect(r) ==
  /\ At(r, "request")
  /\ reconnectRequested' = TRUE
  /\ Goto(r, "announce")
  /\ UNCHANGED <<settings, port, connectionState, retries, shouldRunCollector,
                 held, applied, file, main>>

ConfigAnswer(r) ==
  /\ At(r, "announce")
  /\ SetState("reconnecting")
  /\ Goto(r, "idle")
  /\ UNCHANGED <<settings, port, retries, flags, held, applied, file, main>>

-----------------------------------------------------------------------------
(* collectLoop.                                                            *)

\* The test of the context and isPortOpen: a context cancelled between the
\* two is as good as cancelled after them.
TopNeverStops(c) ==
  /\ At(c, "top")
  /\ Goto(c, IF port # NoPort THEN "reconfigured" ELSE "connecting")
  /\ UNCHANGED <<settings, port, connectionState, retries, flags, held, applied,
                 file, main>>

Top(c) ==
  /\ At(c, "top")
  /\ Goto(c, IF CtxDone THEN "exited"
             ELSE IF port # NoPort THEN "reconfigured" ELSE "connecting")
  /\ UNCHANGED <<settings, port, connectionState, retries, flags, held, applied,
                 file, main>>

\* The calls of setState around openPort and closePort.
Report(c) ==
  /\ \/ At(c, "connecting") /\ SetState("connecting") /\ Goto(c, "settings")
     \/ At(c, "up") /\ SetState("connected") /\ Goto(c, "reset")
     \/ At(c, "fail") /\ SetState("reconnecting") /\ Goto(c, "sleep")
  /\ UNCHANGED <<settings, port, retries, flags, held, applied, file, main>>

ResetKeepsCount(c) ==
  /\ At(c, "reset")
  /\ backoffDelay' = RetryInitial
  /\ Goto(c, "reconfigured")
  /\ UNCHANGED <<settings, port, connectionState, retryCount, flags, held, applied,
                 file, main>>

ResetBackoff(c) ==
  /\ At(c, "reset")
  /\ backoffDelay' = RetryInitial
  /\ retryCount' = 0
  /\ Goto(c, "reconfigured")
  /\ UNCHANGED <<settings, port, connectionState, flags, held, applied, file, main>>

\* shouldReconnect.  Nothing calls clearReconnectRequest.
ShouldReconnect(c) ==
  /\ At(c, "reconfigured")
  /\ Goto(c, IF reconnectRequested THEN "close" ELSE "poll")
  /\ UNCHANGED <<settings, port, connectionState, retries, flags, held, applied,
                 file, main>>

\* readInputRegister copies d.port and reads without the lock.
ReadBegins(c) ==
  /\ \/ At(c, "poll") /\ Goto(c, "read")
     \/ At(c, "pollStatus") /\ Goto(c, "readStatus")
  /\ held' = [held EXCEPT ![c] = port]
  /\ UNCHANGED <<settings, port, connectionState, retries, flags, applied,
                 file, main>>

ReadSucceeds(c) ==
  /\ \/ At(c, "read") /\ Goto(c, "pollStatus")
     \/ At(c, "readStatus") /\ Goto(c, "sampled")
  /\ held[c] # NoPort
  /\ file[held[c]] = "open"
  /\ held' = [held EXCEPT ![c] = NoPort]
  /\ UNCHANGED <<settings, port, connectionState, retries, flags, applied,
                 file, main>>

\* An error, or IOT_READ_TIMEOUT_MS without the seven bytes of an answer.
ReadFails(c) ==
  /\ pc[c] \in {"read", "readStatus"}
  /\ Goto(c, "close")
  /\ held' = [held EXCEPT ![c] = NoPort]
  /\ UNCHANGED <<settings, port, connectionState, retries, flags, applied,
                 file, main>>

\* The sample is stored, and the wait for the next ends by its timer or by
\* the cancelled context.
Sample(c) ==
  /\ At(c, "sampled")
  /\ \/ Goto(c, "top")
     \/ CtxDone /\ Goto(c, "exited")
  /\ UNCHANGED <<settings, port, connectionState, retries, flags, held, applied,
                 file, main>>

CloseKeepsField(c) ==
  /\ At(c, "close")
  /\ file' = [p \in Ports |-> IF p = port THEN "closed" ELSE file[p]]
  /\ Goto(c, "fail")
  /\ UNCHANGED <<settings, port, connectionState, retries, flags, held, applied, main>>

ClosePort(c) ==
  /\ At(c, "close")
  /\ file' = [p \in Ports |-> IF p = port THEN "closed" ELSE file[p]]
  /\ port' = NoPort
  /\ Goto(c, "fail")
  /\ UNCHANGED <<settings, connectionState, retries, flags, held, applied, main>>

NextDelay(bd) == Smaller(bd * 2, RetryMax)

\* sleepBackoff takes the delay it sleeps and leaves the next one.
SleepBackoff(c) ==
  /\ At(c, "sleep")
  /\ LET given == IF backoffDelay = 0 THEN RetryInitial ELSE backoffDelay
     IN  backoffDelay' = NextDelay(Smaller(given, RetryMax))
  /\ retryCount' = Smaller(retryCount + 1, RetryBound)
  /\ Goto(c, "backoff")
  /\ UNCHANGED <<settings, port, connectionState, flags, held, applied, file, main>>

\* The timer or the cancelled context: the loop looks at the context next.
SleepEnds(c) ==
  /\ At(c, "backoff")
  /\ Goto(c, "top")
  /\ UNCHANGED <<settings, port, connectionState, retries, flags, held, applied,
                 file, main>>

-----------------------------------------------------------------------------
(* The signal handling of main, and Stop.                                  *)

Signal ==
  /\ main = "serving"
  /\ main' = "draining"
  /\ UNCHANGED <<settings, port, connectionState, retries, flags, pc, held,
                 applied, file>>

\* srv.Shutdown waits for the handlers, for 5 seconds at most; then Stop
\* cancels the context.
Cancel ==
  /\ main = "draining"
  /\ main' = "waiting"
  /\ UNCHANGED <<settings, port, connectionState, retries, flags, pc, held,
                 applied, file>>

StopDoesNotWait ==
  /\ main = "waiting"
  /\ main' = "closing"
  /\ UNCHANGED <<settings, port, connectionState, retries, flags, pc, held,
                 applied, file>>

StopWaits ==
  /\ main = "waiting"
  /\ \A c \in Collectors : ~Running(c)
  /\ main' = "closing"
  /\ UNCHANGED <<settings, port, connectionState, retries, flags, pc, held,
                 applied, file>>

StopCloses ==
  /\ main = "closing"
  /\ file' = [p \in Ports |-> IF p = port THEN "closed" ELSE file[p]]
  /\ port' = NoPort
  /\ SetState("disconnected")
  /\ main' = "exited"
  /\ UNCHANGED <<settings, retries, flags, pc, held, applied>>

-----------------------------------------------------------------------------
Request(r) ==
  \/ ConnectPort(r) \/ ConnectBaud(r) \/ ConnectAddress(r) \/ Start(r)
  \/ ConnectCheck(r) \/ OpenPort(r) \/ ConnectAnswer(r)
  \/ ConfigBaud(r) \/ ConfigAddress(r) \/ ConfigReconnect(r) \/ ConfigAnswer(r)

Collector(c) ==
  \/ OpenPort(c)
  \/ Top(c) \/ Report(c) \/ ResetBackoff(c)
  \/ ShouldReconnect(c) \/ ReadBegins(c) \/ ReadSucceeds(c) \/ ReadFails(c)
  \/ Sample(c) \/ ClosePort(c) \/ SleepBackoff(c) \/ SleepEnds(c)

Stop == Cancel \/ StopWaits \/ StopCloses

\* The process ends with main.
Next ==
  \/ /\ main # "exited"
     /\ \/ \E r \in Requests : Request(r)
        \/ \E c \in Collectors : Collector(c)
        \/ Signal \/ Stop
  \/ main = "exited" /\ UNCHANGED vars

Spec == Init /\ [][Next]_vars

Alive(A) == main # "exited" /\ A

\* Goroutines run; a read ends at its deadline, Shutdown after 5 seconds.
\* Nothing is assumed of clients or of their handlers.
Fairness ==
  /\ \A c \in Collectors : WF_vars(Alive(Collector(c)))
  /\ WF_vars(Stop)

\* The device can be opened and answers: what is tried for ever works.
DeviceAnswers ==
  /\ SF_vars(Alive(\E c \in Collectors : OpenSucceeds(c)))
  /\ SF_vars(Alive(\E c \in Collectors : At(c, "read") /\ ReadSucceeds(c)))
  /\ SF_vars(Alive(\E c \in Collectors : At(c, "readStatus") /\ ReadSucceeds(c)))

FairSpec == Spec /\ Fairness
AnsweringSpec == FairSpec /\ DeviceAnswers

-----------------------------------------------------------------------------
(* Properties.                                                             *)

\* Whatever /connect, /config and Stop do meanwhile, the file under a read
\* of the collector is open: only the collector and Stop close one, and
\* Stop waits for the collector.
ReadsOpenPort ==
  \A c \in Collectors :
    pc[c] \in {"read", "readStatus"} =>
      held[c] \in Ports /\ file[held[c]] = "open"

\* After Stop, with no handler cut short by the 5 seconds of Shutdown, no
\* port is left in the driver or in the hands of a goroutine.
ShutdownReleasesPort ==
  (main = "exited" /\ \A r \in Requests : At(r, "idle")) =>
    port = NoPort /\ \A a \in Actors : held[a] = NoPort

\* The delay doubles with every retry /status counts, up to IOT_RETRY_MAX_MS,
\* and a successful open by the collector starts both again.
BackoffMatchesRetries ==
  (RetryInitial > 0 /\ retryCount > 0) =>
    backoffDelay = Smaller(RetryInitial * 2 ^ retryCount, RetryMax)

\* A collector with usable settings and a device that answers gets a sample,
\* unless a reconfiguration or the shutdown comes first.
Usable == portNamed /\ baudRate # BadBaud

CollectorPolls ==
  (Usable /\ \E c \in Collectors : Running(c)) ~>
    (reconnectRequested \/ main # "serving" \/ \E c \in Collectors : At(c, "sampled"))

\* A signal ends the process, wherever the collector is.
ShutdownCompletes == main = "draining" ~> main = "exited"
=============================================================================
