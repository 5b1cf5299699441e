---------------------------- MODULE SerialPollers ----------------------------
(***************************************************************************)
(* Three Go drivers that poll the holding registers of a Modbus RTU sensor *)
(* and serve the latest values over HTTP:                                  *)
(*   "ths1000"  ambient_temp_humidity_sensor (main.go, modbus.go), which   *)
(*              speaks Modbus itself over a serial.Port shared with main;  *)
(*   "rh"       industrial_emperature_r_humidity_sensor/driver.go and      *)
(*   "ambient"  ambient_temperature_and_humidity_sensor/driver.go, which   *)
(*              use a goburrow handler: its methods hold its mutex, and    *)
(*              Send opens a port that is closed.                          *)
(* Init chooses the program, and nothing changes the choice.               *)
(*                                                                         *)
(* Modbus RTU numbers nothing, so an answer is taken for the answer to the *)
(* request it follows.  An answer is abstracted to whether it belongs to   *)
(* the latest request ("own"), to an earlier one ("late") or is not a good *)
(* frame ("junk"); a value is the answer it was decoded from.  Delays, the *)
(* count of reconnects, time stamps, GET handlers, which copy the status   *)
(* under a lock, and the log.Fatalf of ambient's server are left out.      *)
(***************************************************************************)
EXTENDS Integers, Sequences

CONSTANTS
  Drivers,        \* the programs to look at
  RetryMax,       \* RETRY_MAX of ths1000, which is set to 1 if it is less
  CounterWidth,   \* where the counters of this model wrap around
  LineBound       \* bound of this model on the answers under way

Programs == {"ths1000", "rh", "ambient"}

ASSUME ConstantsAssumption ==
  /\ Drivers \subseteq Programs
  /\ RetryMax \in Nat \ {0}
  /\ CounterWidth \in Nat \ {0}
  /\ LineBound \in Nat \ {0}

VARIABLES
  driver, reads,       \* the program, and the requests one poll takes
  \* the poller
  pc,
  got,                 \* the answers of this poll so far
  tries,               \* attempt of runPoller in ths1000
  \* the serial port
  port,                \* it is open
  made,                \* ambient: d.handler is not nil
  line,                \* the answers that were not read yet
  \* the status and the values GET shows
  connected,
  faulty,              \* lastError is set; in ths1000 ModbusSlaveOK is not
  values,
  errors, retries,     \* the counters of ths1000
  suspect,             \* history: a request of ths1000 has failed since its poller
                       \* last gave up
  \* main
  ctx,                 \* the context is cancelled
  main

config == <<driver, reads>>
local == <<got, tries>>
serial == <<port, made, line>>
status == <<connected, faulty>>
counters == <<errors, retries, suspect>>
environment == <<ctx, main>>
vars == <<config, pc, local, serial, status, values, counters, environment>>

PollerPC ==
  {"start", "top", "connect", "refused", "mark", "poll", "answer", "store",
   "clear", "failed", "retry", "giveup", "close", "unmark", "sleep", "wait",
   "exited"}
MainPC ==
  {"serving", "draining", "closing", "close", "unmark", "waiting", "exited",
   "crashed"}
Answers == {"own", "late", "junk"}
ErrorKinds == {"timeout", "crc", "io"}

\* ths1000 asks for one block of registers, or for three registers in turn.
Reads(d) == CASE d = "ths1000" -> {1, 3} [] d = "rh" -> {2} [] d = "ambient" -> {3}

TypeOK ==
  /\ driver \in Drivers
  /\ reads \in Reads(driver)
  /\ pc \in PollerPC
  /\ got \in Seq({"own", "late"}) /\ Len(got) <= reads
  /\ tries \in 0..RetryMax
  /\ port \in BOOLEAN
  /\ made \in BOOLEAN
  /\ line \in Seq(Answers) /\ Len(line) <= LineBound
  /\ connected \in BOOLEAN
  /\ faulty \in BOOLEAN
  /\ values \in [1..reads -> {"none", "own", "late"}]
  /\ errors \in [ErrorKinds -> 0..(CounterWidth - 1)]
  /\ retries \in 0..(CounterWidth - 1)
  /\ suspect \in BOOLEAN
  /\ ctx \in BOOLEAN
  /\ main \in MainPC

Init ==
  /\ driver \in Drivers
  /\ reads \in Reads(driver)
  /\ pc = IF driver = "ambient" THEN "start" ELSE "top"
  /\ got = <<>>
  /\ tries = 0
  /\ port = FALSE
  /\ made = FALSE
  /\ line = <<>>
  /\ connected = FALSE
  /\ faulty = (driver = "ths1000")
  /\ values = [i \in 1..reads |-> "none"]
  /\ errors = [k \in ErrorKinds |-> 0]
  /\ retries = 0
  /\ suspect = FALSE
  /\ ctx = FALSE
  /\ main = "serving"

At(d, l) == driver = d /\ pc = l
MainAt(d, l) == driver = d /\ main = l

-----------------------------------------------------------------------------
(* The line.  The sensor answers in order, soon, late or never.  What is   *)
(* under way when the port is closed is lost.                              *)

Closes == port' = FALSE /\ line' = <<>>

\* A new request makes every answer that is still expected a late one.
Requested == [i \in DOMAIN line |-> IF line[i] = "own" THEN "late" ELSE line[i]]

\* The line with the sensor's answer to the latest request, if there is one.
Arrivals ==
  {line} \cup {Append(line, a) : a \in IF Len(line) < LineBound THEN {"own", "junk"} ELSE {}}

\* A frame is read whole.
Receives(a) ==
  \E l \in Arrivals : l # <<>> /\ Head(l) = a /\ a # "junk" /\ line' = Tail(l)

\* Nothing is read in time or the request is not written; the end of a frame
\* is not read in time; a bad frame is read, or its first bytes only.
Fails(k) ==
  \E l \in Arrivals :
    \/ k \in {"timeout", "io"} /\ line' = l
    \/ k = "timeout" /\ l # <<>> /\ line' = <<"junk">> \o Tail(l)
    \/ k \in {"crc", "io"} /\ l # <<>> /\ Head(l) = "junk" /\ line' = Tail(l)

\* Send of a goburrow handler opens the port when it finds it closed.
Send ==
  /\ port' = TRUE
  /\ line' = Requested
  /\ pc' = "answer"
  /\ UNCHANGED <<config, local, made, status, values, counters, environment>>

-----------------------------------------------------------------------------
(* ths1000: runPoller, pollOnce, connect and closePort, and ReadHolding-   *)
(* Registers of modbus.go.  d.port is read and assigned without a lock.    *)

ThsTop ==
  /\ At("ths1000", "top")
  /\ pc' = IF ctx THEN "exited" ELSE IF port THEN "poll" ELSE "connect"
  /\ got' = <<>>
  /\ tries' = 0
  /\ UNCHANGED <<config, serial, status, values, counters, environment>>

ThsConnects ==
  /\ At("ths1000", "connect")
  /\ port' = TRUE
  /\ pc' = "mark"
  /\ UNCHANGED <<config, local, made, line, status, values, counters, environment>>

ThsConnectFails ==
  /\ At("ths1000", "connect")
  /\ pc' = "top"
  /\ UNCHANGED <<config, local, serial, status, values, counters, environment>>

ThsMark ==
  /\ At("ths1000", "mark")
  /\ connected' = TRUE
  /\ pc' = "poll"
  /\ UNCHANGED <<config, local, serial, faulty, values, counters, environment>>

\* d.port is evaluated for every request: nil if main closed the port.
ThsSend ==
  /\ At("ths1000", "poll")
  /\ IF port THEN line' = Requested /\ pc' = "answer" /\ UNCHANGED main
             ELSE main' = "crashed" /\ UNCHANGED <<line, pc>>
  /\ UNCHANGED <<config, local, port, made, status, values, counters, ctx>>

ThsAnswer ==
  /\ At("ths1000", "answer")
  /\ port
  /\ \E a \in Answers : Receives(a) /\ got' = Append(got, a)
  /\ pc' = IF Len(got') < reads THEN "poll" ELSE "store"
  /\ UNCHANGED <<config, tries, port, made, status, values, counters, environment>>

ThsErrorDropsIO ==
  /\ At("ths1000", "answer")
  /\ \E k \in ErrorKinds :
       /\ IF port THEN Fails(k) ELSE k = "io" /\ UNCHANGED line
       /\ errors' = IF k = "io" THEN errors ELSE [errors EXCEPT ![k] = (@ + 1) % CounterWidth]
  /\ got' = <<>>
  /\ suspect' = TRUE
  /\ pc' = "failed"
  /\ UNCHANGED <<config, tries, port, made, status, values, retries, environment>>

\* Each kind of error has one counter; a port that was closed meanwhile gives
\* an I/O error.
ThsError ==
  /\ At("ths1000", "answer")
  /\ \E k \in ErrorKinds :
       /\ IF port THEN Fails(k) ELSE k = "io" /\ UNCHANGED line
       /\ errors' = [errors EXCEPT ![k] = (@ + 1) % CounterWidth]
  /\ got' = <<>>
  /\ suspect' = TRUE
  /\ pc' = "failed"
  /\ UNCHANGED <<config, tries, port, made, status, values, retries, environment>>

ThsFailed ==
  /\ At("ths1000", "failed")
  /\ faulty' = TRUE
  /\ pc' = "retry"
  /\ UNCHANGED <<config, local, serial, connected, values, counters, environment>>

ThsRetry ==
  /\ At("ths1000", "retry")
  /\ retries' = (retries + 1) % CounterWidth
  /\ tries' = tries + 1
  /\ pc' = "sleep"
  /\ UNCHANGED <<config, got, serial, status, values, errors, suspect, environment>>

\* The sleep does not look at the context, which is looked at after it.
ThsSleep ==
  /\ At("ths1000", "sleep")
  /\ pc' = IF ctx THEN "exited" ELSE IF tries < RetryMax THEN "poll" ELSE "giveup"
  /\ UNCHANGED <<config, local, serial, status, values, counters, environment>>

ThsStaysOpen ==
  /\ At("ths1000", "giveup")
  /\ pc' = "unmark"
  /\ UNCHANGED <<config, local, serial, status, values, counters, environment>>

\* closePort, called by the poller.
ThsGiveUp ==
  /\ At("ths1000", "giveup")
  /\ pc' = IF port THEN "close" ELSE "unmark"
  /\ UNCHANGED <<config, local, serial, status, values, counters, environment>>

ThsClose ==
  /\ At("ths1000", "close")
  /\ IF port THEN Closes /\ pc' = "unmark" /\ UNCHANGED main
             ELSE main' = "crashed" /\ UNCHANGED <<port, line, pc>>
  /\ UNCHANGED <<config, local, made, status, values, counters, ctx>>

ThsUnmark ==
  /\ At("ths1000", "unmark")
  /\ connected' = FALSE
  /\ suspect' = FALSE
  /\ pc' = "top"
  /\ UNCHANGED <<config, local, serial, faulty, values, errors, retries, environment>>

ThsStore ==
  /\ At("ths1000", "store")
  /\ values' = got
  /\ faulty' = FALSE
  /\ pc' = "wait"
  /\ UNCHANGED <<config, local, serial, connected, counters, environment>>

ThsWait ==
  /\ At("ths1000", "wait")
  /\ pc' \in {"top"} \cup IF ctx THEN {"exited"} ELSE {}
  /\ UNCHANGED <<config, local, serial, status, values, counters, environment>>

Ths1000 ==
  \/ ThsTop \/ ThsConnects \/ ThsConnectFails \/ ThsMark \/ ThsSend \/ ThsAnswer
  \/ ThsError \/ ThsFailed \/ ThsRetry \/ ThsSleep \/ ThsGiveUp \/ ThsClose
  \/ ThsUnmark \/ ThsStore \/ ThsWait

-----------------------------------------------------------------------------
(* rh: Collector.run, one lock for each call of the DataBuffer.            *)

RhTop ==
  /\ At("rh", "top")
  /\ pc' = IF ctx THEN "exited" ELSE "connect"
  /\ got' = <<>>
  /\ UNCHANGED <<config, tries, serial, status, values, counters, environment>>

\* Connect does nothing when the port is open.
RhConnects ==
  /\ At("rh", "connect")
  /\ port' = TRUE
  /\ pc' = "mark"
  /\ UNCHANGED <<config, local, made, line, status, values, counters, environment>>

RhConnectFails ==
  /\ At("rh", "connect")
  /\ ~port
  /\ connected' = FALSE
  /\ pc' = "refused"
  /\ UNCHANGED <<config, local, serial, faulty, values, counters, environment>>

RhRefused ==
  /\ At("rh", "refused")
  /\ faulty' = TRUE
  /\ pc' = "sleep"
  /\ UNCHANGED <<config, local, serial, connected, values, counters, environment>>

RhMark ==
  /\ At("rh", "mark")
  /\ connected' = TRUE
  /\ pc' = "poll"
  /\ UNCHANGED <<config, local, serial, faulty, values, counters, environment>>

\* Connect has opened the port, and nobody else closes it while the loop runs.
RhSend == At("rh", "poll") /\ Send

RhAnswer ==
  /\ At("rh", "answer")
  /\ \E a \in Answers : Receives(a) /\ got' = Append(got, a)
  /\ pc' = "store"
  /\ UNCHANGED <<config, tries, port, made, status, values, counters, environment>>

\* The temperature is stored before the humidity is asked for.
RhStore ==
  /\ At("rh", "store")
  /\ values' = [values EXCEPT ![Len(got)] = got[Len(got)]]
  /\ pc' = "clear"
  /\ UNCHANGED <<config, local, serial, status, counters, environment>>

RhClear ==
  /\ At("rh", "clear")
  /\ faulty' = FALSE
  /\ pc' = IF Len(got) < reads THEN "poll" ELSE "wait"
  /\ UNCHANGED <<config, local, serial, connected, values, counters, environment>>

RhError ==
  /\ At("rh", "answer")
  /\ \E k \in ErrorKinds : Fails(k)
  /\ faulty' = TRUE
  /\ pc' = "close"
  /\ UNCHANGED <<config, local, port, made, connected, values, counters, environment>>

RhKeepsOpen ==
  /\ At("rh", "close")
  /\ pc' = "unmark"
  /\ UNCHANGED <<config, local, serial, status, values, counters, environment>>

RhClose ==
  /\ At("rh", "close")
  /\ Closes
  /\ pc' = "unmark"
  /\ UNCHANGED <<config, local, made, status, values, counters, environment>>

RhUnmark ==
  /\ At("rh", "unmark")
  /\ connected' = FALSE
  /\ pc' = "sleep"
  /\ UNCHANGED <<config, local, serial, faulty, values, counters, environment>>

\* time.Sleep: the context is not looked at.
RhSleep ==
  /\ At("rh", "sleep")
  /\ pc' = "top"
  /\ UNCHANGED <<config, local, serial, status, values, counters, environment>>

RhWait ==
  /\ At("rh", "wait")
  /\ pc' \in {"top"} \cup IF ctx THEN {"exited"} ELSE {}
  /\ UNCHANGED <<config, local, serial, status, values, counters, environment>>

Rh ==
  \/ RhTop \/ RhConnects \/ RhConnectFails \/ RhRefused \/ RhMark \/ RhSend
  \/ RhAnswer \/ RhStore \/ RhClear \/ RhError \/ RhClose
  \/ RhUnmark \/ RhSleep \/ RhWait

-----------------------------------------------------------------------------
(* ambient: runPoller, connect, pollOnce and disconnect.                   *)

\* wg.Add, in the goroutine itself, and the constant part of the status.
AmbientStart ==
  /\ At("ambient", "start")
  /\ pc' = "top"
  /\ UNCHANGED <<config, local, serial, status, values, counters, environment>>

\* A handler that was made once is never nil again.
AmbientTop ==
  /\ At("ambient", "top")
  /\ pc' = IF ctx THEN "exited" ELSE IF made THEN "poll" ELSE "connect"
  /\ got' = <<>>
  /\ UNCHANGED <<config, tries, serial, status, values, counters, environment>>

AmbientConnects ==
  /\ At("ambient", "connect")
  /\ port' = TRUE
  /\ made' = TRUE
  /\ pc' = "mark"
  /\ UNCHANGED <<config, local, line, status, values, counters, environment>>

AmbientConnectFails ==
  /\ At("ambient", "connect")
  /\ faulty' = TRUE
  /\ connected' = FALSE
  /\ pc' = "sleep"
  /\ UNCHANGED <<config, local, serial, values, counters, environment>>

AmbientMark ==
  /\ At("ambient", "mark")
  /\ connected' = TRUE
  /\ faulty' = FALSE
  /\ pc' = "poll"
  /\ UNCHANGED <<config, local, serial, values, counters, environment>>

AmbientSend == At("ambient", "poll") /\ Send
AmbientSendFails ==
  /\ At("ambient", "poll")
  /\ ~port
  /\ faulty' = TRUE
  /\ pc' = "close"
  /\ UNCHANGED <<config, local, serial, connected, values, counters, environment>>

AmbientAnswer ==
  /\ At("ambient", "answer")
  /\ \E a \in Answers : Receives(a) /\ got' = Append(got, a)
  /\ pc' = IF Len(got') < reads THEN "poll" ELSE "store"
  /\ UNCHANGED <<config, tries, port, made, status, values, counters, environment>>

AmbientError ==
  /\ At("ambient", "answer")
  /\ \E k \in ErrorKinds : Fails(k)
  /\ faulty' = TRUE
  /\ pc' = "close"
  /\ UNCHANGED <<config, local, port, made, connected, values, counters, environment>>

AmbientClose ==
  /\ At("ambient", "close")
  /\ Closes
  /\ pc' = "unmark"
  /\ UNCHANGED <<config, local, made, status, values, counters, environment>>

AmbientUnmark ==
  /\ At("ambient", "unmark")
  /\ connected' = FALSE
  /\ pc' = "sleep"
  /\ UNCHANGED <<config, local, serial, faulty, values, counters, environment>>

AmbientSleep ==
  /\ At("ambient", "sleep")
  /\ pc' \in {"top"} \cup IF ctx THEN {"exited"} ELSE {}
  /\ UNCHANGED <<config, local, serial, status, values, counters, environment>>

AmbientStore ==
  /\ At("ambient", "store")
  /\ values' = got
  /\ pc' = "clear"
  /\ UNCHANGED <<config, local, serial, status, counters, environment>>

AmbientClear ==
  /\ At("ambient", "clear")
  /\ faulty' = FALSE
  /\ pc' = "wait"
  /\ UNCHANGED <<config, local, serial, connected, values, counters, environment>>

AmbientWait ==
  /\ At("ambient", "wait")
  /\ pc' \in {"top"} \cup IF ctx THEN {"exited"} ELSE {}
  /\ UNCHANGED <<config, local, serial, status, values, counters, environment>>

Ambient ==
  \/ AmbientStart \/ AmbientTop \/ AmbientConnects \/ AmbientConnectFails
  \/ AmbientMark \/ AmbientSend \/ AmbientSendFails \/ AmbientAnswer
  \/ AmbientError \/ AmbientClose \/ AmbientUnmark \/ AmbientSleep
  \/ AmbientStore \/ AmbientClear \/ AmbientWait

-----------------------------------------------------------------------------
(* main, which each program ends in an order of its own.                   *)

poller == <<config, pc, local, made, values, faulty, counters>>

\* ListenAndServe fails; main goes on waiting for a signal.
ThsServerFails ==
  /\ MainAt("ths1000", "serving")
  /\ ctx' = TRUE
  /\ UNCHANGED <<poller, port, line, connected, main>>

\* ths1000 and ambient cancel the context first, rh after Shutdown.
Signal ==
  /\ main = "serving"
  /\ ctx' = (ctx \/ driver # "rh")
  /\ main' = "draining"
  /\ UNCHANGED <<poller, port, line, connected>>

ThsDrained ==
  /\ MainAt("ths1000", "draining")
  /\ main' = "closing"
  /\ UNCHANGED <<poller, port, line, connected, ctx>>

ThsCheckPort ==
  /\ MainAt("ths1000", "closing")
  /\ main' = IF port THEN "close" ELSE "waiting"
  /\ UNCHANGED <<poller, port, line, connected, ctx>>

\* The port found a moment ago may be nil by now.
ThsMainCloses ==
  /\ MainAt("ths1000", "close")
  /\ IF port THEN Closes /\ main' = "unmark"
             ELSE main' = "crashed" /\ UNCHANGED <<port, line>>
  /\ UNCHANGED <<poller, connected, ctx>>

\* disconnect(); Close waits for a Send that is under way.
AmbientMainCloses ==
  /\ MainAt("ambient", "draining")
  /\ pc # "answer"
  /\ Closes
  /\ main' = "unmark"
  /\ UNCHANGED <<poller, connected, ctx>>

MainUnmarks ==
  /\ main = "unmark"
  /\ connected' = FALSE
  /\ main' = "waiting"
  /\ UNCHANGED <<poller, port, line, ctx>>

RhCancelsTooLate ==
  /\ MainAt("rh", "draining")
  /\ main' = "waiting"
  /\ UNCHANGED <<poller, port, line, connected, ctx>>

RhCancels ==
  /\ MainAt("rh", "draining")
  /\ ctx' = TRUE
  /\ main' = "waiting"
  /\ UNCHANGED <<poller, port, line, connected>>

\* Shutdown of the Collector.
RhCloses ==
  /\ MainAt("rh", "waiting")
  /\ pc = "exited"
  /\ Closes
  /\ main' = "exited"
  /\ UNCHANGED <<poller, connected, ctx>>

\* wg.Wait: nobody has called Add, or Done was called.
Waits ==
  /\ main = "waiting"
  /\ driver # "rh"
  /\ pc \in {"start", "exited"}
  /\ main' = "exited"
  /\ UNCHANGED <<poller, port, line, connected, ctx>>

Shutdown ==
  \/ ThsDrained \/ ThsCheckPort \/ ThsMainCloses \/ AmbientMainCloses
  \/ MainUnmarks \/ RhCancels \/ RhCloses \/ Waits

Poller == Ths1000 \/ Rh \/ Ambient

Ended == main \in {"exited", "crashed"}

Next ==
  \/ ~Ended /\ (Poller \/ ThsServerFails \/ Signal \/ Shutdown)
  \/ Ended /\ UNCHANGED vars

Spec == Init /\ [][Next]_vars

Alive(A) == ~Ended /\ A

\* Both goroutines run, and every wait of theirs ends.
Fairness == WF_vars(Alive(Poller)) /\ WF_vars(Alive(Shutdown))

\* An attempt that is repeated for ever, to open the port or to read one
\* register for the first time since top, succeeds in the end.
SensorAnswers ==
  /\ SF_vars(Alive(ThsConnects \/ RhConnects \/ AmbientConnects \/ (AmbientSend /\ ~port)))
  /\ \A n \in 0..2 :
       SF_vars(Alive(tries = 0 /\ Len(got) = n /\ (ThsAnswer \/ RhAnswer \/ AmbientAnswer)))

FairSpec == Spec /\ Fairness /\ SensorAnswers

-----------------------------------------------------------------------------
(* Properties.                                                             *)

\* No value that is served was decoded from the answer to another request,
\* which may have been for another register: rh and ambient close the port after
\* every failure.  ths1000, which repeats a request on the same open port, is
\* excepted, as it does serve such values.
ClosedLineAnswers ==
  driver # "ths1000" => \A i \in DOMAIN values : values[i] # "late"

\* In the two drivers that connect anew after a failure, a poll that has just
\* succeeded is shown with the sensor connected, as long as the program serves.
\* ambient, whose handler is never nil again, shows it disconnected for good.
ReconnectShows ==
  driver # "ambient" /\ pc = "wait" /\ main = "serving" => connected

\* What /status shows of ths1000 at any moment: every failed attempt is counted
\* under one kind of error and as one retry, at most one of them not yet.
CountersAgree ==
  driver = "ths1000" =>
    (errors["timeout"] + errors["crc"] + errors["io"] - retries) % CounterWidth
      = IF pc \in {"failed", "retry"} THEN 1 % CounterWidth ELSE 0

\* ths1000 takes a late answer only after a request has failed that it has not
\* given up on: giving up, it closes the port, and the first poll after that is
\* in step with the line again, wherever main's own close falls.
GivingUpResyncs ==
  driver = "ths1000" /\ ~suspect => \A i \in DOMAIN got : got[i] # "late"

\* As long as the program serves, values keep coming.
Polls == []<>(pc = "store" \/ ctx \/ main # "serving")

\* After a signal the process ends.
ShutdownCompletes == main = "draining" ~> Ended
=============================================================================
