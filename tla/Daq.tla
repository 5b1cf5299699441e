-------------------------------- MODULE Daq --------------------------------
(***************************************************************************)
(* The Go driver of the edge data acquisition module: Collector and        *)
(* ringBuffer of device.go, the handlers of http_server.go that use them,  *)
(* and main.go.  The collector dials the device, reads it and fills the    *)
(* ring; GET /status takes three looks at the collector and the ring, each *)
(* under a lock of its own; PUT /config/publish writes a register over a   *)
(* session of its own.                                                     *)
(*                                                                         *)
(* A sample is an element of a set, a session one TCP connection to the    *)
(* device.  The driver is configured without an MQTT broker.  lastErr,     *)
(* which nothing reads, running, which is set before the goroutine starts  *)
(* and never reset, and the age of lastSuccess are left out.               *)
(***************************************************************************)
EXTENDS Integers, Sequences

CONSTANTS
  Requests,          \* HTTP handlers in flight at the same time
  Sessions,          \* identifiers of TCP connections
  Samples,
  None,              \* no session, or no sample
  Capacity,          \* BUFFER_SIZE
  BackoffInitial,    \* BACKOFF_INITIAL_MS
  BackoffMax,        \* BACKOFF_MAX_MS
  FailureBound       \* bound of this model on the failures it remembers

\* LoadConfig refuses any other value of the three settings.
ASSUME ConstantsAssumption ==
  /\ None \notin Samples \cup Sessions
  /\ Capacity \in Nat \ {0}
  /\ BackoffInitial \in Nat \ {0}
  /\ BackoffMax \in Nat \ {0}
  /\ FailureBound \in Nat \ {0}
  /\ BackoffInitial * 2 ^ FailureBound >= BackoffMax

VARIABLES
  \* ringBuffer
  s, head, len,
  \* Collector
  connected,
  succeeded,     \* lastSuccess is not the zero time
  \* locals of loop
  pc, h, sample, backoff,
  \* locals of a handler
  rpc,
  online,        \* the lastSuccess that Status copied is not the zero time
  lastTS,        \* the sample whose time it found in the ring
  fill,          \* the length it found
  rh,            \* the session of SetPublishIntervalModbus
  \* the connections of the process, where main is
  open, main,
  failures       \* history: dials that failed since one succeeded

ring == <<s, head, len>>
collector == <<connected, succeeded>>
loop == <<pc, h, sample, backoff, failures>>
status == <<online, lastTS, fill>>
handlers == <<rpc, status, rh>>
vars == <<ring, collector, loop, handlers, open, main>>

LoopPC ==
  {"top", "dial", "backoff", "poll", "read", "add", "success", "wait",
   "closed", "exited"}
HandlerPC == {"idle", "timestamp", "length", "answer", "dial", "write"}

Larger(a, b) == IF a < b THEN b ELSE a
Smaller(a, b) == IF a < b THEN a ELSE b

TypeOK ==
  /\ s \in [0..(Capacity - 1) -> Samples \cup {None}]
  /\ head \in 0..(Capacity - 1)
  /\ len \in 0..Capacity
  /\ connected \in BOOLEAN
  /\ succeeded \in BOOLEAN
  /\ pc \in LoopPC
  /\ h \in Sessions \cup {None}
  /\ sample \in Samples \cup {None}
  /\ backoff \in 1..Larger(BackoffInitial, BackoffMax)
  /\ rpc \in [Requests -> HandlerPC]
  /\ online \in [Requests -> BOOLEAN]
  /\ lastTS \in [Requests -> Samples \cup {None}]
  /\ fill \in [Requests -> 0..Capacity]
  /\ rh \in [Requests -> Sessions \cup {None}]
  /\ open \subseteq Sessions
  /\ main \in {"serving", "draining", "cancelled", "exited"}
  /\ failures \in 0..FailureBound

Init ==
  /\ s = [i \in 0..(Capacity - 1) |-> None]
  /\ head = 0
  /\ len = 0
  /\ connected = FALSE
  /\ succeeded = FALSE
  /\ pc = "top"
  /\ h = None
  /\ sample = None
  /\ backoff = BackoffInitial
  /\ rpc = [r \in Requests |-> "idle"]
  /\ online = [r \in Requests |-> FALSE]
  /\ lastTS = [r \in Requests |-> None]
  /\ fill = [r \in Requests |-> 0]
  /\ rh = [r \in Requests |-> None]
  /\ open = {}
  /\ main = "serving"
  /\ failures = 0

CtxDone == main = "cancelled"

-----------------------------------------------------------------------------
(* ringBuffer, whose methods hold its lock.                                *)

\* add() as it would be if the ring filled up but never wrapped around.
AddKeepsHead(x) ==
  /\ s' = [s EXCEPT ![head] = x]
  /\ head' = IF len < Capacity THEN (head + 1) % Capacity ELSE head
  /\ len' = IF len < Capacity THEN len + 1 ELSE len

Add(x) ==
  /\ s' = [s EXCEPT ![head] = x]
  /\ head' = (head + 1) % Capacity
  /\ len' = IF len < Capacity THEN len + 1 ELSE len

LastTimestamp == IF len = 0 THEN None ELSE s[(head - 1 + Capacity) % Capacity]

-----------------------------------------------------------------------------
(* The collector.                                                          *)

\* The two selects on ctx.Done at the tops of the loops.
Top ==
  /\ pc = "top"
  /\ IF CtxDone THEN pc' = "exited" /\ connected' = FALSE
                ELSE pc' = "dial" /\ UNCHANGED connected
  /\ UNCHANGED <<ring, succeeded, h, sample, backoff, failures, handlers, open, main>>

DialKeepsBackoff ==
  /\ pc = "dial"
  /\ \E x \in Sessions \ open : h' = x /\ open' = open \cup {x}
  /\ connected' = TRUE
  /\ failures' = 0
  /\ pc' = "poll"
  /\ UNCHANGED <<ring, succeeded, sample, backoff, handlers, main>>

\* A session that was dialled is reported, and the backoff starts again.
DialSucceeds ==
  /\ pc = "dial"
  /\ \E x \in Sessions \ open : h' = x /\ open' = open \cup {x}
  /\ connected' = TRUE
  /\ backoff' = BackoffInitial
  /\ failures' = 0
  /\ pc' = "poll"
  /\ UNCHANGED <<ring, succeeded, sample, handlers, main>>

DialFails ==
  /\ pc = "dial"
  /\ failures' = Smaller(failures + 1, FailureBound)
  /\ pc' = "backoff"
  /\ UNCHANGED <<ring, collector, h, sample, backoff, handlers, open, main>>

NextBackoff(cur) == IF cur * 2 > BackoffMax THEN BackoffMax ELSE cur * 2

\* sleepCtx returns on whichever comes first, the timer or the context.
BackoffEnds ==
  /\ pc = "backoff"
  /\ \/ pc' = "top" /\ backoff' = NextBackoff(backoff)
     \/ CtxDone /\ pc' = "exited" /\ UNCHANGED backoff
  /\ UNCHANGED <<ring, collector, h, sample, failures, handlers, open, main>>

Poll ==
  /\ pc = "poll"
  /\ IF CtxDone
     THEN pc' = "exited" /\ connected' = FALSE /\ open' = open \ {h} /\ h' = None
     ELSE pc' = "read" /\ UNCHANGED <<connected, open, h>>
  /\ UNCHANGED <<ring, succeeded, sample, backoff, failures, handlers, main>>

\* The time of the success taken when the answer comes, before the sample
\* is in the ring.
ReadRecorded ==
  /\ pc = "read"
  /\ sample' \in Samples
  /\ succeeded' = TRUE
  /\ pc' = "add"
  /\ UNCHANGED <<ring, connected, h, backoff, failures, handlers, open, main>>

ReadSucceeds ==
  /\ pc = "read"
  /\ sample' \in Samples
  /\ pc' = "add"
  /\ UNCHANGED <<ring, collector, h, backoff, failures, handlers, open, main>>

ReadKeepsSession ==
  /\ pc = "read"
  /\ h' = None
  /\ pc' = "closed"
  /\ UNCHANGED <<ring, collector, sample, backoff, failures, handlers, open, main>>

\* Either of the two requests failed, or had an answer of the wrong length.
\* The inner loop is left without a delay.
ReadFails ==
  /\ pc = "read"
  /\ open' = open \ {h}
  /\ h' = None
  /\ pc' = "closed"
  /\ UNCHANGED <<ring, collector, sample, backoff, failures, handlers, main>>

LeaveLoop ==
  /\ pc = "closed"
  /\ connected' = FALSE
  /\ pc' = "exited"
  /\ UNCHANGED <<ring, succeeded, h, sample, backoff, failures, handlers, open, main>>

Reconnect ==
  /\ pc = "closed"
  /\ connected' = FALSE
  /\ pc' = "top"
  /\ UNCHANGED <<ring, succeeded, h, sample, backoff, failures, handlers, open, main>>

AddSample ==
  /\ pc = "add"
  /\ Add(sample)
  /\ pc' = "success"
  /\ UNCHANGED <<collector, h, sample, backoff, failures, handlers, open, main>>

RecordSuccess ==
  /\ pc = "success"
  /\ succeeded' = TRUE
  /\ sample' = None
  /\ pc' = "wait"
  /\ UNCHANGED <<ring, connected, h, backoff, failures, handlers, open, main>>

\* A wait of no length does not look at the context; one that is cancelled
\* closes the session and leaves connected as it is.
WaitEnds ==
  /\ pc = "wait"
  /\ \/ pc' = "poll" /\ UNCHANGED <<open, h>>
     \/ CtxDone /\ pc' = "exited" /\ open' = open \ {h} /\ h' = None
  /\ UNCHANGED <<ring, collector, sample, backoff, failures, handlers, main>>

Loop ==
  \/ Top \/ DialSucceeds \/ DialFails \/ BackoffEnds \/ Poll \/ ReadSucceeds
  \/ ReadFails \/ Reconnect \/ AddSample \/ RecordSuccess \/ WaitEnds

-----------------------------------------------------------------------------
(* The handlers.                                                           *)

At(r, l) == rpc[r] = l
Goto(r, l) == rpc' = [rpc EXCEPT ![r] = l]

StatusBegins(r) ==
  /\ At(r, "idle")
  /\ main = "serving"
  /\ online' = [online EXCEPT ![r] = succeeded]
  /\ Goto(r, "timestamp")
  /\ UNCHANGED <<ring, collector, loop, lastTS, fill, rh, open, main>>

StatusTimestamp(r) ==
  /\ At(r, "timestamp")
  /\ lastTS' = [lastTS EXCEPT ![r] = LastTimestamp]
  /\ Goto(r, "length")
  /\ UNCHANGED <<ring, collector, loop, online, fill, rh, open, main>>

StatusLength(r) ==
  /\ At(r, "length")
  /\ fill' = [fill EXCEPT ![r] = len]
  /\ Goto(r, "answer")
  /\ UNCHANGED <<ring, collector, loop, online, lastTS, rh, open, main>>

Answer(r) ==
  /\ At(r, "answer")
  /\ online' = [online EXCEPT ![r] = FALSE]
  /\ lastTS' = [lastTS EXCEPT ![r] = None]
  /\ fill' = [fill EXCEPT ![r] = 0]
  /\ Goto(r, "idle")
  /\ UNCHANGED <<ring, collector, loop, rh, open, main>>

\* A request that is refused for its method, its body, its interval or the
\* lack of a configured register changes nothing.
PublishBegins(r) ==
  /\ At(r, "idle")
  /\ main = "serving"
  /\ Goto(r, "dial")
  /\ UNCHANGED <<ring, collector, loop, status, rh, open, main>>

PublishDial(r) ==
  /\ At(r, "dial")
  /\ \/ /\ \E x \in Sessions \ open :
             rh' = [rh EXCEPT ![r] = x] /\ open' = open \cup {x}
        /\ Goto(r, "write")
     \/ Goto(r, "idle") /\ UNCHANGED <<rh, open>>
  /\ UNCHANGED <<ring, collector, loop, status, main>>

\* The register is written or not; the deferred Close follows either way.
PublishEnds(r) ==
  /\ At(r, "write")
  /\ open' = open \ {rh[r]}
  /\ rh' = [rh EXCEPT ![r] = None]
  /\ Goto(r, "idle")
  /\ UNCHANGED <<ring, collector, loop, status, main>>

Handler(r) ==
  \/ StatusBegins(r) \/ StatusTimestamp(r) \/ StatusLength(r) \/ Answer(r)
  \/ PublishBegins(r) \/ PublishDial(r) \/ PublishEnds(r)

-----------------------------------------------------------------------------
(* main.                                                                   *)

Signal ==
  /\ main = "serving"
  /\ main' = "draining"
  /\ UNCHANGED <<ring, collector, loop, handlers, open>>

\* Shutdown returns when no handler is left, or after ten seconds; only then
\* does main return, which runs the deferred cancel.
Cancel ==
  /\ main = "draining"
  /\ main' = "cancelled"
  /\ UNCHANGED <<ring, collector, loop, handlers, open>>

\* The process ends with main, wherever the collector is.
Exit ==
  /\ main = "cancelled"
  /\ main' = "exited"
  /\ UNCHANGED <<ring, collector, loop, handlers, open>>

Next ==
  \/ /\ main # "exited"
     /\ Loop \/ (\E r \in Requests : Handler(r)) \/ Signal \/ Cancel \/ Exit
  \/ main = "exited" /\ UNCHANGED vars

Spec == Init /\ [][Next]_vars

Alive(A) == main # "exited" /\ A

\* The goroutine runs: a dial, a read and a sleep end.  The device can be
\* reached: an attempt repeated for ever is answered in the end.  Nothing is
\* assumed of handlers.
Fairness == WF_vars(Alive(Loop))
DeviceAnswers ==
  /\ SF_vars(Alive(DialSucceeds))
  /\ SF_vars(Alive(ReadSucceeds))

FairSpec == Spec /\ Fairness /\ DeviceAnswers

-----------------------------------------------------------------------------
(* Properties.                                                             *)

\* The sample that was taken i-th of those the ring holds.
Held(i) == s[(head - len + i - 1 + Capacity) % Capacity]

\* The ring implements the window of the latest samples.
Window == INSTANCE SampleWindow WITH window <- [i \in 1..len |-> Held(i)]
WindowSpec == Window!Spec

\* A status that calls the device online, or its buffer not empty, has found
\* the sample to show for it, although it takes three separate looks while
\* the collector goes on.
StatusAgrees ==
  \A r \in Requests : At(r, "answer") =>
    /\ online[r] => lastTS[r] # None
    /\ lastTS[r] # None => fill[r] > 0

\* Acquisition is not reported as running while the collector tries, or waits,
\* to have a session.  (Between the close of one and setConnected it may be.)
RunningHasSession == pc \in {"top", "dial", "backoff"} => ~connected

\* Every session that is open belongs to somebody who will close it: none is
\* left behind by a failed read, a reconnection or a failed write.
SessionsOwned ==
  open = ({h} \cup {rh[r] : r \in Requests}) \ {None}

\* The delay a dial is followed by if it fails is the initial one, doubled by
\* every failure since the last session and capped.
BackoffFollowsFailures ==
  pc \in {"top", "dial"} =>
    backoff = IF failures = 0 THEN BackoffInitial
              ELSE Smaller(BackoffInitial * 2 ^ failures, BackoffMax)

\* While the driver serves, samples keep coming.
Acquires == []<>(pc = "add" \/ main # "serving")
=============================================================================
