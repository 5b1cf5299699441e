--------------------------- MODULE IndustrialTest4 ---------------------------
(***************************************************************************)
(* The Industrial Test 4 driver, industrial_test_4/driver.py: POST /connect *)
(* against the poll threads it starts and stops.                           *)
(*                                                                         *)
(* connect() holds self.lock from its first line to its answer and gives   *)
(* the poller 5 seconds to end meanwhile, although the poller needs that   *)
(* lock to end a poll.  A poller given up lives on beside its successor.   *)
(* The lock is all a poller waits for: it reads self.modbus, connected and *)
(* the stop event without it, so the steps of connect() that change these  *)
(* are actions of their own.                                               *)
(*                                                                         *)
(* A target is a port with a slave id; a serial link is named by the       *)
(* target it was opened for.  Backoff delays, poll_running and last_error, *)
(* which are only reported, and the register values are left out.  So is   *)
(* the shutdown: the signal handler waits in server.shutdown() for the     *)
(* serve_forever() it interrupted, and driver.shutdown() is not reached.   *)
(***************************************************************************)
EXTENDS Naturals, FiniteSets

CONSTANTS
  Handlers,      \* requests in flight at the same time
  Pollers,       \* identifiers of poll threads; bounds those alive at once
  Targets,
  None,
  Registers,     \* registers of a sample, 3 in the code
  RetryMax       \* RETRY_MAX

ASSUME ConstantsAssumption ==
  /\ None \notin Handlers \cup Pollers \cup Targets
  /\ Registers \in Nat \ {0}
  /\ RetryMax \in Nat

VARIABLES
  \* fields of DriverState
  lock,          \* the request that holds it between two actions
  modbus,        \* the link, which is open, or None
  connected,
  target,        \* port and slave_id
  pollThread,
  stopEvent,
  sample,        \* the targets its registers were read from
  \* requests
  hpc,
  wants,         \* the target asked for
  \* poll threads
  ppc,
  attempt,
  left,          \* registers of this poll still to read
  from,          \* the targets the others were read from
  \* history: a join gave a poller up
  abandoned

link == <<modbus, connected, target>>
thread == <<pollThread, stopEvent>>
requests == <<hpc, wants>>
pollers == <<ppc, attempt, left, from>>
vars == <<lock, link, thread, sample, requests, pollers, abandoned>>

HandlerPC == {"idle", "join", "close", "open", "set"}
PollerPC == {"off", "loop", "check", "lost", "attempt", "read", "store", "failed", "sleep"}

TypeOK ==
  /\ lock \in Handlers \cup {None}
  /\ modbus \in Targets \cup {None}
  /\ connected \in BOOLEAN
  /\ target \in Targets \cup {None}
  /\ pollThread \in Pollers \cup {None}
  /\ stopEvent \in BOOLEAN
  /\ sample \subseteq Targets
  /\ hpc \in [Handlers -> HandlerPC]
  /\ wants \in [Handlers -> Targets \cup {None}]
  /\ ppc \in [Pollers -> PollerPC]
  /\ attempt \in [Pollers -> 0 .. RetryMax]
  /\ left \in [Pollers -> 0 .. Registers]
  /\ from \in [Pollers -> SUBSET Targets]
  /\ abandoned \in BOOLEAN
  /\ \A h \in Handlers : lock = h <=> hpc[h] # "idle"

Init ==
  /\ lock = None
  /\ modbus = None
  /\ connected = FALSE
  /\ target = None
  /\ pollThread = None
  /\ stopEvent = FALSE
  /\ sample = {}
  /\ hpc = [h \in Handlers |-> "idle"]
  /\ wants = [h \in Handlers |-> None]
  /\ ppc = [p \in Pollers |-> "off"]
  /\ attempt = [p \in Pollers |-> 0]
  /\ left = [p \in Pollers |-> 0]
  /\ from = [p \in Pollers |-> {}]
  /\ abandoned = FALSE

Alive(p) == ppc[p] # "off"

-----------------------------------------------------------------------------
(* connect().                                                              *)

Release(h) ==
  /\ lock' = None
  /\ hpc' = [hpc EXCEPT ![h] = "idle"]
  /\ wants' = [wants EXCEPT ![h] = None]

\* The end of _stop_polling_locked.
PollingStopped(h) ==
  /\ stopEvent' = FALSE
  /\ pollThread' = None
  /\ hpc' = [hpc EXCEPT ![h] = "close"]

\* A request for the target there is already changes nothing.  The bound: one
\* identifier is left for the thread this request will start.
Connect(h, t) ==
  /\ hpc[h] = "idle"
  /\ lock = None
  /\ ~(connected /\ target = t)
  /\ \E p \in Pollers : ~Alive(p)
  /\ lock' = h
  /\ wants' = [wants EXCEPT ![h] = t]
  /\ IF pollThread # None /\ ppc[pollThread] # "off"
     THEN /\ stopEvent' = TRUE
          /\ hpc' = [hpc EXCEPT ![h] = "join"]
          /\ UNCHANGED pollThread
     ELSE PollingStopped(h)
  /\ UNCHANGED <<link, sample, pollers, abandoned>>

JoinForEver(h) ==
  /\ hpc[h] = "join"
  /\ ~Alive(pollThread)
  /\ PollingStopped(h)
  /\ UNCHANGED <<lock, link, sample, wants, pollers, abandoned>>

NoJoin(h) ==
  /\ hpc[h] = "join"
  /\ PollingStopped(h)
  /\ UNCHANGED <<lock, link, sample, wants, pollers, abandoned>>

JoinOrLeave(h) ==
  /\ hpc[h] = "join"
  /\ abandoned' = (abandoned \/ Alive(pollThread))
  /\ IF Alive(pollThread)
     THEN hpc' = [hpc EXCEPT ![h] = "close"] /\ UNCHANGED thread
     ELSE PollingStopped(h)
  /\ UNCHANGED <<lock, link, sample, wants, pollers>>

\* The thread has ended, or 5 seconds have passed.
Join(h) ==
  /\ hpc[h] = "join"
  /\ abandoned' = (abandoned \/ Alive(pollThread))
  /\ PollingStopped(h)
  /\ UNCHANGED <<lock, link, sample, wants, pollers>>

Close(h) ==
  /\ hpc[h] = "close"
  /\ modbus' = None
  /\ hpc' = [hpc EXCEPT ![h] = "open"]
  /\ UNCHANGED <<lock, connected, target, thread, sample, wants, pollers, abandoned>>

OpenFails(h) ==
  /\ hpc[h] = "open"
  /\ Release(h)
  /\ UNCHANGED <<link, thread, sample, pollers, abandoned>>

OpenSucceeds(h) ==
  /\ hpc[h] = "open"
  /\ modbus' = wants[h]
  /\ hpc' = [hpc EXCEPT ![h] = "set"]
  /\ UNCHANGED <<lock, connected, target, thread, sample, wants, pollers, abandoned>>

\* The fields, _start_polling_locked, and the answer.
Connected(h) ==
  /\ hpc[h] = "set"
  /\ connected' = TRUE
  /\ target' = wants[h]
  /\ IF pollThread # None /\ ppc[pollThread] # "off"
     THEN UNCHANGED <<thread, ppc>>
     ELSE \E p \in Pollers :
            /\ ~Alive(p)
            /\ stopEvent' = FALSE
            /\ pollThread' = p
            /\ ppc' = [ppc EXCEPT ![p] = "loop"]
  /\ Release(h)
  /\ UNCHANGED <<modbus, sample, attempt, left, from, abandoned>>

-----------------------------------------------------------------------------
(* _poll_loop and _poll_once.  A poller that takes self.lock waits for it  *)
(* and gives it back within one action.                                    *)

Goto(p, l) == ppc' = [ppc EXCEPT ![p] = l]

Loop(p) ==
  /\ ppc[p] = "loop"
  /\ Goto(p, IF stopEvent THEN "off" ELSE "check")
  /\ UNCHANGED <<lock, link, thread, sample, requests, attempt, left, from, abandoned>>

\* Is the link there, and is there an attempt to make?
Check(p) ==
  /\ ppc[p] = "check"
  /\ lock = None
  /\ IF modbus # None /\ connected
     THEN IF RetryMax = 0
          THEN Goto(p, "sleep") /\ UNCHANGED attempt
          ELSE Goto(p, "attempt") /\ attempt' = [attempt EXCEPT ![p] = 1]
     ELSE Goto(p, "lost") /\ UNCHANGED attempt
  /\ UNCHANGED <<lock, link, thread, sample, requests, left, from, abandoned>>

Lost(p) ==
  /\ ppc[p] = "lost"
  /\ lock = None
  /\ Goto(p, "sleep")
  /\ UNCHANGED <<lock, link, thread, sample, requests, attempt, left, from, abandoned>>

Attempt(p) ==
  /\ ppc[p] = "attempt"
  /\ IF stopEvent
     THEN Goto(p, "sleep") /\ UNCHANGED <<left, from>>
     ELSE /\ Goto(p, "read")
          /\ left' = [left EXCEPT ![p] = Registers]
          /\ from' = [from EXCEPT ![p] = {}]
  /\ UNCHANGED <<lock, link, thread, sample, requests, attempt, abandoned>>

ReadSucceeds(p) ==
  /\ ppc[p] = "read"
  /\ modbus # None /\ connected
  /\ left' = [left EXCEPT ![p] = @ - 1]
  /\ from' = [from EXCEPT ![p] = @ \cup {modbus}]
  /\ Goto(p, IF left[p] = 1 THEN "store" ELSE "read")
  /\ UNCHANGED <<lock, link, thread, sample, requests, attempt, abandoned>>

\* No link, a link closed under the read, a timeout, or a bad frame.
ReadFails(p) ==
  /\ ppc[p] = "read"
  /\ Goto(p, "failed")
  /\ UNCHANGED <<lock, link, thread, sample, requests, attempt, left, from, abandoned>>

StoreOnce(p) ==
  /\ ppc[p] = "store"
  /\ lock = None
  /\ sample' = from[p]
  /\ Goto(p, "off")
  /\ UNCHANGED <<lock, link, thread, requests, attempt, left, from, abandoned>>

\* The sample is stored; then the thread sleeps the interval.
Store(p) ==
  /\ ppc[p] = "store"
  /\ lock = None
  /\ sample' = from[p]
  /\ Goto(p, "sleep")
  /\ UNCHANGED <<lock, link, thread, requests, attempt, left, from, abandoned>>

Failed(p) ==
  /\ ppc[p] = "failed"
  /\ lock = None
  /\ IF attempt[p] < RetryMax
     THEN Goto(p, "attempt") /\ attempt' = [attempt EXCEPT ![p] = @ + 1]
     ELSE Goto(p, "sleep") /\ UNCHANGED attempt
  /\ UNCHANGED <<lock, link, thread, sample, requests, left, from, abandoned>>

Sleep(p) ==
  /\ ppc[p] = "sleep"
  /\ Goto(p, "loop")
  /\ UNCHANGED <<lock, link, thread, sample, requests, attempt, left, from, abandoned>>

-----------------------------------------------------------------------------
Request(h) == Join(h) \/ Close(h) \/ OpenFails(h) \/ OpenSucceeds(h) \/ Connected(h)

Poller(p) ==
  \/ Loop(p) \/ Check(p) \/ Lost(p) \/ Attempt(p) \/ ReadSucceeds(p) \/ ReadFails(p)
  \/ Store(p) \/ Failed(p) \/ Sleep(p)

Next ==
  \/ \E h \in Handlers : Request(h) \/ \E t \in Targets : Connect(h, t)
  \/ \E p \in Pollers : Poller(p)

Spec == Init /\ [][Next]_vars

\* Threads run, and join() has a timeout.
Fairness ==
  /\ \A h \in Handlers : WF_vars(Request(h))
  /\ \A p \in Pollers : WF_vars(Poller(p))

\* The device answers: each register that is asked for again and again is
\* read in the end.
DeviceAnswers ==
  \A p \in Pollers, n \in 1 .. Registers : SF_vars(left[p] = n /\ ReadSucceeds(p))

AnsweringSpec == Spec /\ Fairness /\ DeviceAnswers

-----------------------------------------------------------------------------
(* Properties.                                                             *)

\* Once a /connect has opened the link, a thread that has not ended polls it,
\* although the stop event is shared with the threads given up before it.
LinkIsPolled ==
  (lock = None /\ connected /\ modbus # None) =>
    pollThread # None /\ Alive(pollThread)

\* Unless a thread was given up, every sample stored was read from the device
\* the driver is connected to, all of it.
SamplesCurrentDevice ==
  [][sample' # sample => abandoned \/ sample' = {target}]_vars

\* A /connect answers, although its poller may be waiting for the lock it holds.
ConnectReturns == \A h \in Handlers : lock = h ~> lock # h

\* A link to a device that answers is sampled, unless another /connect comes.
Polls ==
  (RetryMax > 0 /\ lock = None /\ connected /\ modbus # None) ~>
    (lock # None \/ \E p \in Pollers : ppc[p] = "store")
=============================================================================
