----------------------- MODULE IndustrialTest4_proofs -----------------------
(***************************************************************************)
(* Proofs about IndustrialTest4 for any number of requests, targets and    *)
(* poll threads given up, and any number of registers and attempts.        *)
(***************************************************************************)
EXTENDS IndustrialTest4, TLAPS

(* The inductive invariant.  The stop event is set only while a request    *)
(* joins; the thread pollThread names has not ended while it is clear.     *)
InFlight ==
  \A h \in Handlers :
    /\ hpc[h] # "idle" => wants[h] \in Targets
    /\ hpc[h] = "join" => pollThread \in Pollers
    /\ hpc[h] \in {"close", "open", "set"} => pollThread = None /\ ~stopEvent
    /\ hpc[h] = "open" => modbus = None
    /\ hpc[h] = "set" => modbus = wants[h]

Polled ==
  /\ lock = None => ~stopEvent
  /\ pollThread # None /\ ~stopEvent => Alive(pollThread)
  /\ lock = None /\ modbus # None => pollThread # None

LinkIsTarget ==
  (modbus # None /\ \A h \in Handlers : hpc[h] # "set") =>
    connected /\ modbus = target

Reading == \A p \in Pollers : ppc[p] = "read" => left[p] # 0

(* Until a thread is given up there is only one, what it has read it has   *)
(* read from the current target.                                           *)
OneThread == ~abandoned => \A p \in Pollers : Alive(p) => p = pollThread

ReadsTarget ==
  ~abandoned =>
    \A p \in Pollers :
      /\ ppc[p] = "read" => from[p] \subseteq {target}
      /\ ppc[p] = "store" => from[p] = {target}

Inv ==
  TypeOK /\ InFlight /\ Polled /\ LinkIsTarget /\ Reading /\ OneThread /\ ReadsTarget

LEMMA InvInit == Init => Inv
<1> SUFFICES ASSUME Init PROVE Inv
  OBVIOUS
<1> USE ConstantsAssumption DEF Init
<1>1. /\ 0 \in 0 .. RetryMax
      /\ 0 \in 0 .. Registers
  OBVIOUS
<1>2. /\ hpc \in [Handlers -> HandlerPC]
      /\ wants \in [Handlers -> Targets \cup {None}]
      /\ ppc \in [Pollers -> PollerPC]
  BY DEF HandlerPC, PollerPC
<1>3. /\ attempt \in [Pollers -> 0 .. RetryMax]
      /\ left \in [Pollers -> 0 .. Registers]
      /\ from \in [Pollers -> SUBSET Targets]
  BY <1>1
<1>4. TypeOK
  BY <1>2, <1>3 DEF TypeOK
<1>5. QED
  BY <1>4 DEF Inv, InFlight, Polled, LinkIsTarget, Reading, OneThread, ReadsTarget, Alive

-----------------------------------------------------------------------------
(* The steps of a request: it holds the lock, so no other one is under way. *)
LEMMA Alone ==
  ASSUME TypeOK, NEW h \in Handlers, hpc[h] # "idle"
  PROVE  lock = h /\ lock # None /\ \A i \in Handlers : hpc[i] # "idle" => i = h
  BY ConstantsAssumption DEF TypeOK

LEMMA InvConnect ==
  ASSUME Inv, NEW h \in Handlers, NEW t \in Targets, Connect(h, t)
  PROVE  Inv'
<1> USE ConstantsAssumption DEF Inv
<1>1. \A i \in Handlers : hpc[i] = "idle"
  BY DEF TypeOK, Connect
<1>2. /\ lock' = h
      /\ hpc' \in {[hpc EXCEPT ![h] = "join"], [hpc EXCEPT ![h] = "close"]}
      /\ wants' = [wants EXCEPT ![h] = t]
      /\ UNCHANGED <<modbus, connected, target, sample, ppc, attempt, left, from, abandoned>>
  BY DEF Connect, PollingStopped, link, pollers
<1>3. \/ /\ hpc' = [hpc EXCEPT ![h] = "join"]
         /\ pollThread' = pollThread /\ pollThread # None /\ stopEvent'
      \/ /\ hpc' = [hpc EXCEPT ![h] = "close"]
         /\ pollThread' = None /\ ~stopEvent'
         /\ pollThread = None \/ ~Alive(pollThread)
  BY DEF Connect, PollingStopped, Alive
<1>4. stopEvent' \in BOOLEAN
  BY DEF Connect, PollingStopped
<1>5. TypeOK'
  BY <1>1, <1>2, <1>3, <1>4 DEF TypeOK, HandlerPC
<1>6. InFlight' /\ Polled'
  BY <1>1, <1>2, <1>3, <1>4 DEF TypeOK, InFlight, Polled
<1>7. LinkIsTarget' /\ Reading'
  BY <1>1, <1>2 DEF TypeOK, LinkIsTarget, Reading
<1>8. OneThread' /\ ReadsTarget'
  BY <1>2, <1>3 DEF TypeOK, OneThread, ReadsTarget, Alive
<1>9. QED
  BY <1>5, <1>6, <1>7, <1>8

LEMMA InvRequest ==
  ASSUME Inv, NEW h \in Handlers, Request(h)
  PROVE  Inv'
<1> USE ConstantsAssumption DEF Inv
<1>1. CASE Join(h)
  <2>1. /\ lock = h /\ \A i \in Handlers : hpc[i] # "idle" => i = h
        /\ pollThread \in Pollers
    BY <1>1, Alone DEF Join, InFlight
  <2>2. TypeOK'
    BY <1>1, <2>1 DEF TypeOK, Join, PollingStopped, HandlerPC, link, pollers
  <2>3. InFlight' /\ Polled'
    BY <1>1, <2>1 DEF TypeOK, InFlight, Polled, Join, PollingStopped, link, pollers
  <2>4. LinkIsTarget' /\ Reading'
    BY <1>1, <2>1 DEF TypeOK, LinkIsTarget, Reading, Join, PollingStopped, link, pollers
  <2>5. OneThread' /\ ReadsTarget'
    BY <1>1, <2>1 DEF TypeOK, OneThread, ReadsTarget, Alive, Join, PollingStopped, link,
                      pollers
  <2>6. QED
    BY <2>2, <2>3, <2>4, <2>5
<1>2. CASE Close(h)
  <2>1. lock = h /\ \A i \in Handlers : hpc[i] # "idle" => i = h
    BY <1>2, Alone DEF Close
  <2>2. TypeOK'
    BY <1>2, <2>1 DEF TypeOK, Close, HandlerPC, thread, pollers
  <2>3. InFlight' /\ Polled'
    BY <1>2, <2>1 DEF TypeOK, InFlight, Polled, Alive, Close, thread, pollers
  <2>4. LinkIsTarget' /\ Reading' /\ OneThread' /\ ReadsTarget'
    BY <1>2 DEF TypeOK, LinkIsTarget, Reading, OneThread, ReadsTarget, Alive, Close,
                thread, pollers
  <2>5. QED
    BY <2>2, <2>3, <2>4
<1>3. CASE OpenFails(h)
  <2>1. lock = h /\ \A i \in Handlers : hpc[i] # "idle" => i = h
    BY <1>3, Alone DEF OpenFails
  <2>2. TypeOK'
    BY <1>3, <2>1 DEF TypeOK, OpenFails, Release, HandlerPC, link, thread, pollers
  <2>3. QED
    BY <1>3, <2>1, <2>2
    DEF TypeOK, InFlight, Polled, LinkIsTarget, Reading, OneThread, ReadsTarget, Alive,
        OpenFails, Release, link, thread, pollers
<1>4. CASE OpenSucceeds(h)
  <2>1. lock = h /\ \A i \in Handlers : hpc[i] # "idle" => i = h
    BY <1>4, Alone DEF OpenSucceeds
  <2>2. TypeOK'
    BY <1>4, <2>1 DEF TypeOK, InFlight, OpenSucceeds, HandlerPC, thread, pollers
  <2>3. InFlight' /\ Polled'
    BY <1>4, <2>1 DEF TypeOK, InFlight, Polled, Alive, OpenSucceeds, thread, pollers
  <2>4. LinkIsTarget' /\ Reading' /\ OneThread' /\ ReadsTarget'
    BY <1>4 DEF TypeOK, LinkIsTarget, Reading, OneThread, ReadsTarget, Alive,
                OpenSucceeds, thread, pollers
  <2>5. QED
    BY <2>2, <2>3, <2>4
<1>5. CASE Connected(h)
  <2>1. /\ lock = h /\ \A i \in Handlers : hpc[i] # "idle" => i = h
        /\ pollThread = None /\ wants[h] \in Targets /\ modbus = wants[h]
    BY <1>5, Alone DEF Connected, InFlight
  <2>2. /\ connected' = TRUE /\ target' = modbus /\ lock' = None
        /\ hpc' = [hpc EXCEPT ![h] = "idle"]
        /\ wants' = [wants EXCEPT ![h] = None]
        /\ UNCHANGED <<modbus, sample, attempt, left, from, abandoned>>
    BY <1>5, <2>1 DEF Connected, Release
  <2>3. PICK p \in Pollers : /\ ~Alive(p) /\ ~stopEvent' /\ stopEvent' \in BOOLEAN
                             /\ pollThread' = p
                             /\ ppc' = [ppc EXCEPT ![p] = "loop"]
    BY <1>5, <2>1 DEF Connected
  <2>4. TypeOK'
    BY <2>1, <2>2, <2>3 DEF TypeOK, HandlerPC, PollerPC
  <2>5. InFlight' /\ Polled'
    BY <2>1, <2>2, <2>3 DEF TypeOK, InFlight, Polled, Alive
  <2>6. LinkIsTarget' /\ Reading'
    BY <2>1, <2>2, <2>3 DEF TypeOK, LinkIsTarget, Reading
  <2>7. OneThread' /\ ReadsTarget'
    BY <2>1, <2>2, <2>3 DEF TypeOK, OneThread, ReadsTarget, Alive
  <2>8. QED
    BY <2>4, <2>5, <2>6, <2>7
<1>6. QED
  BY <1>1, <1>2, <1>3, <1>4, <1>5 DEF Request

-----------------------------------------------------------------------------
(* The steps of a poll thread.  Only Loop ends one, and only when told to. *)
LEMMA InvPoller ==
  ASSUME Inv, NEW p \in Pollers, Poller(p)
  PROVE  Inv'
<1> USE ConstantsAssumption DEF Inv
<1>1. CASE Loop(p)
  <2>1. TypeOK'
    BY <1>1 DEF TypeOK, Loop, Goto, PollerPC, link, thread, requests
  <2>2. QED
    BY <1>1, <2>1
    DEF TypeOK, InFlight, Polled, LinkIsTarget, Reading, OneThread, ReadsTarget, Alive,
        Loop, Goto, link, thread, requests
<1>2. CASE Check(p) \/ Lost(p) \/ Failed(p) \/ Sleep(p)
  <2>1. TypeOK'
    BY <1>2 DEF TypeOK, Check, Lost, Failed, Sleep, Goto, PollerPC, link, thread, requests
  <2>2. /\ ppc[p] # "off"
        /\ \E l \in PollerPC \ {"off", "read", "store"} : ppc' = [ppc EXCEPT ![p] = l]
        /\ UNCHANGED <<lock, modbus, connected, target, pollThread, stopEvent, hpc,
                       wants, left, from, abandoned>>
    BY <1>2 DEF Check, Lost, Failed, Sleep, Goto, PollerPC, link, thread, requests
  <2>3. QED
    BY <2>1, <2>2
    DEF TypeOK, InFlight, Polled, LinkIsTarget, Reading, OneThread, ReadsTarget, Alive
<1>3. CASE Attempt(p)
  <2>1. TypeOK'
    BY <1>3 DEF TypeOK, Attempt, Goto, PollerPC, link, thread, requests
  <2>2. QED
    BY <1>3, <2>1
    DEF TypeOK, InFlight, Polled, LinkIsTarget, Reading, OneThread, ReadsTarget, Alive,
        Attempt, Goto, link, thread, requests
<1>4. CASE ReadSucceeds(p)
  <2>1. left[p] \in 1 .. Registers
    BY <1>4 DEF TypeOK, Reading, ReadSucceeds
  <2>2. TypeOK'
    BY <1>4, <2>1 DEF TypeOK, ReadSucceeds, Goto, PollerPC, link, thread, requests
  <2>3. InFlight' /\ Polled' /\ LinkIsTarget' /\ Reading' /\ OneThread'
    BY <1>4, <2>1
    DEF TypeOK, InFlight, Polled, LinkIsTarget, Reading, OneThread, Alive,
        ReadSucceeds, Goto, link, thread, requests
  <2>4. ReadsTarget'
    <3> SUFFICES ASSUME ~abandoned PROVE ReadsTarget'
      BY <1>4 DEF ReadsTarget, ReadSucceeds
    <3>1. modbus = target /\ from[p] \subseteq {target}
      BY <1>4 DEF TypeOK, InFlight, LinkIsTarget, OneThread, ReadsTarget, Alive,
                  ReadSucceeds
    <3>2. from[p] \cup {modbus} = {target}
      BY <3>1
    <3>3. QED
      BY <1>4, <3>2 DEF TypeOK, ReadsTarget, ReadSucceeds, Goto, link
  <2>5. QED
    BY <2>2, <2>3, <2>4
<1>5. CASE ReadFails(p)
  BY <1>5 DEF TypeOK, InFlight, Polled, LinkIsTarget, Reading, OneThread, ReadsTarget,
              Alive, ReadFails, Goto, PollerPC, link, thread, requests
<1>6. CASE Store(p)
  BY <1>6 DEF TypeOK, InFlight, Polled, LinkIsTarget, Reading, OneThread, ReadsTarget,
              Alive, Store, Goto, PollerPC, link, thread, requests
<1>7. QED
  BY <1>1, <1>2, <1>3, <1>4, <1>5, <1>6 DEF Poller

LEMMA InvNext == Inv /\ [Next]_vars => Inv'
<1> SUFFICES ASSUME Inv, [Next]_vars PROVE Inv'
  OBVIOUS
<1>1. CASE UNCHANGED vars
  BY <1>1 DEF Inv, TypeOK, InFlight, Polled, LinkIsTarget, Reading, OneThread,
              ReadsTarget, Alive, vars, link, thread, requests, pollers
<1>2. QED
  BY <1>1, InvConnect, InvRequest, InvPoller DEF Next

THEOREM Invariant == Spec => []Inv
  BY InvInit, InvNext, PTL DEF Spec

-----------------------------------------------------------------------------
(* Every variable keeps its type, and self.lock is held by the request     *)
(* that is inside connect() (driver.py:61).                                *)
THEOREM TypeCorrect == Spec => []TypeOK
<1>1. Inv => TypeOK
  BY DEF Inv
<1>2. QED
  BY <1>1, Invariant, PTL

(* An open link has a poll thread that has not ended, however many were    *)
(* given up by join(timeout=5.0) (driver.py:93-110).                       *)
THEOREM LinkIsPolledTheorem == Spec => []LinkIsPolled
<1>1. Inv => LinkIsPolled
  BY DEF Inv, Polled, LinkIsPolled
<1>2. QED
  BY <1>1, Invariant, PTL

(* Until a thread is given up, _poll_once (driver.py:136-166) stores only  *)
(* samples read from the current target in full.                           *)
THEOREM SamplesCurrentDeviceTheorem == Spec => SamplesCurrentDevice
<1>1. Inv /\ [Next]_vars => [sample' # sample => abandoned \/ sample' = {target}]_vars
  <2> SUFFICES ASSUME Inv, Next, sample' # sample, ~abandoned
               PROVE  sample' = {target}
    BY DEF vars
  <2>1. PICK p \in Pollers : Store(p)
    BY DEF Next, Request, Poller, Connect, Join, Close, OpenFails, OpenSucceeds,
           Connected, Loop, Check, Lost, Attempt, ReadSucceeds, ReadFails, Failed, Sleep
  <2>2. QED
    BY <2>1 DEF Inv, ReadsTarget, Store
<1>2. QED
  BY <1>1, Invariant, PTL DEF Spec, SamplesCurrentDevice
=============================================================================
