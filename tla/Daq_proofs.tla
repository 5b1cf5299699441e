----------------------------- MODULE Daq_proofs -----------------------------
(***************************************************************************)
(* Proofs about Daq for every capacity of the ring, every backoff          *)
(* configuration and every number of handlers.                             *)
(***************************************************************************)
EXTENDS Daq, FiniteSetTheorems, TLAPS

LEMMA Constants ==
  /\ None \notin Samples
  /\ None \notin Sessions
  /\ Capacity \in Nat \ {0}
  /\ BackoffInitial \in Nat \ {0}
  /\ BackoffMax \in Nat \ {0}
  /\ FailureBound \in Nat \ {0}
  BY ConstantsAssumption

LEMMA NextCases ==
  ASSUME [Next]_vars
  PROVE  \/ Top \/ DialSucceeds \/ DialFails \/ BackoffEnds \/ Poll
         \/ ReadSucceeds \/ ReadFails \/ Reconnect \/ AddSample
         \/ RecordSuccess \/ WaitEnds
         \/ \E r \in Requests :
              \/ StatusBegins(r) \/ StatusTimestamp(r) \/ StatusLength(r)
              \/ Answer(r) \/ PublishBegins(r) \/ PublishDial(r) \/ PublishEnds(r)
         \/ Signal \/ Cancel \/ Exit \/ UNCHANGED vars
  BY Zenon DEF Next, Loop, Handler

-----------------------------------------------------------------------------
(* Indices of the ring: the next one, and the one of the i-th sample held. *)
LEMMA NextIndex ==
  ASSUME NEW i \in 0..(Capacity - 1)
  PROVE  (i + 1) % Capacity = IF i + 1 = Capacity THEN 0 ELSE i + 1
  BY Constants, SMT

LEMMA Wrap ==
  ASSUME NEW d \in (-Capacity)..(Capacity - 1)
  PROVE  (d + Capacity) % Capacity = IF d < 0 THEN d + Capacity ELSE d
<1>1. Capacity \in Nat /\ Capacity > 0
  BY Constants
<1>2. CASE d < 0
  BY <1>1, <1>2, SMT
<1>3. CASE d >= 0
  BY <1>1, <1>3, SMT
<1>4. QED
  BY <1>1, <1>2, <1>3, SMT

-----------------------------------------------------------------------------
(* Every variable keeps its type; the ring is never written outside its    *)
(* bounds and its length never exceeds them (device.go:34-40).             *)
LEMMA TypeInductive == TypeOK /\ [Next]_vars => TypeOK'
<1> SUFFICES ASSUME TypeOK, [Next]_vars PROVE TypeOK'
  OBVIOUS
<1> USE Constants
<1>1. CASE Top \/ ReadSucceeds \/ Reconnect \/ RecordSuccess
  BY <1>1 DEF TypeOK, Top, ReadSucceeds, Reconnect, RecordSuccess, LoopPC,
              ring, collector, loop, handlers, status
<1>2. CASE DialSucceeds \/ DialFails
  <2>1. failures' \in 0..FailureBound
    BY <1>2 DEF TypeOK, DialSucceeds, DialFails, Smaller
  <2>2. backoff' \in 1..Larger(BackoffInitial, BackoffMax)
    BY <1>2 DEF TypeOK, DialSucceeds, DialFails, Larger
  <2>3. QED
    BY <1>2, <2>1, <2>2 DEF TypeOK, DialSucceeds, DialFails, LoopPC,
                            ring, collector, handlers, status
<1>3. CASE BackoffEnds
  <2>1. backoff' \in 1..Larger(BackoffInitial, BackoffMax)
    BY <1>3 DEF TypeOK, BackoffEnds, NextBackoff, Larger
  <2>2. QED
    BY <1>3, <2>1 DEF TypeOK, BackoffEnds, LoopPC, ring, collector, handlers, status
<1>4. CASE Poll \/ ReadFails \/ WaitEnds
  BY <1>4 DEF TypeOK, Poll, ReadFails, WaitEnds, LoopPC, ring, collector, handlers, status
<1>5. CASE AddSample
  <2>1. head' \in 0..(Capacity - 1)
    BY <1>5, NextIndex DEF TypeOK, AddSample, Add
  <2>2. len' \in 0..Capacity
    BY <1>5 DEF TypeOK, AddSample, Add
  <2>3. s' \in [0..(Capacity - 1) -> Samples \cup {None}]
    BY <1>5 DEF TypeOK, AddSample, Add
  <2>4. QED
    BY <1>5, <2>1, <2>2, <2>3 DEF TypeOK, AddSample, LoopPC, collector, handlers, status
<1>6. ASSUME NEW r \in Requests,
             StatusBegins(r) \/ StatusLength(r) \/ Answer(r) \/ PublishBegins(r)
      PROVE  TypeOK'
  <2>1. online' \in [Requests -> BOOLEAN]
    BY <1>6, Zenon DEF TypeOK, StatusBegins, StatusLength, Answer, PublishBegins, status
  <2>2. rpc' \in [Requests -> HandlerPC]
    BY <1>6 DEF TypeOK, StatusBegins, StatusLength, Answer, PublishBegins, Goto, HandlerPC
  <2>3. lastTS' \in [Requests -> Samples \cup {None}]
    BY <1>6 DEF TypeOK, StatusBegins, StatusLength, Answer, PublishBegins, status
  <2>4. fill' \in [Requests -> 0..Capacity]
    <3>1. fill' = fill \/ \E n \in {0, len} : fill' = [fill EXCEPT ![r] = n]
      BY <1>6, Zenon DEF StatusBegins, StatusLength, Answer, PublishBegins, status
    <3>2. {0, len} \subseteq 0..Capacity /\ fill \in [Requests -> 0..Capacity]
      BY DEF TypeOK
    <3>3. QED
      BY <3>1, <3>2, Zenon
  <2>5. QED
    BY <1>6, <2>1, <2>2, <2>3, <2>4 DEF TypeOK, StatusBegins, StatusLength, Answer,
       PublishBegins, ring, collector, loop
<1>7. ASSUME NEW r \in Requests, StatusTimestamp(r)
      PROVE  TypeOK'
  <2>1. LastTimestamp \in Samples \cup {None}
    BY Wrap DEF TypeOK, LastTimestamp
  <2>2. QED
    BY <1>7, <2>1 DEF TypeOK, StatusTimestamp, At, Goto, HandlerPC, ring, collector, loop
<1>8. ASSUME NEW r \in Requests, PublishDial(r) \/ PublishEnds(r)
      PROVE  TypeOK'
  BY <1>8 DEF TypeOK, PublishDial, PublishEnds, At, Goto, HandlerPC,
              ring, collector, loop, status
<1>9. CASE Signal \/ Cancel \/ Exit \/ UNCHANGED vars
  BY <1>9 DEF TypeOK, Signal, Cancel, Exit, vars, ring, collector, loop, handlers, status
<1>10. QED
  BY <1>1, <1>2, <1>3, <1>4, <1>5, <1>6, <1>7, <1>8, <1>9, NextCases

THEOREM TypeCorrect == Spec => []TypeOK
<1>1. ASSUME Init PROVE TypeOK
  <2>1. online \in [Requests -> BOOLEAN]
    BY <1>1, Zenon DEF Init
  <2>2. backoff \in 1..Larger(BackoffInitial, BackoffMax)
    BY <1>1, Constants DEF Init, Larger
  <2>3. /\ s \in [0..(Capacity - 1) -> Samples \cup {None}]
        /\ head \in 0..(Capacity - 1)
        /\ len \in 0..Capacity
        /\ failures \in 0..FailureBound
    BY <1>1, Constants DEF Init
  <2>4. /\ rpc \in [Requests -> HandlerPC]
        /\ lastTS \in [Requests -> Samples \cup {None}]
        /\ fill \in [Requests -> 0..Capacity]
        /\ rh \in [Requests -> Sessions \cup {None}]
    BY <1>1, Constants DEF Init, HandlerPC
  <2>5. /\ connected \in BOOLEAN
        /\ succeeded \in BOOLEAN
        /\ pc \in LoopPC
        /\ h \in Sessions \cup {None}
        /\ sample \in Samples \cup {None}
        /\ open \subseteq Sessions
        /\ main \in {"serving", "draining", "cancelled", "exited"}
    BY <1>1 DEF Init, LoopPC
  <2>6. QED
    BY <2>1, <2>2, <2>3, <2>4, <2>5 DEF TypeOK
<1>2. QED
  BY <1>1, TypeInductive, PTL DEF Spec

LEMMA HandlerFrame ==
  ASSUME NEW r \in Requests,
         \/ StatusBegins(r) \/ StatusTimestamp(r) \/ StatusLength(r)
         \/ Answer(r) \/ PublishBegins(r) \/ PublishDial(r) \/ PublishEnds(r)
  PROVE  UNCHANGED <<s, head, len, connected, succeeded, pc, h, sample, backoff, failures>>
  BY Zenon DEF StatusBegins, StatusTimestamp, StatusLength, Answer, PublishBegins,
               PublishDial, PublishEnds, ring, collector, loop

LEMMA MainFrame ==
  ASSUME Signal \/ Cancel \/ Exit \/ UNCHANGED vars
  PROVE  UNCHANGED <<s, head, len, connected, succeeded, pc, h, sample, backoff, failures,
                     rpc, online, lastTS, fill, rh, open>>
  BY DEF Signal, Cancel, Exit, vars, ring, collector, loop, handlers, status

LEMMA LoopFrame ==
  ASSUME \/ Top \/ DialSucceeds \/ DialFails \/ BackoffEnds \/ Poll
         \/ ReadSucceeds \/ ReadFails \/ Reconnect \/ AddSample
         \/ RecordSuccess \/ WaitEnds
  PROVE  UNCHANGED <<rpc, online, lastTS, fill, rh>>
  BY Zenon DEF Top, DialSucceeds, DialFails, BackoffEnds, Poll, ReadSucceeds, ReadFails,
               Reconnect, AddSample, RecordSuccess, WaitEnds, handlers, status

-----------------------------------------------------------------------------
(* Acquisition is not reported as running while the collector tries or     *)
(* waits to have a session (device.go:79-143).                             *)
THEOREM RunningCorrect == Spec => []RunningHasSession
<1>1. Init => RunningHasSession
  BY DEF Init, RunningHasSession
<1>2. RunningHasSession /\ [Next]_vars => RunningHasSession'
  <2> SUFFICES ASSUME RunningHasSession, [Next]_vars PROVE RunningHasSession'
    OBVIOUS
  <2>1. CASE \/ Top \/ DialSucceeds \/ DialFails \/ BackoffEnds \/ Poll
             \/ ReadSucceeds \/ ReadFails \/ Reconnect \/ AddSample
             \/ RecordSuccess \/ WaitEnds
    BY <2>1 DEF RunningHasSession, Top, DialSucceeds, DialFails, BackoffEnds, Poll,
                ReadSucceeds, ReadFails, Reconnect, AddSample, RecordSuccess, WaitEnds,
                collector
  <2>2. ASSUME UNCHANGED <<connected, pc>> PROVE RunningHasSession'
    BY <2>2 DEF RunningHasSession
  <2>3. QED
    BY <2>1, <2>2, NextCases, HandlerFrame, MainFrame
<1>3. QED
  BY <1>1, <1>2, PTL DEF Spec

-----------------------------------------------------------------------------
(* The sessions that are open are those that the collector and the         *)
(* handlers hold, each by one of them, and only where they will close it.  *)
SessionInv ==
  /\ SessionsOwned
  /\ h # None <=> pc \in {"poll", "read", "add", "success", "wait"}
  /\ \A r \in Requests : rh[r] # None <=> rpc[r] = "write"
  /\ \A r \in Requests : rh[r] # None => rh[r] # h
  /\ \A r, q \in Requests : r # q /\ rh[r] # None => rh[r] # rh[q]

LEMMA SessionInductive == TypeOK /\ SessionInv /\ [Next]_vars => SessionInv'
<1> SUFFICES ASSUME TypeOK, SessionInv, [Next]_vars PROVE SessionInv'
  OBVIOUS
<1> USE Constants
<1>1. CASE Top \/ DialFails \/ BackoffEnds \/ ReadSucceeds \/ Reconnect
           \/ AddSample \/ RecordSuccess
  <2>1. UNCHANGED <<h, rh, rpc, open>>
    BY <1>1, LoopFrame DEF Top, DialFails, BackoffEnds, ReadSucceeds, Reconnect,
                           AddSample, RecordSuccess
  <2>2. h' # None <=> pc' \in {"poll", "read", "add", "success", "wait"}
    BY <1>1 DEF SessionInv, Top, DialFails, BackoffEnds, ReadSucceeds, Reconnect,
                AddSample, RecordSuccess
  <2>3. QED
    BY <2>1, <2>2 DEF SessionInv, SessionsOwned
<1>2. CASE DialSucceeds
  <2>1. UNCHANGED <<rh, rpc>>
    BY <1>2, LoopFrame
  <2>2. PICK x \in Sessions \ open : h' = x /\ open' = open \cup {x}
    BY <1>2 DEF DialSucceeds
  <2>3. h = None /\ pc' = "poll"
    BY <1>2 DEF DialSucceeds, SessionInv
  <2>4. \A r \in Requests : rh[r] # x
    BY <2>2 DEF SessionInv, SessionsOwned
  <2>5. QED
    BY <2>1, <2>2, <2>3, <2>4 DEF SessionInv, SessionsOwned
<1>3. CASE Poll \/ ReadFails \/ WaitEnds
  <2>1. UNCHANGED <<rh, rpc>>
    BY <1>3, LoopFrame
  <2>2. \/ h' = h /\ open' = open
        \/ h' = None /\ open' = open \ {h}
    BY <1>3 DEF Poll, ReadFails, WaitEnds
  <2>3. h' # None <=> pc' \in {"poll", "read", "add", "success", "wait"}
    BY <1>3 DEF SessionInv, Poll, ReadFails, WaitEnds
  <2>4. QED
    BY <2>1, <2>2, <2>3 DEF SessionInv, SessionsOwned
<1>4. ASSUME NEW r \in Requests, StatusBegins(r) \/ StatusTimestamp(r)
             \/ StatusLength(r) \/ Answer(r) \/ PublishBegins(r)
      PROVE  SessionInv'
  <2>1. UNCHANGED <<h, pc, rh, open>>
    BY <1>4, HandlerFrame DEF StatusBegins, StatusTimestamp, StatusLength, Answer,
                              PublishBegins
  <2>2. \A q \in Requests : rpc'[q] = "write" <=> rpc[q] = "write"
    BY <1>4 DEF TypeOK, StatusBegins, StatusTimestamp, StatusLength, Answer,
                PublishBegins, At, Goto
  <2>3. QED
    BY <2>1, <2>2 DEF SessionInv, SessionsOwned
<1>5. ASSUME NEW r \in Requests, PublishDial(r)
      PROVE  SessionInv'
  <2>1. UNCHANGED <<h, pc>>
    BY <1>5, HandlerFrame
  <2>2. CASE UNCHANGED <<rh, open>> /\ Goto(r, "idle")
    <3>1. \A q \in Requests : rpc'[q] = "write" <=> rpc[q] = "write"
      BY <1>5, <2>2 DEF TypeOK, PublishDial, At, Goto
    <3>2. QED
      BY <2>1, <2>2, <3>1 DEF SessionInv, SessionsOwned
  <2>3. ASSUME NEW x \in Sessions \ open, rh' = [rh EXCEPT ![r] = x],
               open' = open \cup {x}, Goto(r, "write")
        PROVE  SessionInv'
    <3>1. rh[r] = None
      BY <1>5 DEF SessionInv, PublishDial, At
    <3>2. x # h /\ \A q \in Requests : rh[q] # x
      BY DEF SessionInv, SessionsOwned
    <3>3. \A q \in Requests : rh'[q] = (IF q = r THEN x ELSE rh[q])
                           /\ rpc'[q] = (IF q = r THEN "write" ELSE rpc[q])
      BY <2>3 DEF TypeOK, Goto
    <3>4. QED
      BY <2>1, <2>3, <3>1, <3>2, <3>3 DEF SessionInv, SessionsOwned
  <2>4. QED
    BY <1>5, <2>2, <2>3 DEF PublishDial
<1>6. ASSUME NEW r \in Requests, PublishEnds(r)
      PROVE  SessionInv'
  <2>1. UNCHANGED <<h, pc>>
    BY <1>6, HandlerFrame
  <2>2. rh[r] # None /\ open' = open \ {rh[r]}
    BY <1>6 DEF SessionInv, PublishEnds, At
  <2>3. \A q \in Requests : rh'[q] = (IF q = r THEN None ELSE rh[q])
                         /\ rpc'[q] = (IF q = r THEN "idle" ELSE rpc[q])
    BY <1>6 DEF TypeOK, PublishEnds, Goto
  <2>4. QED
    BY <2>1, <2>2, <2>3 DEF SessionInv, SessionsOwned
<1>7. CASE Signal \/ Cancel \/ Exit \/ UNCHANGED vars
  BY <1>7, MainFrame DEF SessionInv, SessionsOwned
<1>8. QED
  BY <1>1, <1>2, <1>3, <1>4, <1>5, <1>6, <1>7, NextCases

(* No session is left open without an owner (device.go:102-127, 219-226).  *)
THEOREM SessionsCorrect == Spec => []SessionsOwned
<1>1. Init => SessionInv
  BY Constants DEF Init, SessionInv, SessionsOwned
<1>2. SessionInv => SessionsOwned
  BY DEF SessionInv
<1>3. QED
  BY <1>1, <1>2, SessionInductive, TypeCorrect, PTL DEF Spec

-----------------------------------------------------------------------------
(* What a status has seen by the time it answers: a success, and a time in *)
(* the ring, both mean that the ring was not empty, which it never becomes *)
(* again.                                                                  *)
StatusInv ==
  /\ len > 0 => LastTimestamp \in Samples
  /\ pc = "add" => sample \in Samples
  /\ pc = "success" \/ succeeded => len > 0
  /\ \A r \in Requests :
       /\ online[r] \/ lastTS[r] # None => len > 0
       /\ rpc[r] \in {"length", "answer"} => (online[r] => lastTS[r] # None)
       /\ rpc[r] = "answer" => (lastTS[r] # None => fill[r] > 0)

LEMMA StatusInductive == TypeOK /\ StatusInv /\ [Next]_vars => StatusInv'
<1> SUFFICES ASSUME TypeOK, StatusInv, [Next]_vars PROVE StatusInv'
  OBVIOUS
<1> USE Constants
<1>1. CASE \/ Top \/ DialSucceeds \/ DialFails \/ BackoffEnds \/ Poll
           \/ ReadSucceeds \/ ReadFails \/ Reconnect \/ RecordSuccess \/ WaitEnds
  <2>1. UNCHANGED <<s, head, len, rpc, online, lastTS, fill>>
    BY <1>1, LoopFrame DEF Top, DialSucceeds, DialFails, BackoffEnds, Poll, ReadSucceeds,
         ReadFails, Reconnect, RecordSuccess, WaitEnds, ring
  <2>2. pc' = "add" => sample' \in Samples
    BY <1>1 DEF Top, DialSucceeds, DialFails, BackoffEnds, Poll, ReadSucceeds,
         ReadFails, Reconnect, RecordSuccess, WaitEnds
  <2>3. pc' = "success" \/ succeeded' => len > 0
    BY <1>1 DEF StatusInv, Top, DialSucceeds, DialFails, BackoffEnds, Poll, ReadSucceeds,
         ReadFails, Reconnect, RecordSuccess, WaitEnds, collector
  <2>4. QED
    BY <2>1, <2>2, <2>3 DEF StatusInv, LastTimestamp
<1>2. CASE AddSample
  <2>1. len' > 0
    BY <1>2 DEF TypeOK, AddSample, Add
  <2>2. head' - 1 \in (-Capacity)..(Capacity - 1)
    BY <1>2, NextIndex DEF TypeOK, AddSample, Add
  <2>3. (head' - 1 + Capacity) % Capacity = head
    <3>1. (head' - 1 + Capacity) % Capacity
            = IF head' - 1 < 0 THEN head' - 1 + Capacity ELSE head' - 1
      BY <2>2, Wrap
    <3>2. head \in 0..(Capacity - 1) /\ head' = IF head + 1 = Capacity THEN 0 ELSE head + 1
      BY <1>2, NextIndex DEF TypeOK, AddSample, Add
    <3>3. QED
      BY <3>1, <3>2
  <2>4. s'[head] = sample /\ sample \in Samples
    BY <1>2 DEF TypeOK, StatusInv, AddSample, Add
  <2>5. LastTimestamp' \in Samples
    BY <2>1, <2>3, <2>4 DEF LastTimestamp
  <2>6. UNCHANGED <<rpc, online, lastTS, fill>> /\ pc' = "success"
    BY <1>2, LoopFrame DEF AddSample
  <2>7. QED
    BY <2>1, <2>5, <2>6 DEF StatusInv
<1>3. ASSUME NEW r \in Requests, StatusBegins(r)
      PROVE  StatusInv'
  <2>1. \A q \in Requests : online'[q] = (IF q = r THEN succeeded ELSE online[q])
                         /\ rpc'[q] = (IF q = r THEN "timestamp" ELSE rpc[q])
    BY <1>3, Zenon DEF TypeOK, StatusBegins, Goto
  <2>2. UNCHANGED <<s, head, len, pc, sample, succeeded, lastTS, fill>>
    BY <1>3, HandlerFrame DEF StatusBegins
  <2>3. QED
    BY <2>1, <2>2 DEF StatusInv, LastTimestamp
<1>4. ASSUME NEW r \in Requests, StatusTimestamp(r)
      PROVE  StatusInv'
  <2>1. \A q \in Requests : lastTS'[q] = (IF q = r THEN LastTimestamp ELSE lastTS[q])
                         /\ rpc'[q] = (IF q = r THEN "length" ELSE rpc[q])
    BY <1>4 DEF TypeOK, StatusTimestamp, Goto
  <2>2. UNCHANGED <<s, head, len, pc, sample, succeeded, online, fill>>
    BY <1>4, HandlerFrame DEF StatusTimestamp
  <2>3. LastTimestamp # None <=> len > 0
    BY DEF TypeOK, StatusInv, LastTimestamp
  <2>4. QED
    BY <2>1, <2>2, <2>3 DEF StatusInv, LastTimestamp
<1>5. ASSUME NEW r \in Requests, StatusLength(r)
      PROVE  StatusInv'
  <2>1. \A q \in Requests : fill'[q] = (IF q = r THEN len ELSE fill[q])
                         /\ rpc'[q] = (IF q = r THEN "answer" ELSE rpc[q])
    BY <1>5 DEF TypeOK, StatusLength, Goto
  <2>2. UNCHANGED <<s, head, len, pc, sample, succeeded, online, lastTS>>
    BY <1>5, HandlerFrame DEF StatusLength
  <2>3. rpc[r] = "length"
    BY <1>5 DEF StatusLength, At
  <2>4. QED
    BY <2>1, <2>2, <2>3 DEF StatusInv, LastTimestamp
<1>6. ASSUME NEW r \in Requests, Answer(r)
      PROVE  StatusInv'
  <2>1. \A q \in Requests : online'[q] = (IF q = r THEN FALSE ELSE online[q])
    BY <1>6, Zenon DEF TypeOK, Answer
  <2>2. \A q \in Requests : lastTS'[q] = (IF q = r THEN None ELSE lastTS[q])
                         /\ fill'[q] = (IF q = r THEN 0 ELSE fill[q])
                         /\ rpc'[q] = (IF q = r THEN "idle" ELSE rpc[q])
    BY <1>6 DEF TypeOK, Answer, Goto
  <2>3. UNCHANGED <<s, head, len, pc, sample, succeeded>>
    BY <1>6, HandlerFrame
  <2>4. QED
    BY <2>1, <2>2, <2>3 DEF StatusInv, LastTimestamp
<1>7. ASSUME NEW r \in Requests, PublishBegins(r) \/ PublishDial(r) \/ PublishEnds(r)
      PROVE  StatusInv'
  <2>1. \A q \in Requests : rpc'[q] # rpc[q] => rpc'[q] \in {"idle", "dial", "write"}
    BY <1>7 DEF TypeOK, PublishBegins, PublishDial, PublishEnds, Goto
  <2>2. UNCHANGED <<s, head, len, pc, sample, succeeded, online, lastTS, fill>>
    BY <1>7, HandlerFrame DEF PublishBegins, PublishDial, PublishEnds, status
  <2>3. QED
    BY <2>1, <2>2 DEF StatusInv, LastTimestamp
<1>8. CASE Signal \/ Cancel \/ Exit \/ UNCHANGED vars
  BY <1>8, MainFrame DEF StatusInv, LastTimestamp
<1>9. QED
  BY <1>1, <1>2, <1>3, <1>4, <1>5, <1>6, <1>7, <1>8, NextCases

(* A status that calls the device online, or shows a last update, has what *)
(* belongs to it, for any interleaving of its three looks with the         *)
(* collector (device.go:182-207).                                          *)
THEOREM StatusCorrect == Spec => []StatusAgrees
<1>1. Init => StatusInv
  BY Constants DEF Init, StatusInv
<1>2. StatusInv => StatusAgrees
  BY DEF StatusInv, StatusAgrees, At
<1>3. QED
  BY <1>1, <1>2, StatusInductive, TypeCorrect, PTL DEF Spec

-----------------------------------------------------------------------------
(* The ring implements the window of the latest samples.                   *)
W == [i \in 1..len |-> Held(i)]

LEMMA AddWindow ==
  ASSUME TypeOK, NEW x \in Samples, Add(x)
  PROVE  W' = Append(IF Len(W) < Capacity THEN W ELSE Tail(W), x)
<1> USE Constants
<1> DEFINE V == Append(IF Len(W) < Capacity THEN W ELSE Tail(W), x)
           At0(hd, n, i) == IF hd - n + i - 1 < 0 THEN hd - n + i - 1 + Capacity
                                                  ELSE hd - n + i - 1
<1>1. /\ head \in 0..(Capacity - 1)
      /\ len \in 0..Capacity
      /\ head' = IF head + 1 = Capacity THEN 0 ELSE head + 1
      /\ len' = IF len < Capacity THEN len + 1 ELSE len
      /\ \A j \in 0..(Capacity - 1) : s'[j] = IF j = head THEN x ELSE s[j]
  BY NextIndex DEF TypeOK, Add
<1>2. ASSUME NEW hd \in 0..(Capacity - 1), NEW n \in 0..Capacity, NEW i \in 1..n
      PROVE  (hd - n + i - 1 + Capacity) % Capacity = At0(hd, n, i)
  <2>1. hd - n + i - 1 \in (-Capacity)..(Capacity - 1)
    BY <1>2
  <2>2. QED
    BY <2>1, Wrap
<1>3. \A i \in 1..len : W[i] = s[At0(head, len, i)]
  BY <1>1, <1>2 DEF W, Held
<1>4. /\ head' \in 0..(Capacity - 1)
      /\ len' \in 1..Capacity
  BY <1>1
<1>5. \A i \in 1..len' : W'[i] = s'[At0(head', len', i)]
  <2>1. W' = [i \in 1..len' |-> s'[(head' - len' + i - 1 + Capacity) % Capacity]]
    BY DEF W, Held
  <2>2. \A i \in 1..len' :
          (head' - len' + i - 1 + Capacity) % Capacity = At0(head', len', i)
    <3> TAKE i \in 1..len'
    <3>1. len' \in 0..Capacity
      BY <1>4
    <3>2. QED
      BY <1>2, <1>4, <3>1
  <2>3. QED
    BY <2>1, <2>2
<1>6. Len(W) = len /\ W \in Seq({W[i] : i \in 1..len})
  BY <1>1 DEF W
<1>7. CASE len < Capacity
  <2>1. V = [i \in 1..(len + 1) |-> IF i = len + 1 THEN x ELSE W[i]]
    <3>1. V = Append(W, x)
      BY <1>6, <1>7
    <3>2. QED
      BY <1>1, <1>6, <3>1
  <2>2. \A i \in 1..(len + 1) : W'[i] = IF i = len + 1 THEN x ELSE W[i]
    <3> TAKE i \in 1..(len + 1)
    <3>1. At0(head', len', i) = IF i = len + 1 THEN head ELSE At0(head, len, i)
      BY <1>1, <1>7
    <3>2. i # len + 1 => At0(head, len, i) # head /\ At0(head, len, i) \in 0..(Capacity - 1)
      BY <1>1, <1>7
    <3>3. QED
      BY <1>1, <1>3, <1>5, <1>7, <3>1, <3>2
  <2>3. W' = [i \in 1..(len + 1) |-> W'[i]]
    BY <1>1, <1>7 DEF W
  <2>4. QED
    BY <2>1, <2>2, <2>3
<1>8. CASE len = Capacity
  <2>1. V = [i \in 1..len |-> IF i = len THEN x ELSE W[i + 1]]
    BY <1>1, <1>6, <1>8
  <2>2. \A i \in 1..len : W'[i] = IF i = len THEN x ELSE W[i + 1]
    <3> TAKE i \in 1..len
    <3>1. At0(head', len', i) = IF i = len THEN head ELSE At0(head, len, i + 1)
      BY <1>1, <1>8
    <3>2. i # len => At0(head, len, i + 1) # head
                  /\ At0(head, len, i + 1) \in 0..(Capacity - 1)
      BY <1>1, <1>8
    <3>3. i # len => i + 1 \in 1..len
      BY <1>1
    <3>4. W'[i] = s'[At0(head', len', i)]
      BY <1>1, <1>5, <1>8
    <3>5. QED
      BY <1>1, <1>3, <1>5, <1>8, <3>1, <3>2, <3>3, <3>4
  <2>3. W' = [i \in 1..len |-> W'[i]]
    BY <1>1, <1>8 DEF W
  <2>4. QED
    BY <2>1, <2>2, <2>3
<1>9. QED
  BY <1>1, <1>7, <1>8

(* Daq implements SampleWindow: whatever the collector and the handlers    *)
(* do, the ring holds the latest samples in the order they were taken      *)
(* (device.go:22-49).                                                      *)
THEOREM Refinement == Spec => WindowSpec
<1>1. Init => Window!Init
  BY DEF Init, Window!Init
<1>2. TypeOK /\ StatusInv /\ [Next]_vars => [Window!Next]_W
  <2> SUFFICES ASSUME TypeOK, StatusInv, [Next]_vars
               PROVE  (\E x \in Samples : Window!Add(x)) \/ W' = W
    BY DEF Window!Next
  <2>1. CASE AddSample
    <3>1. sample \in Samples /\ Add(sample)
      BY <2>1 DEF StatusInv, AddSample
    <3>2. Window!Add(sample)
      BY <3>1, AddWindow DEF Window!Add, W
    <3>3. QED
      BY <3>1, <3>2
  <2>2. ASSUME UNCHANGED <<s, head, len>> PROVE W' = W
    BY <2>2 DEF W, Held
  <2>3. CASE \/ Top \/ DialSucceeds \/ DialFails \/ BackoffEnds \/ Poll
             \/ ReadSucceeds \/ ReadFails \/ Reconnect \/ RecordSuccess \/ WaitEnds
    BY <2>2, <2>3 DEF Top, DialSucceeds, DialFails, BackoffEnds, Poll, ReadSucceeds,
         ReadFails, Reconnect, RecordSuccess, WaitEnds, ring
  <2>4. QED
    BY <2>1, <2>2, <2>3, NextCases, HandlerFrame, MainFrame
<1>3. Init => StatusInv
  BY Constants DEF Init, StatusInv
<1>4. QED
  BY <1>1, <1>2, <1>3, StatusInductive, TypeCorrect, PTL DEF Spec, WindowSpec, Window!Spec, W
-----------------------------------------------------------------------------
(* Powers of two.  The library knows 2^n as the number of subsets of a set *)
(* of n elements; one element more doubles them, as each may have it too.  *)
LEMMA PowerOfZero == 2 ^ 0 = 1
<1>1. Cardinality(SUBSET {}) = 2 ^ 0
  BY FS_EmptySet, FS_SUBSET
<1>2. SUBSET {} = {{}}
  OBVIOUS
<1>3. QED
  BY <1>1, <1>2, FS_Singleton

LEMMA PowerDoubles ==
  ASSUME NEW n \in Nat
  PROVE  2 ^ n \in Nat \ {0} /\ 2 ^ (n + 1) = 2 * 2 ^ n
<1> DEFINE Old == 1 .. n
           Without == SUBSET Old
           With == {T \cup {n + 1} : T \in Without}
           add == [T \in Without |-> T \cup {n + 1}]
<1>1. IsFiniteSet(Without) /\ Cardinality(Without) = 2 ^ n
  <2>1. IsFiniteSet(Old) /\ Cardinality(Old) = n
    BY FS_Interval
  <2>2. QED
    BY <2>1, FS_SUBSET
<1>2. Cardinality(SUBSET (1 .. (n + 1))) = 2 ^ (n + 1)
  <2>1. IsFiniteSet(1 .. (n + 1)) /\ Cardinality(1 .. (n + 1)) = n + 1
    BY FS_Interval
  <2>2. QED
    BY <2>1, FS_SUBSET
<1>3. n + 1 \notin Old /\ 1 .. (n + 1) = Old \cup {n + 1}
  OBVIOUS
<1> HIDE DEF Old
<1>4. add \in Bijection(Without, With)
  <2>1. add \in [Without -> With]
    OBVIOUS
  <2>2. ASSUME NEW T \in Without, NEW U \in Without, add[T] = add[U] PROVE T = U
    <3>1. T = add[T] \ {n + 1} /\ U = add[U] \ {n + 1}
      BY <1>3
    <3>2. QED
      BY <2>2, <3>1
  <2>3. \A A \in With : \E T \in Without : add[T] = A
    OBVIOUS
  <2> HIDE DEF add, With, Without
  <2>4. QED
    BY <2>1, <2>2, <2>3 DEF Bijection, Injection, Surjection, IsInjective
<1>5. IsFiniteSet(With) /\ Cardinality(With) = 2 ^ n
  <2>1. ExistsBijection(Without, With)
    BY <1>4 DEF ExistsBijection
  <2> HIDE DEF With, Without
  <2>2. QED
    BY <1>1, <2>1, FS_Bijection
<1>6. Without \cap With = {}
  BY <1>3
<1>7. SUBSET (1 .. (n + 1)) = Without \cup With
  <2>1. ASSUME NEW A \in SUBSET (Old \cup {n + 1}), n + 1 \in A PROVE A \in With
    <3>1. A = (A \ {n + 1}) \cup {n + 1} /\ A \ {n + 1} \in Without
      BY <2>1
    <3>2. QED
      BY <3>1
  <2>2. ASSUME NEW A \in SUBSET (Old \cup {n + 1}), n + 1 \notin A PROVE A \in Without
    BY <2>2
  <2>3. Without \cup With \subseteq SUBSET (Old \cup {n + 1})
    OBVIOUS
  <2> HIDE DEF With, Without
  <2>4. QED
    BY <1>3, <2>1, <2>2, <2>3
<1> HIDE DEF With, Without
<1>8. Cardinality(Without \cup With) = 2 ^ n + 2 ^ n - Cardinality({})
  BY <1>1, <1>5, <1>6, FS_Union
<1>9. 2 ^ n \in Nat \ {0}
  <2>1. {} \in Without
    BY DEF Without
  <2>2. QED
    BY <1>1, <2>1, FS_CardinalityType, FS_EmptySet
<1>10. 2 ^ (n + 1) = 2 ^ n + 2 ^ n - 0
  BY <1>2, <1>7, <1>8, FS_EmptySet
<1>11. QED
  BY <1>9, <1>10

-----------------------------------------------------------------------------
(* The delay that n failures in a row lead to, and what nextBackoff makes  *)
(* of it.                                                                  *)
Delay(n) ==
  IF n = 0 THEN BackoffInitial ELSE Smaller(BackoffInitial * 2 ^ n, BackoffMax)

LEMMA NextDelay ==
  ASSUME NEW n \in Nat
  PROVE  NextBackoff(Delay(n)) = Delay(n + 1)
<1>1. BackoffInitial * 2 ^ (n + 1) = 2 * (BackoffInitial * 2 ^ n) /\ BackoffInitial * 2 ^ n \in Nat
  <2> DEFINE p == 2 ^ n
  <2>1. p \in Nat /\ 2 ^ (n + 1) = 2 * p
    BY PowerDoubles
  <2> HIDE DEF p
  <2>2. BackoffInitial * (2 * p) = 2 * (BackoffInitial * p) /\ BackoffInitial * p \in Nat
    BY <2>1, Constants
  <2>3. QED
    BY <2>1, <2>2 DEF p
<1>2. CASE n = 0
  BY <1>1, <1>2, PowerOfZero, Constants DEF Delay, NextBackoff, Smaller
<1>3. CASE n # 0
  <2> DEFINE x == BackoffInitial * 2 ^ n
  <2>1. x \in Nat /\ BackoffInitial * 2 ^ (n + 1) = 2 * x
    BY <1>1
  <2>2. Delay(n) = Smaller(x, BackoffMax)
    BY <1>3 DEF Delay
  <2>3. Delay(n + 1) = Smaller(2 * x, BackoffMax)
    BY <2>1 DEF Delay
  <2> HIDE DEF x
  <2>4. QED
    BY <2>1, <2>2, <2>3, Constants DEF NextBackoff, Smaller
<1>4. QED
  BY <1>2, <1>3

(* The bound of the model on the failures it counts lies where the delay   *)
(* does not grow any more.                                                 *)
LEMMA LastDelay == Delay(FailureBound) = BackoffMax /\ NextBackoff(BackoffMax) = BackoffMax
<1>1. BackoffInitial * 2 ^ FailureBound \in Nat
  <2>1. 2 ^ FailureBound \in Nat
    BY PowerDoubles, Constants
  <2>2. QED
    BY <2>1, Constants
<1>2. QED
  BY <1>1, ConstantsAssumption DEF Delay, NextBackoff, Smaller

(* While a delay is slept it is the one before the last failure.           *)
BackoffInv ==
  /\ pc = "backoff" =>
       /\ failures # 0
       /\ \/ backoff = Delay(failures - 1)
          \/ failures = FailureBound /\ backoff = BackoffMax
  /\ pc \notin {"backoff", "exited"} => backoff = Delay(failures)

LEMMA BackoffInductive == TypeOK /\ BackoffInv /\ [Next]_vars => BackoffInv'
<1> SUFFICES ASSUME TypeOK, BackoffInv, [Next]_vars PROVE BackoffInv'
  OBVIOUS
<1>0. failures \in Nat /\ failures <= FailureBound
  BY Constants DEF TypeOK
<1>1. CASE \/ Top \/ Poll \/ ReadSucceeds \/ ReadFails \/ Reconnect \/ AddSample
           \/ RecordSuccess \/ WaitEnds
  <2>1. /\ UNCHANGED <<backoff, failures>>
        /\ pc \notin {"backoff", "exited"} /\ pc' # "backoff"
    BY <1>1 DEF Top, Poll, ReadSucceeds, ReadFails, Reconnect, AddSample, RecordSuccess, WaitEnds
  <2>2. QED
    BY <2>1 DEF BackoffInv
<1>2. CASE DialSucceeds
  BY <1>2 DEF BackoffInv, DialSucceeds, Delay
<1>3. CASE DialFails
  <2>1. /\ pc' = "backoff" /\ backoff' = backoff
        /\ backoff = Delay(failures) /\ failures' = Smaller(failures + 1, FailureBound)
    BY <1>3 DEF BackoffInv, DialFails
  <2>2. CASE failures < FailureBound
    <3>1. failures' = failures + 1 /\ failures' - 1 = failures /\ failures' # 0
      BY <1>0, <2>1, <2>2, Constants DEF Smaller
    <3>2. QED
      BY <2>1, <3>1 DEF BackoffInv
  <2>3. CASE failures = FailureBound
    <3>1. failures' = FailureBound
      BY <1>0, <2>1, <2>3, Constants DEF Smaller
    <3>2. QED
      BY <2>1, <2>3, <3>1, LastDelay, Constants DEF BackoffInv
  <2>4. QED
    BY <1>0, <2>2, <2>3, Constants
<1>4. CASE BackoffEnds
  <2>1. CASE pc' = "exited"
    BY <2>1 DEF BackoffInv
  <2>2. CASE pc' = "top" /\ backoff' = NextBackoff(backoff)
    <3>1. failures' = failures /\ failures # 0 /\ failures - 1 \in Nat
      BY <1>0, <1>4 DEF BackoffInv, BackoffEnds
    <3>2. NextBackoff(backoff) = Delay(failures)
      <4>1. CASE backoff = Delay(failures - 1)
        BY <3>1, <4>1, <1>0, NextDelay
      <4>2. CASE failures = FailureBound /\ backoff = BackoffMax
        BY <4>2, LastDelay
      <4>3. QED
        BY <1>4, <4>1, <4>2 DEF BackoffInv, BackoffEnds
    <3>3. QED
      BY <2>2, <3>1, <3>2 DEF BackoffInv
  <2>3. QED
    BY <1>4, <2>1, <2>2 DEF BackoffEnds
<1>5. ASSUME UNCHANGED <<pc, backoff, failures>> PROVE BackoffInv'
  BY <1>5 DEF BackoffInv
<1>6. QED
  BY <1>1, <1>2, <1>3, <1>4, <1>5, NextCases, HandlerFrame, MainFrame

(* The delay before a dial is the initial one, doubled by every failure    *)
(* since the last session and capped, for every pair of settings           *)
(* (device.go:79-118, nextBackoff).                                        *)
THEOREM BackoffTheorem == Spec => []BackoffFollowsFailures
<1>1. Init => BackoffInv
  BY DEF Init, BackoffInv, Delay
<1>2. BackoffInv => BackoffFollowsFailures
  BY DEF BackoffInv, BackoffFollowsFailures, Delay
<1>3. QED
  BY <1>1, <1>2, BackoffInductive, TypeCorrect, PTL DEF Spec
=============================================================================
